---------------------------- MODULE NestedUpcall ----------------------------
(***************************************************************************)
(* The NestedUpcall/Simple test servant (src/TAO/tests/NestedUpcall/      *)
(* Simple/server_i.cpp).  start (c, time_to_live) remembers the client     *)
(* and pings; ping (time_to_live) decrements its CORBA::UShort argument    *)
(* and, while it is still positive, calls client->ping with it, which     *)
(* calls back into the server before the first call returns: a chain of   *)
(* nested upcalls on one thread.                                           *)
(*                                                                         *)
(* The client is not in this repository.  It is modelled as a peer that   *)
(* either returns or pings the server back with a smaller, positive        *)
(* time_to_live, as the server itself does.                                *)
(***************************************************************************)
EXTENDS Integers, Sequences

CONSTANTS
  Width,        \* bits of CORBA::UShort
  StartValues   \* time_to_live values start () may be given

UShort == 0 .. 2^Width - 1
ASSUME StartValues \subseteq UShort

\* Fault variant: the decrement left out.
DecrementNone(t) == t

\* --time_to_live on an unsigned short: 0 wraps to 2^Width - 1.
Decrement(t) == (t + 2^Width - 1) % 2^Width

VARIABLES
  calls,     \* the upcall stack: [who, ttl, fwd]; fwd is what was passed on, or -1
  client,    \* client_: "none" until start () sets it
  down       \* shutdown () was called

vars == <<calls, client, down>>

Frame(who, t) == [who |-> who, ttl |-> t, fwd |-> -1, done |-> FALSE]

Init ==
  /\ calls = <<>>
  /\ client = "none"
  /\ down = FALSE

\* start (): client_ = client::_duplicate (c); this->ping (time_to_live).
Start ==
  /\ calls = <<>> /\ client = "none" /\ ~down
  /\ \E t \in StartValues : calls' = <<Frame("server", t)>>
  /\ client' = "c"
  /\ UNCHANGED down

\* Fault variant: while instead of if, so the client is called again with
\* the same value each time it returns.
PingWhile ==
  LET top == calls[Len(calls)]
      t == Decrement(top.ttl)
  IN /\ calls # <<>> /\ top.who = "server" /\ ~top.done
     /\ calls' = IF t > 0
                 THEN [calls EXCEPT ![Len(calls)].fwd = t] \o <<Frame("client", t)>>
                 ELSE [calls EXCEPT ![Len(calls)].done = TRUE]
     /\ UNCHANGED <<client, down>>

\* ping (): decrement, and call the client back only if the result is
\* positive; otherwise return.
Ping ==
  LET top == calls[Len(calls)]
      t == Decrement(top.ttl)
  IN /\ calls # <<>> /\ top.who = "server" /\ ~top.done
     /\ calls' = IF t > 0
                 THEN [calls EXCEPT ![Len(calls)] = [top EXCEPT !.fwd = t, !.done = TRUE]]
                      \o <<Frame("client", t)>>
                 ELSE [calls EXCEPT ![Len(calls)].done = TRUE]
     /\ UNCHANGED <<client, down>>

\* The client's ping: return, or ping the server with a smaller positive value.
ClientPing ==
  LET top == calls[Len(calls)] IN
  /\ calls # <<>> /\ top.who = "client" /\ ~top.done
  /\ \/ calls' = [calls EXCEPT ![Len(calls)].done = TRUE]
     \/ \E t \in 1 .. top.ttl - 1 :
          calls' = [calls EXCEPT ![Len(calls)] = [top EXCEPT !.fwd = t, !.done = TRUE]]
                   \o <<Frame("server", t)>>
  /\ UNCHANGED <<client, down>>

\* A finished call returns to its caller.
Return ==
  /\ calls # <<>> /\ calls[Len(calls)].done
  /\ calls' = SubSeq(calls, 1, Len(calls) - 1)
  /\ UNCHANGED <<client, down>>

\* shutdown (): orb_->shutdown (false), once no upcall is running.
Shutdown ==
  /\ calls = <<>> /\ client # "none" /\ ~down
  /\ down' = TRUE
  /\ UNCHANGED <<calls, client>>

Next == Start \/ Ping \/ ClientPing \/ Return \/ Shutdown

\* The ORB dispatches each upcall on the thread that made the nested call.
Spec == Init /\ [][Next]_vars /\ WF_vars(Ping \/ ClientPing \/ Return)

\* Each ping the server passes on carries a smaller time_to_live than the
\* one it received: ping () counts down and never restarts the count.
ServerCountsDown ==
  \A i \in DOMAIN calls :
    calls[i].who = "server" /\ calls[i].fwd # -1 => calls[i].fwd < calls[i].ttl

\* The upcalls nested on the thread never outnumber the time_to_live that
\* start () was given: each ping the server passes on, and each one the
\* client sends back, is smaller than the one before it and still positive,
\* so the thread's stack stays bounded by the start value.  It takes
\* several pings of both sides to break.
NestingBounded ==
  calls # <<>> => Len(calls) <= calls[1].ttl

\* Every chain of nested upcalls started by start () unwinds: start ()
\* eventually returns.
StartReturns == [](calls # <<>> => <>(calls = <<>>))

====
