------------------------- MODULE SynchQueuedMessage -------------------------
(***************************************************************************)
(* TAO_Synch_Queued_Message (src/TAO/tao/Synch_Queued_Message.cpp) and    *)
(* the collaborators that drive it, for ONE application message that was   *)
(* marshalled into a caller's output CDR stream.                           *)
(*                                                                         *)
(*  - A heap of ACE_Message_Blocks: each block has its bytes (data), its   *)
(*    read pointer (rd) and its continuation (cont).  Blocks are allocated *)
(*    and released; a released block that is still read is a use after     *)
(*    free, a block released twice is a double free.                       *)
(*  - Three queued-message objects: AheadMsg, a heap message an earlier   *)
(*    invocation left in the queue, owning its own chain; StackMsg, the    *)
(*    stack object the sending thread builds around the stream's chain     *)
(*    without owning it; and CloneMsg, the heap object clone() may create  *)
(*    from it.                                                             *)
(*  - The leader thread, which exports the unsent bytes of the queue in   *)
(*    order (fill_iov, each message continuing the iovec count), writes a *)
(*    prefix of them to the wire, and reports the count back message by  *)
(*    message (cleanup_queue calling bytes_transferred, which takes what  *)
(*    it consumed off the count), removing and destroying each finished   *)
(*    message.                                                             *)
(*  - The sending thread, which after its first flush attempt either       *)
(*    detaches the message from the stream (copy_if_necessary) and waits   *)
(*    for the completion signal, or hands a clone to the queue and leaves. *)
(*  - Later invocations on the same transport, which reset the stream:     *)
(*    the head block is rewound and refilled, its continuation released.   *)
(*  - The connection closing, which cancels and destroys queued messages. *)
(*                                                                         *)
(* The transport, the CDR stream, ACE_Message_Block::release and the       *)
(* leader/follower event are not part of the repository; they are          *)
(* modelled from spec.md sections 2, 4.2 and 5.                            *)
(***************************************************************************)
EXTENDS Integers, Sequences, SequencesExt, FiniteSets

CONSTANTS
  Spans,          \* lengths of the stream's blocks, head first
  IovMax,         \* iovcnt_max given to fill_iov
  MaxBlk,         \* number of block ids the heap may hand out
  FailingAllocs,  \* allocations that may fail: "copy","clone_mb","consolidate","clone_qm"
  AheadSpans,     \* lengths of the blocks of the message queued ahead (<<>>: none)
  StackMsg,       \* the sending thread's stack TAO_Synch_Queued_Message
  CloneMsg,       \* the heap TAO_Synch_Queued_Message made by clone()
  AheadMsg        \* the heap message queued before StackMsg

ASSUME /\ Spans \in Seq(Nat) /\ Len(Spans) >= 1
       /\ AheadSpans \in Seq(Nat \ {0})
       /\ IovMax \in Nat \ {0}
       /\ MaxBlk >= 2 * Len(Spans) + 1 + Len(AheadSpans)
       /\ FailingAllocs \subseteq {"copy", "clone_mb", "consolidate", "clone_qm"}

Nil == 0                      \* the null block pointer
Blk == 1 .. MaxBlk
Start == 1                    \* the CDR stream's start_ block
Msgs == {AheadMsg, StackMsg, CloneMsg}
HeapMsgs == {AheadMsg, CloneMsg}   \* destroy () frees these objects
Foreign == 0                  \* a byte of a later invocation's message

\* The application message: the stream's blocks hold bytes 1..N in order.
Offset(i) == IF i = 1 THEN 0 ELSE FoldLeft(+, 0, SubSeq(Spans, 1, i - 1))
InitData(i) == [j \in 1 .. Spans[i] |-> Offset(i) + j]
Orig == FlattenSeq([i \in 1 .. Len(Spans) |-> InitData(i)])

\* The message ahead: blocks Len(Spans) + 1 .. holding bytes N + 1 .. in order.
AheadBlk(j) == Len(Spans) + j
AheadOffset(j) == Len(Orig) + (IF j = 1 THEN 0 ELSE FoldLeft(+, 0, SubSeq(AheadSpans, 1, j - 1)))
AheadData(j) == [k \in 1 .. AheadSpans[j] |-> AheadOffset(j) + k]
AheadBytes == FlattenSeq([j \in 1 .. Len(AheadSpans) |-> AheadData(j)])

\* Every byte the connection should carry, in queue order.
AllBytes == AheadBytes \o Orig

\* No cleanup_queue loop is running.
Idle == -1

\* Leader/follower event states (TAO_LF_Event).
LFStates == {"IDLE", "ACTIVE", "SUCCESS", "CLOSED"}
Final == {"SUCCESS", "CLOSED"}

VARIABLES
  data, rd, cont,      \* the message blocks: bytes, read offset, continuation
  alive,               \* blocks currently allocated
  used,                \* blocks ever allocated (ids are not reused)
  relCount,            \* releases of each block since its allocation
  contents, current,   \* contents_ and current_block_ of each message
  own,                 \* own_contents_
  lf,                  \* the message's leader/follower event state
  live,                \* message objects that exist
  queued,              \* messages in the transport's outgoing queue
  wire,                \* bytes written to the connection
  pending,             \* byte_count cleanup_queue has still to hand out,
                       \* or Idle outside a cleanup_queue loop
  closed,              \* the connection is closing
  pc,                  \* the sending thread's position
  outcome              \* what the sending thread was told

blkVars == <<data, rd, cont, alive, used, relCount>>
msgVars == <<contents, current, own, lf, live, queued>>
vars == <<blkVars, msgVars, wire, pending, closed, pc, outcome>>

\* The transport's queue, head first: the message ahead was queued before
\* the stack message, and a clone takes the stack message's place.
Queue == SelectSeq(<<AheadMsg, StackMsg, CloneMsg>>, LAMBDA m : m \in queued)

-----------------------------------------------------------------------------
(* Walking a block chain through the cont pointers.                        *)

RECURSIVE ChainFrom(_, _)
ChainFrom(b, c) == IF b = Nil THEN <<>> ELSE <<b>> \o ChainFrom(c[b], c)
Chain(b) == ChainFrom(b, cont)

BlockLen(b, r) == Len(data[b]) - r[b]                     \* length ()
Remaining(b, r) == SubSeq(data[b], r[b] + 1, Len(data[b]))

\* total_length () of the chain starting at b
TotalLength(b) == FoldLeft(+, 0, [i \in DOMAIN Chain(b) |-> BlockLen(Chain(b)[i], rd)])

\* The unsent bytes from block b on, in order.
Unsent(b) == FlattenSeq([i \in DOMAIN Chain(b) |-> Remaining(Chain(b)[i], rd)])

\* ACE_Message_Block::release of a chain, modelled from spec.md 4.2.
Release(b) ==
  LET gone == ToSet(Chain(b)) IN
  /\ alive' = alive \ gone
  /\ relCount' = [x \in Blk |-> IF x \in gone THEN relCount[x] + 1 ELSE relCount[x]]

\* The first n never allocated block ids.
Fresh(n) == [i \in 1 .. n |-> CHOOSE x \in Blk \ used :
                                 Cardinality({y \in Blk \ used : y < x}) = i - 1]

\* TAO_LF_Event::state_changed_i, modelled from spec.md 5: final states
\* absorb every later change.
LFNext(s, new) == IF s \in Final THEN s ELSE new

-----------------------------------------------------------------------------
(* TAO_Synch_Queued_Message                                                *)

\* Fault variant: own_contents_ left false.
ConstructNoOwn(mb, isHeap) == [contents |-> mb, current |-> mb, own |-> FALSE]

\* The constructor: contents_ and current_block_ at the given chain,
\* own_contents_ (is_heap_allocated).
Construct(mb, isHeap) == [contents |-> mb, current |-> mb, own |-> isHeap]

\* message_length ()
MessageLength(m) == IF current[m] = Nil THEN 0 ELSE TotalLength(current[m])

\* all_data_sent ()
AllDataSent(m) == current[m] = Nil

\* fill_iov (iovcnt_max, iovcnt, iov): the non-empty blocks from
\* current_block_ on, while iovcnt < iovcnt_max, each taking one iovec.
RECURSIVE IovBlocks(_, _)
IovBlocks(b, n) ==
  IF b = Nil \/ n = 0 THEN <<>>
  ELSE IF BlockLen(b, rd) > 0 THEN <<b>> \o IovBlocks(cont[b], n - 1)
  ELSE IovBlocks(cont[b], n)
FillIov(m, iovcnt) == IovBlocks(current[m], IovMax - iovcnt)
IovBytes(bs) == FlattenSeq([i \in DOMAIN bs |-> Remaining(bs[i], rd)])

\* The inner loop of bytes_transferred: skip blocks with nothing to send.
RECURSIVE SkipEmpty(_, _)
SkipEmpty(b, r) == IF b # Nil /\ BlockLen(b, r) = 0 THEN SkipEmpty(cont[b], r) ELSE b

\* Fault variants of the outer loop: a consumed block advanced by the whole
\* byte_count; a write that ends exactly at a block's end staying on that
\* block.
RECURSIVE ConsumeOverrun(_, _, _)
ConsumeOverrun(b, n, r) ==
  IF b = Nil \/ n = 0 THEN <<b, n, r>>
  ELSE LET l == BlockLen(b, r) IN
       IF n < l THEN <<b, 0, [r EXCEPT ![b] = @ + n]>>
       ELSE LET r2 == [r EXCEPT ![b] = @ + n] IN
            ConsumeOverrun(SkipEmpty(cont[b], r2), n - l, r2)
RECURSIVE ConsumeStayAtEnd(_, _, _)
ConsumeStayAtEnd(b, n, r) ==
  IF b = Nil \/ n = 0 THEN <<b, n, r>>
  ELSE LET l == BlockLen(b, r) IN
       IF n <= l THEN <<b, 0, [r EXCEPT ![b] = @ + n]>>
       ELSE LET r2 == [r EXCEPT ![b] = @ + l] IN
            ConsumeStayAtEnd(SkipEmpty(cont[b], r2), n - l, r2)

\* The outer loop of bytes_transferred: consume n bytes from block b on;
\* the result is the new current_block_, the byte_count left and the new
\* read offsets.
RECURSIVE Consume(_, _, _)
Consume(b, n, r) ==
  IF b = Nil \/ n = 0 THEN <<b, n, r>>
  ELSE LET l == BlockLen(b, r) IN
       IF n < l THEN <<b, 0, [r EXCEPT ![b] = @ + n]>>
       ELSE LET r2 == [r EXCEPT ![b] = @ + l] IN
            Consume(SkipEmpty(cont[b], r2), n - l, r2)

\* Fault variants: SUCCESS signalled once byte_count is used up; byte_count
\* taken by value, so the caller's count is not reduced.
BytesTransferredCountDone(m, k) ==
  LET res == Consume(current[m], k, rd)
      act == LFNext(lf[m], "ACTIVE")
  IN [current |-> res[1], rd |-> res[3], left |-> res[2],
      lf |-> IF res[2] = 0 THEN LFNext(act, "SUCCESS") ELSE act]
BytesTransferredByValue(m, k) ==
  LET res == Consume(current[m], k, rd)
      act == LFNext(lf[m], "ACTIVE")
  IN [current |-> res[1], rd |-> res[3], left |-> k,
      lf |-> IF res[1] = Nil THEN LFNext(act, "SUCCESS") ELSE act]

\* bytes_transferred (byte_count): ACTIVE, consume the bytes, SUCCESS once
\* current_block_ is null; left is what remains of the caller's byte_count.
BytesTransferred(m, k) ==
  LET res == Consume(current[m], k, rd)
      act == LFNext(lf[m], "ACTIVE")
  IN [current |-> res[1], rd |-> res[3], left |-> res[2],
      lf |-> IF res[1] = Nil THEN LFNext(act, "SUCCESS") ELSE act]

\* Fault variants of destroy: contents_ not reset after the release; owned
\* contents never released.
DestroyRestKeepContents(m) ==
  /\ IF own[m] THEN Release(contents[m]) ELSE UNCHANGED <<alive, relCount>>
  /\ UNCHANGED contents
  /\ live' = IF m \in HeapMsgs THEN live \ {m} ELSE live
DestroyRestNoRelease(m) ==
  /\ UNCHANGED <<alive, relCount>>
  /\ contents' = [contents EXCEPT ![m] = IF own[m] THEN Nil ELSE @]
  /\ live' = IF m \in HeapMsgs THEN live \ {m} ELSE live

\* destroy () apart from current_block_: release owned contents, free a
\* heap object.
DestroyRest(m) ==
  /\ IF own[m]
       THEN Release(contents[m])
       ELSE UNCHANGED <<alive, relCount>>
  /\ contents' = [contents EXCEPT ![m] = IF own[m] THEN Nil ELSE @]
  /\ live' = IF m \in HeapMsgs THEN live \ {m} ELSE live

Destroy(m) ==
  /\ DestroyRest(m)
  /\ current' = [current EXCEPT ![m] = IF own[m] THEN Nil ELSE @]

\* ~TAO_Synch_Queued_Message ()
Destructor(m) ==
  IF own[m] /\ contents[m] # Nil
    THEN Release(contents[m])
    ELSE UNCHANGED <<alive, relCount>>

\* ACE_Message_Block::clone of the chain from current_block_ (spec.md 4.1):
\* a deep copy into fresh blocks that keeps the read offsets, owned by m.
CopyChain(m) ==
  LET src == Chain(current[m])
      new == Fresh(Len(src))
      copyOf(x) == CHOOSE i \in DOMAIN new : new[i] = x
      isNew(x) == x \in ToSet(new)
  IN /\ own' = [own EXCEPT ![m] = TRUE]
     /\ contents' = [contents EXCEPT ![m] = new[1]]
     /\ current' = [current EXCEPT ![m] = new[1]]
     /\ data' = [x \in Blk |-> IF isNew(x) THEN data[src[copyOf(x)]] ELSE data[x]]
     /\ rd' = [x \in Blk |-> IF isNew(x) THEN rd[src[copyOf(x)]] ELSE rd[x]]
     /\ cont' = [x \in Blk |-> IF ~isNew(x) THEN cont[x]
                               ELSE IF copyOf(x) < Len(new) THEN new[copyOf(x) + 1] ELSE Nil]
     /\ alive' = alive \cup ToSet(new)
     /\ used' = used \cup ToSet(new)
     /\ relCount' = [x \in Blk |-> IF isNew(x) THEN 0 ELSE relCount[x]]

\* Fault variants of copy_if_necessary: the scan compares only the chain's
\* first block; the scan starts at the chain's second block.
CopyIfNecessaryFirstOnly(m, chain) ==
  IF ~own[m] /\ current[m] = chain
  THEN CopyChain(m) ELSE UNCHANGED <<own, contents, current, blkVars>>
CopyIfNecessarySkipFirst(m, chain) ==
  IF ~own[m] /\ current[m] \in ToSet(Tail(Chain(chain)))
  THEN CopyChain(m) ELSE UNCHANGED <<own, contents, current, blkVars>>

\* copy_if_necessary (chain): if m does not own its blocks and
\* current_block_ is one of chain's blocks, own a clone of the rest.  The
\* result of clone () is not checked: a failed clone leaves both pointers
\* null.
CopyIfNecessary(m, chain) ==
  IF ~own[m] /\ current[m] \in ToSet(Chain(chain))
  THEN \/ CopyChain(m)
       \/ /\ "copy" \in FailingAllocs
          /\ own' = [own EXCEPT ![m] = TRUE]
          /\ contents' = [contents EXCEPT ![m] = Nil]
          /\ current' = [current EXCEPT ![m] = Nil]
          /\ UNCHANGED blkVars
  ELSE UNCHANGED <<own, contents, current, blkVars>>

\* Fault variant: only current_block_ itself copied into mb, not the rest
\* of its chain.
CloneFirstBlockOnly(m) ==
  LET mb == Fresh(1)[1] IN
  /\ data' = [data EXCEPT ![mb] = IF current[m] = Nil THEN <<>> ELSE Remaining(current[m], rd)]
  /\ rd' = [rd EXCEPT ![mb] = 0]
  /\ cont' = [cont EXCEPT ![mb] = Nil]
  /\ alive' = alive \cup {mb}
  /\ used' = used \cup {mb}
  /\ relCount' = [relCount EXCEPT ![mb] = 0]
  /\ contents' = [contents EXCEPT ![CloneMsg] = mb]
  /\ current' = [current EXCEPT ![CloneMsg] = mb]
  /\ own' = [own EXCEPT ![CloneMsg] = TRUE]
  /\ lf' = [lf EXCEPT ![CloneMsg] = "IDLE"]
  /\ live' = live \cup {CloneMsg}

\* clone (alloc): a new block mb, the unsent bytes consolidated into it,
\* then a new heap message that owns it; any failure releases mb and
\* yields null; CloneMsg \in live' tells the caller which.
Clone(m) ==
  LET mb == Fresh(1)[1] IN
  \/ /\ "clone_mb" \in FailingAllocs
     /\ UNCHANGED <<blkVars, contents, current, own, lf, live>>
  \/ /\ FailingAllocs \cap {"consolidate", "clone_qm"} # {}
     /\ used' = used \cup {mb}
     /\ relCount' = [relCount EXCEPT ![mb] = 1]
     /\ UNCHANGED <<data, rd, cont, alive, contents, current, own, lf, live>>
  \/ /\ data' = [data EXCEPT ![mb] = Unsent(current[m])]
     /\ rd' = [rd EXCEPT ![mb] = 0]
     /\ cont' = [cont EXCEPT ![mb] = Nil]
     /\ alive' = alive \cup {mb}
     /\ used' = used \cup {mb}
     /\ relCount' = [relCount EXCEPT ![mb] = 0]
     /\ contents' = [contents EXCEPT ![CloneMsg] = Construct(mb, TRUE).contents]
     /\ current' = [current EXCEPT ![CloneMsg] = Construct(mb, TRUE).current]
     /\ own' = [own EXCEPT ![CloneMsg] = Construct(mb, TRUE).own]
     /\ lf' = [lf EXCEPT ![CloneMsg] = "IDLE"]
     /\ live' = live \cup {CloneMsg}

-----------------------------------------------------------------------------
(* Actions                                                                 *)

Init ==
  /\ data = [b \in Blk |-> CASE b <= Len(Spans) -> InitData(b)
                             [] b - Len(Spans) \in DOMAIN AheadSpans -> AheadData(b - Len(Spans))
                             [] OTHER -> <<>>]
  /\ rd = [b \in Blk |-> 0]
  /\ cont = [b \in Blk |-> IF b < Len(Spans) \/ b - Len(Spans) \in 1 .. Len(AheadSpans) - 1
                           THEN b + 1 ELSE Nil]
  /\ alive = 1 .. Len(Spans) + Len(AheadSpans)
  /\ used = 1 .. Len(Spans) + Len(AheadSpans)
  /\ relCount = [b \in Blk |-> 0]
  /\ LET init == (StackMsg :> Construct(Start, FALSE))
                 @@ (AheadMsg :> IF AheadSpans = <<>> THEN Construct(Nil, FALSE)
                                 ELSE Construct(AheadBlk(1), TRUE))
                 @@ (CloneMsg :> Construct(Nil, FALSE))
     IN /\ contents = [m \in Msgs |-> init[m].contents]
        /\ current = [m \in Msgs |-> init[m].current]
        /\ own = [m \in Msgs |-> init[m].own]
  /\ lf = [m \in Msgs |-> "IDLE"]
  /\ live = {StackMsg} \cup (IF AheadSpans = <<>> THEN {} ELSE {AheadMsg})
  /\ queued = live
  /\ wire = <<>>
  /\ pending = Idle
  /\ closed = FALSE
  /\ pc = "sending"
  /\ outcome = "none"

\* drain_queue: each queued message, head first, fills the iovecs left
\* after those of the messages before it, until iovcnt_max are taken.
RECURSIVE QueueIov(_, _)
QueueIov(q, iovcnt) ==
  IF q = <<>> \/ iovcnt = IovMax THEN <<>>
  ELSE LET bs == FillIov(Head(q), iovcnt) IN bs \o QueueIov(Tail(q), iovcnt + Len(bs))

\* The leader writes k of the exported bytes, at least one when there are
\* any (a write that sends nothing changes nothing); cleanup_queue follows
\* with byte_count = k.
Write ==
  /\ pending = Idle /\ ~closed /\ queued # {}
  /\ LET n == Len(IovBytes(QueueIov(Queue, 0))) IN
     \E k \in IF n = 0 THEN {0} ELSE 1 .. n :
       /\ wire' = wire \o SubSeq(IovBytes(QueueIov(Queue, 0)), 1, k)
       /\ pending' = k
  /\ UNCHANGED <<blkVars, msgVars, closed, pc, outcome>>

\* cleanup_queue (byte_count), one message per step: the head message's
\* bytes_transferred takes its share off byte_count; a finished message is
\* removed and destroyed and the loop goes on with the rest; an unfinished
\* one ends it.
Cleanup ==
  /\ pending # Idle /\ Queue # <<>>
  /\ LET m == Head(Queue)
         bt == BytesTransferred(m, pending)
     IN /\ rd' = bt.rd
        /\ current' = [current EXCEPT ![m] = bt.current]
        /\ lf' = [lf EXCEPT ![m] = bt.lf]
        /\ IF bt.current = Nil
             THEN /\ queued' = queued \ {m}
                  /\ DestroyRest(m)
                  /\ pending' = IF bt.left > 0 THEN bt.left ELSE Idle
             ELSE /\ UNCHANGED <<queued, contents, alive, relCount, live>>
                  /\ pending' = Idle
  /\ UNCHANGED <<data, cont, used, own, wire, closed, pc, outcome>>

\* The connection closes: the queued messages, head first, are signalled
\* CLOSED, removed and destroyed.
CloseConnection ==
  /\ pending = Idle /\ Queue # <<>>
  /\ LET m == Head(Queue) IN
     /\ lf' = [lf EXCEPT ![m] = LFNext(@, "CLOSED")]
     /\ queued' = queued \ {m}
     /\ Destroy(m)
  /\ closed' = TRUE
  /\ UNCHANGED <<data, rd, cont, used, own, wire, pending, pc, outcome>>

\* The first flush finished the message: return.
CallerDone ==
  /\ pc = "sending" /\ pending = Idle
  /\ StackMsg \notin queued
  /\ pc' = "leaving"
  /\ outcome' = IF lf[StackMsg] = "SUCCESS" THEN "sent" ELSE "closed"
  /\ UNCHANGED <<blkVars, msgVars, wire, pending, closed>>

\* Synchronous request: detach from the stream, then wait for the signal.
CallerCopy ==
  /\ pc = "sending" /\ pending = Idle
  /\ StackMsg \in queued
  /\ CopyIfNecessary(StackMsg, Start)
  /\ pc' = "waiting"
  /\ UNCHANGED <<lf, live, queued, wire, pending, closed, outcome>>

\* Fault variant: the null result of clone () taken as queued.
CallerCloneAlwaysQueued ==
  /\ pc = "sending" /\ pending = Idle
  /\ StackMsg \in queued
  /\ ~AllDataSent(StackMsg)
  /\ Clone(StackMsg)
  /\ queued' = (queued \ {StackMsg}) \cup (IF CloneMsg \in live' THEN {CloneMsg} ELSE {})
  /\ pc' = "leaving"
  /\ outcome' = "queued"
  /\ UNCHANGED <<wire, pending, closed>>

\* Reply: queue a clone of the unsent rest in place of the stack message.
CallerClone ==
  /\ pc = "sending" /\ pending = Idle
  /\ StackMsg \in queued
  /\ ~AllDataSent(StackMsg)
  /\ Clone(StackMsg)
  /\ queued' = (queued \ {StackMsg}) \cup (IF CloneMsg \in live' THEN {CloneMsg} ELSE {})
  /\ pc' = "leaving"
  /\ outcome' = IF CloneMsg \in live' THEN "queued" ELSE "dropped"
  /\ UNCHANGED <<wire, pending, closed>>

\* The completion signal wakes the waiting thread.
CallerWake ==
  /\ pc = "waiting"
  /\ lf[StackMsg] \in Final
  /\ pc' = "leaving"
  /\ outcome' = IF lf[StackMsg] = "SUCCESS" THEN "sent" ELSE "closed"
  /\ UNCHANGED <<blkVars, msgVars, wire, pending, closed>>

\* Leaving the scope runs the stack message's destructor.
CallerExit ==
  /\ pc = "leaving"
  /\ Destructor(StackMsg)
  /\ live' = live \ {StackMsg}
  /\ pc' = "returned"
  /\ UNCHANGED <<data, rd, cont, used, contents, current, own, lf, queued, wire,
                 pending, closed, outcome>>

\* Another invocation resets the output stream (ACE_OutputCDR::reset):
\* the head block is rewound and refilled, its continuation released.
Reset ==
  /\ pc \in {"waiting", "leaving", "returned"}
  /\ data' = [data EXCEPT ![Start] = [i \in DOMAIN @ |-> Foreign]]
  /\ rd' = [rd EXCEPT ![Start] = 0]
  /\ cont' = [cont EXCEPT ![Start] = Nil]
  /\ IF cont[Start] # Nil THEN Release(cont[Start]) ELSE UNCHANGED <<alive, relCount>>
  /\ UNCHANGED <<used, msgVars, wire, pending, closed, pc, outcome>>

Caller == CallerDone \/ CallerCopy \/ CallerClone \/ CallerWake \/ CallerExit

Next ==
  \/ Write
  \/ Cleanup
  \/ CloseConnection
  \/ Caller
  \/ Reset

\* The leader keeps writing while the peer reads and finishes the
\* cleanup_queue loop it started, a close once begun runs to the end of
\* the queue, and the sending thread is scheduled; neither later
\* invocations nor a close are assumed.
Fairness ==
  /\ WF_vars(Write) /\ WF_vars(Cleanup) /\ WF_vars(closed /\ CloseConnection)
  /\ WF_vars(Caller)

Spec == Init /\ [][Next]_vars /\ Fairness

-----------------------------------------------------------------------------
(* Properties                                                              *)

TypeOK ==
  /\ data \in [Blk -> Seq(0 .. Len(AllBytes))]
  /\ rd \in [Blk -> Nat] /\ \A b \in Blk : rd[b] <= Len(data[b])
  /\ cont \in [Blk -> Blk \cup {Nil}]
  /\ alive \subseteq used /\ used \subseteq Blk
  /\ relCount \in [Blk -> Nat]
  /\ contents \in [Msgs -> Blk \cup {Nil}]
  /\ current \in [Msgs -> Blk \cup {Nil}]
  /\ own \in [Msgs -> BOOLEAN]
  /\ lf \in [Msgs -> LFStates]
  /\ live \subseteq Msgs /\ queued \subseteq live
  /\ wire \in Seq(0 .. Len(AllBytes))
  /\ pending \in 0 .. Len(AllBytes) \cup {Idle} /\ closed \in BOOLEAN
  /\ pc \in {"sending", "waiting", "leaving", "returned"}
  /\ outcome \in {"none", "sent", "closed", "queued", "dropped"}

\* Wire contract (spec.md 6): whatever the leader wrote, through writes
\* spanning both queued messages, byte counts carried from one message to
\* the next by cleanup_queue, the copy in copy_if_necessary, the hand-over
\* to a clone and resets of the stream, is a prefix of the message queued
\* ahead followed by the application's bytes.
WireIsPrefix == IsPrefix(wire, AllBytes)

\* A message the completion signal reports as SUCCESS, and a sending thread
\* told its message went out, had every byte of it, and of every message
\* queued before it, written.
SuccessMeansDelivered ==
  /\ \A m \in {StackMsg, CloneMsg} : lf[m] = "SUCCESS" => wire = AllBytes
  /\ lf[AheadMsg] = "SUCCESS" => IsPrefix(AheadBytes, wire)
  /\ outcome = "sent" => wire = AllBytes

\* No queued message can reach a released block from current_block_: the
\* borrowed chain is detached before the stream's reset frees it.
NoUseAfterFree == \A m \in queued : ToSet(Chain(current[m])) \subseteq alive

\* destroy () and the destructor together release each block at most once.
ReleasedAtMostOnce == \A b \in Blk : relCount[b] <= 1

\* Every allocated block belongs to the stream or to a live message that
\* owns its contents: nothing leaks.
NoLeak ==
  alive \subseteq ToSet(Chain(Start))
                  \cup UNION {ToSet(Chain(contents[m])) : m \in {x \in live : own[x]}}

\* A queued message's message_length () never grows (the cursor only moves
\* forward; spec.md 3).
RemainingNeverGrows ==
  [][\A m \in queued \cap queued' : MessageLength(m)' <= MessageLength(m)]_vars

\* The bytes of the application's message on the wire: those written after
\* the message queued ahead of it.
OurSent == IF Len(wire) > Len(AheadBytes) THEN Len(wire) - Len(AheadBytes) ELSE 0

\* clone () reads current_block_ (Synch_Queued_Message.cpp:130) without a
\* null check, so the reply path must call it only on a message with bytes
\* still unsent; and the clone it queues holds exactly the N - K bytes not
\* yet on the wire (spec.md 7), whatever partial writes came before.
CloneOfUnsentRest ==
  [][outcome = "none" /\ outcome' \in {"queued", "dropped"} =>
       /\ current[StackMsg] # Nil
       /\ CloneMsg \in live' => MessageLength(CloneMsg)' = Len(Orig) - OurSent]_vars

\* The sending thread is never blocked forever.
CallerReturns == pc = "sending" ~> pc = "returned"

\* Every private copy is eventually released: only the stream's blocks stay.
CopiesReleased == <>[](queued = {} /\ alive = ToSet(Chain(Start)))

(***************************************************************************)
(* Refinement: the message, its copies and the sender together implement  *)
(* QueuedMessage.  The bytes sent are its bytes on the wire; the message  *)
(* is complete once all of them are written, closed once the signal of    *)
(* the message carrying it is CLOSED, and dropped when the sender dropped *)
(* it.  The message queued ahead is not part of the abstraction.          *)
(***************************************************************************)
AbstractStatus ==
  CASE outcome = "dropped" -> "dropped"
    [] OurSent = Len(Orig) -> "complete"
    [] \E m \in {StackMsg, CloneMsg} : lf[m] = "CLOSED" -> "closed"
    [] OTHER -> "queued"

QM == INSTANCE QueuedMessage
        WITH Size <- Len(Orig), sent <- OurSent, status <- AbstractStatus,
             told <- outcome

\* The leader's writes, bytes_transferred's signal, the sender's copy or
\* clone and its wake-up only ever take the steps QueuedMessage allows:
\* the wire count grows without passing the message, SUCCESS comes with
\* the write of its last byte, the sender is told once and truthfully, and
\* every message is eventually written and its sender told.
ImplementsQueuedMessage == QM!Spec

====
