------------------------------ MODULE ACEGuard ------------------------------
(***************************************************************************)
(* The scoped lock guards of ACE (src/ACE/ace/Guard_T.h): ACE_Guard,       *)
(* ACE_Write_Guard, ACE_Read_Guard and the thread-specific ACE_TSS_Guard    *)
(* family, over a readers/writer lock shared by a few threads.            *)
(*                                                                         *)
(* The repository holds the header only; the model follows the contract   *)
(* each declaration documents.  owner_ is 0 when the guard holds the lock  *)
(* and -1 when it does not, the value the lock's acquire () returns; the  *)
(* helper constructor of line 114 starts it at 0.                          *)
(*                                                                         *)
(* Each thread runs scopes the way the header's warning asks: it builds a *)
(* guard, enters its critical section only if locked () says so, may call *)
(* release, acquire, tryacquire or disown up to MaxOps times, and leaves   *)
(* the scope, which runs the destructor.  A thread may also take the lock  *)
(* itself and hand it to a guard built with become_owner, and a thread in  *)
(* the scope of a TSS guard may leave through thr_exit.                    *)
(***************************************************************************)
EXTENDS Integers, FiniteSets

CONSTANTS
  Threads,   \* the threads sharing the lock
  NoThread,  \* the lock's writer slot when no thread writes
  HasTSS,    \* ACE_HAS_THREADS and thread-specific storage (line 215)
  MaxOps     \* explicit guard calls in one scope

ASSUME NoThread \notin Threads /\ HasTSS \in BOOLEAN /\ MaxOps \in Nat

Kinds == {"guard", "write", "read"}   \* ACE_Guard, ACE_Write_Guard, ACE_Read_Guard

VARIABLES
  writer,    \* the thread holding the lock for writing, or NoThread
  readers,   \* the threads holding it for reading
  g,         \* each thread's guard: kind, owner_, and whether it is a TSS guard
  pc,        \* "idle", "holding", "body", "critical" or "exited"
  raw,       \* the thread holds the lock and must release it itself
  ops,       \* explicit guard calls made in the current scope
  ub         \* undefined behaviour seen: a release of a lock the caller does not hold

vars == <<writer, readers, g, pc, raw, ops, ub>>

NoGuard == [kind |-> "none", owner |-> -1, tss |-> FALSE]

\* A guard of kind, thread-specific or not, before it acquires.
NewGuard(kind, tss) == [kind |-> kind, owner |-> -1, tss |-> tss]

-----------------------------------------------------------------------------
(* The lock (the ACE_LOCK parameter: acquire, tryacquire, release, and     *)
(* their _read and _write forms for the read and write guards).           *)

\* Fault variant: only the write guard takes the lock for writing.
ModeWriteGuardOnly(kind) == IF kind = "write" THEN "write" ELSE "read"

\* ACE_Guard on a readers/writer lock takes it for writing, as
\* ACE_RW_Thread_Mutex::acquire does.
Mode(kind) == IF kind = "read" THEN "read" ELSE "write"

Available(mode) ==
  /\ writer = NoThread
  /\ mode = "read" \/ readers = {}

Holds(t) == writer = t \/ t \in readers

\* Take the lock in mode for t; the caller has checked Available.
Take(t, mode) ==
  /\ writer' = IF mode = "write" THEN t ELSE writer
  /\ readers' = IF mode = "read" THEN readers \cup {t} ELSE readers

\* release (): whichever hold t has; releasing a lock t does not hold is
\* undefined for the thread mutex, and recorded.
Give(t) ==
  /\ writer' = IF writer = t THEN NoThread ELSE writer
  /\ readers' = readers \ {t}
  /\ ub' = IF Holds(t) THEN ub ELSE ub \cup {t}

-----------------------------------------------------------------------------
(* The guard's members, as operators on the guard record.                  *)

\* locked (): true if the guard acquired the lock.
Locked(gd) == gd.owner # -1

\* Fault variant: release () without its owner_ check.
ReleaseUnchecked(t) ==
  /\ g' = [g EXCEPT ![t].owner = -1]
  /\ Give(t)

\* release (): releases the lock only if this guard holds it.
Release(t) ==
  IF g[t].owner = -1
    THEN UNCHANGED <<g, writer, readers, ub>>
    ELSE /\ g' = [g EXCEPT ![t].owner = -1]
         /\ Give(t)

\* tryacquire () (tryacquire_write, tryacquire_read) on guard gd: owner_
\* is the lock's answer, 0 or -1, without blocking.
TryAcquire(t, gd) ==
  /\ IF Available(Mode(gd.kind))
       THEN Take(t, Mode(gd.kind))
       ELSE UNCHANGED <<writer, readers>>
  /\ g' = [g EXCEPT ![t] = [gd EXCEPT !.owner = IF Available(Mode(gd.kind)) THEN 0 ELSE -1]]

\* acquire () (acquire_write, acquire_read): blocks until the lock is
\* free for the guard's mode.
Acquire(t, gd) ==
  /\ Available(Mode(gd.kind))
  /\ Take(t, Mode(gd.kind))
  /\ g' = [g EXCEPT ![t] = [gd EXCEPT !.owner = 0]]

\* Fault variant: owner_ set to become_owner itself.
AdoptRaw(t, becomeOwner) == [kind |-> "guard", owner |-> becomeOwner, tss |-> FALSE]

\* ACE_Guard (l, block, become_owner): no acquisition; the guard releases
\* the lock on destruction only if it became the owner.
Adopt(t, becomeOwner) ==
  [kind |-> "guard", owner |-> IF becomeOwner = 0 THEN -1 ELSE 0, tss |-> FALSE]

\* Fault variant: a destructor that forgets to release.
DestructNoRelease(t) == UNCHANGED <<g, writer, readers, ub>>

\* ~ACE_Guard (): the implicit release.
Destruct(t) == Release(t)

\* ACE_TSS_Guard::cleanup, run when the thread exits.  Where the platform
\* lacks thread-specific storage, ACE_TSS_Guard is ACE_Guard (line 217) and
\* nothing runs at thr_exit.
ExitCleanup(t) ==
  IF g[t].tss /\ HasTSS THEN Release(t) ELSE UNCHANGED <<g, writer, readers, ub>>

-----------------------------------------------------------------------------
(* The threads' scopes.                                                    *)

Init ==
  /\ writer = NoThread
  /\ readers = {}
  /\ g = [t \in Threads |-> NoGuard]
  /\ pc = [t \in Threads |-> "idle"]
  /\ raw = [t \in Threads |-> FALSE]
  /\ ops = [t \in Threads |-> 0]
  /\ ub = {}

\* A scope opens with a guard of some kind, plain or thread-specific,
\* built blocking (ACE_Guard (l), ACE_Guard (l, true)) or not
\* (ACE_Guard (l, false)); the TSS guards take the same block flag.
Construct(t) ==
  /\ pc[t] = "idle" /\ ~raw[t]
  /\ \E kind \in Kinds, tss \in BOOLEAN, block \in BOOLEAN :
       LET gd == NewGuard(kind, tss) IN
       /\ IF block THEN Acquire(t, gd) ELSE TryAcquire(t, gd)
  /\ pc' = [pc EXCEPT ![t] = "body"]
  /\ ops' = [ops EXCEPT ![t] = 0]
  /\ UNCHANGED <<raw, ub>>

\* The thread takes the lock itself, to hand it to a guard.
TakeLock(t) ==
  /\ pc[t] = "idle" /\ ~raw[t]
  /\ Available("write")
  /\ Take(t, "write")
  /\ raw' = [raw EXCEPT ![t] = TRUE]
  /\ pc' = [pc EXCEPT ![t] = "holding"]
  /\ UNCHANGED <<g, ops, ub>>

\* ACE_Guard (l, block, become_owner) over the lock the thread holds.
AdoptLock(t) ==
  /\ pc[t] = "holding"
  /\ \E b \in {0, 1} :
       /\ g' = [g EXCEPT ![t] = Adopt(t, b)]
       /\ raw' = [raw EXCEPT ![t] = (g'[t].owner = -1)]
  /\ pc' = [pc EXCEPT ![t] = "body"]
  /\ ops' = [ops EXCEPT ![t] = 0]
  /\ UNCHANGED <<writer, readers, ub>>

\* The critical section, entered only after locked () said yes.
EnterCritical(t) ==
  /\ pc[t] = "body" /\ ops[t] < MaxOps
  /\ Locked(g[t])
  /\ pc' = [pc EXCEPT ![t] = "critical"]
  /\ ops' = [ops EXCEPT ![t] = @ + 1]
  /\ UNCHANGED <<writer, readers, g, raw, ub>>

LeaveCritical(t) ==
  /\ pc[t] = "critical"
  /\ pc' = [pc EXCEPT ![t] = "body"]
  /\ UNCHANGED <<writer, readers, g, raw, ops, ub>>

\* An explicit call on the guard in the scope's body.  acquire and
\* tryacquire are made only when the guard and the thread do not hold the
\* lock already: the lock is not recursive.
Call(t) ==
  /\ pc[t] = "body" /\ ops[t] < MaxOps
  /\ \/ Release(t) /\ UNCHANGED raw
     \/ ~Locked(g[t]) /\ ~raw[t] /\ Acquire(t, g[t]) /\ UNCHANGED <<raw, ub>>
     \/ ~Locked(g[t]) /\ ~raw[t] /\ TryAcquire(t, g[t]) /\ UNCHANGED <<raw, ub>>
     \* disown (): the lock stays held, and releasing it is now the thread's job.
     \* ACE_TSS_Guard has no disown ().
     \/ /\ ~g[t].tss
        /\ g' = [g EXCEPT ![t].owner = -1]
        /\ raw' = [raw EXCEPT ![t] = @ \/ Locked(g[t])]
        /\ UNCHANGED <<writer, readers, ub>>
  /\ ops' = [ops EXCEPT ![t] = @ + 1]
  /\ UNCHANGED pc

\* The thread releases the lock it holds itself (after disown, or when the
\* guard did not become the owner).
ReleaseLock(t) ==
  /\ raw[t] /\ pc[t] \in {"body", "idle"}
  /\ Give(t)
  /\ raw' = [raw EXCEPT ![t] = FALSE]
  /\ UNCHANGED <<g, pc, ops>>

\* The scope ends: the guard's destructor runs.
LeaveScope(t) ==
  /\ pc[t] = "body"
  /\ Destruct(t)
  /\ pc' = [pc EXCEPT ![t] = "idle"]
  /\ UNCHANGED <<raw, ops>>

\* thr_exit inside the scope of a TSS guard: no destructor runs, only the
\* thread-specific cleanup.
ThreadExit(t) ==
  /\ pc[t] \in {"body", "critical"} /\ g[t].tss /\ ~raw[t]
  /\ ExitCleanup(t)
  /\ pc' = [pc EXCEPT ![t] = "exited"]
  /\ UNCHANGED <<raw, ops>>

Next ==
  \E t \in Threads :
    \/ Construct(t) \/ TakeLock(t) \/ AdoptLock(t)
    \/ EnterCritical(t) \/ LeaveCritical(t) \/ Call(t)
    \/ ReleaseLock(t) \/ LeaveScope(t) \/ ThreadExit(t)

\* A runnable thread is scheduled, and a scope's code is finite: a thread
\* holding the lock eventually leaves its critical section, its scope and
\* its own hold.  Blocking acquisitions and thr_exit are not assumed fair.
Spec ==
  Init /\ [][Next]_vars
       /\ \A t \in Threads :
            WF_vars(LeaveCritical(t) \/ LeaveScope(t) \/ ReleaseLock(t) \/ AdoptLock(t))

-----------------------------------------------------------------------------
(* Properties                                                              *)

TypeOK ==
  /\ writer \in Threads \cup {NoThread}
  /\ readers \subseteq Threads
  /\ g \in [Threads -> [kind : Kinds \cup {"none"}, owner : {0, -1}, tss : BOOLEAN]]
  /\ pc \in [Threads -> {"idle", "holding", "body", "critical", "exited"}]
  /\ raw \in [Threads -> BOOLEAN]
  /\ ops \in [Threads -> 0 .. MaxOps]
  /\ ub \subseteq Threads

\* No thread ever releases the lock without holding it: release () after an
\* explicit release, the destructor after release or disown, and the
\* thread's own release after handing the lock to a guard never meet.
NoReleaseOfUnheldLock == ub = {}

\* The critical sections the guards protect exclude each other: a thread
\* that passed locked () for a write or plain guard is alone, and read
\* guards share only with read guards.
CriticalExclusive ==
  \A t, u \in Threads :
    t # u /\ pc[t] = "critical" /\ pc[u] = "critical"
      => g[t].kind = "read" /\ g[u].kind = "read"

\* A thread that holds the lock eventually gives it up, through the
\* destructor, its own release, or the TSS cleanup at thr_exit.
HolderReleases == \A t \in Threads : Holds(t) ~> ~Holds(t)

====
