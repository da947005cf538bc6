------------------------------- MODULE RWLock -------------------------------
(***************************************************************************)
(* The reader-writer lock of the Windows build                             *)
(* (src/src/thread/rwlock.win32.c).  A Windows SRW lock does the excluding *)
(* and is not fair; a counter of announced writers in front of it is meant *)
(* to let writers through first.  The SRW lock and the event are Windows   *)
(* objects, modelled by what their calls do.                               *)
(***************************************************************************)
EXTENDS Integers, FiniteSets

CONSTANTS
  Readers,     \* threads that take the lock for reading
  Writers,     \* threads that take it for writing
  NoThread,
  MaxFailed    \* bound on unsuccessful ms_rwlock_try_lock_write calls

ASSUME RWLockAssumption ==
  /\ Readers \cap Writers = {}
  /\ NoThread \notin Readers \cup Writers
  /\ IsFiniteSet(Writers)
  /\ MaxFailed \in Nat

VARIABLES
  waiting,     \* writers_waiting
  signalled,   \* the state of the event
  shared,      \* the readers inside the SRW lock
  exclusive,   \* the writer inside the SRW lock
  pc,
  failed,      \* history: unsuccessful try_lock_write calls
  ahead        \* history: the writers a reader found announced and still must wait for

vars == <<waiting, signalled, shared, exclusive, pc, failed, ahead>>

Threads == Readers \cup Writers

(* Writers between the increment and the decrement of writers_waiting. *)
Announced == {w \in Writers : pc[w] \in {"acquire", "writing", "decrement"}}

(* CreateEvent(NULL, TRUE, TRUE, NULL): manual reset, initially signalled. *)
Init ==
  /\ waiting = 0
  /\ signalled = TRUE
  /\ shared = {}
  /\ exclusive = NoThread
  /\ pc = [t \in Threads |-> "idle"]
  /\ failed = 0
  /\ ahead = [r \in Readers |-> {}]

Goto(t, from, to) ==
  /\ pc[t] = from
  /\ pc' = [pc EXCEPT ![t] = to]

CanShare == exclusive = NoThread
CanExclude == exclusive = NoThread /\ shared = {}

-----------------------------------------------------------------------------
(* ms_rwlock_lock_read *)

LockRead(r) ==
  /\ Goto(r, "idle", "load")
  /\ ahead' = [ahead EXCEPT ![r] = Announced]
  /\ UNCHANGED <<waiting, signalled, shared, exclusive, failed>>

(* Mutant: readers do not look at the counter. *)
RudeLoadWaiting(r) ==
  /\ Goto(r, "load", "share")
  /\ UNCHANGED <<waiting, signalled, shared, exclusive, failed, ahead>>

LoadWaiting(r) ==
  /\ Goto(r, "load", IF waiting > 0 THEN "wait" ELSE "share")
  /\ UNCHANGED <<waiting, signalled, shared, exclusive, failed, ahead>>

(* WaitForSingleObject(lock->event, INFINITE), then round the loop. *)
WaitEvent(r) ==
  /\ signalled
  /\ Goto(r, "wait", "load")
  /\ UNCHANGED <<waiting, signalled, shared, exclusive, failed, ahead>>

AcquireShared(r) ==
  /\ CanShare
  /\ Goto(r, "share", "reading")
  /\ shared' = shared \cup {r}
  /\ UNCHANGED <<waiting, signalled, exclusive, failed, ahead>>

(* ms_rwlock_try_lock_read: one load, one attempt. *)
TryLockRead(r) ==
  /\ Goto(r, "idle", IF waiting > 0 THEN "idle" ELSE "tryshare")
  /\ ahead' = [ahead EXCEPT ![r] = Announced]
  /\ UNCHANGED <<waiting, signalled, shared, exclusive, failed>>

TryAcquireShared(r) ==
  /\ Goto(r, "tryshare", IF CanShare THEN "reading" ELSE "idle")
  /\ shared' = IF CanShare THEN shared \cup {r} ELSE shared
  /\ UNCHANGED <<waiting, signalled, exclusive, failed, ahead>>

UnlockRead(r) ==
  /\ Goto(r, "reading", "idle")
  /\ shared' = shared \ {r}
  /\ UNCHANGED <<waiting, signalled, exclusive, failed, ahead>>

-----------------------------------------------------------------------------
(* ms_rwlock_lock_write *)

AnnounceWriter(w) ==
  /\ Goto(w, "idle", "acquire")
  /\ waiting' = waiting + 1
  /\ UNCHANGED <<signalled, shared, exclusive, failed, ahead>>

(* ResetEvent gets the address of the handle instead of the handle: the    *)
(* call fails and the event stays as it is.                                *)
AcquireExclusive(w) ==
  /\ CanExclude
  /\ Goto(w, "acquire", "writing")
  /\ exclusive' = w
  /\ UNCHANGED <<waiting, signalled, shared, failed, ahead>>

(* ms_rwlock_try_lock_write: increment, then one attempt.  The increment   *)
(* is not taken back when the attempt fails.                               *)
TryLockWrite(w) ==
  /\ Goto(w, "idle", "tryacquire")
  /\ waiting' = waiting + 1
  /\ failed < MaxFailed
  /\ UNCHANGED <<signalled, shared, exclusive, failed, ahead>>

TryAcquireExclusive(w) ==
  /\ Goto(w, "tryacquire", IF CanExclude THEN "writing" ELSE "idle")
  /\ exclusive' = IF CanExclude THEN w ELSE exclusive
  /\ failed' = IF CanExclude THEN failed ELSE failed + 1
  /\ UNCHANGED <<waiting, signalled, shared, ahead>>

(* ms_rwlock_unlock_write: the SRW lock first, then the counter. *)
ReleaseExclusive(w) ==
  /\ Goto(w, "writing", "decrement")
  /\ exclusive' = NoThread
  /\ UNCHANGED <<waiting, signalled, shared, failed, ahead>>

(* Mutant: a writer that is done stays counted. *)
StuckDecrementWaiting(w) ==
  /\ Goto(w, "decrement", "idle")
  /\ ahead' = [r \in Readers |-> ahead[r] \ {w}]
  /\ UNCHANGED <<waiting, signalled, shared, exclusive, failed>>

DecrementWaiting(w) ==
  /\ Goto(w, "decrement", IF waiting = 1 THEN "signal" ELSE "idle")
  /\ waiting' = waiting - 1
  /\ ahead' = [r \in Readers |-> ahead[r] \ {w}]
  /\ UNCHANGED <<signalled, shared, exclusive, failed>>

SignalEvent(w) ==
  /\ Goto(w, "signal", "idle")
  /\ signalled' = TRUE
  /\ UNCHANGED <<waiting, shared, exclusive, failed, ahead>>

ReaderStep(r) ==
  \/ LoadWaiting(r)
  \/ WaitEvent(r)
  \/ AcquireShared(r)
  \/ TryAcquireShared(r)
  \/ UnlockRead(r)

WriterStep(w) ==
  \/ AcquireExclusive(w)
  \/ TryAcquireExclusive(w)
  \/ ReleaseExclusive(w)
  \/ DecrementWaiting(w)
  \/ SignalEvent(w)

Next ==
  \/ \E r \in Readers : LockRead(r) \/ TryLockRead(r) \/ ReaderStep(r)
  \/ \E w \in Writers : AnnounceWriter(w) \/ TryLockWrite(w) \/ WriterStep(w)

(***************************************************************************)
(* Threads inside a call keep running and release what they hold.  Only    *)
(* weak fairness: of the SRW lock nothing more is known than that it does  *)
(* not refuse a thread for ever while nobody holds it.                     *)
(***************************************************************************)
Fairness ==
  /\ \A r \in Readers : WF_vars(ReaderStep(r))
  /\ \A w \in Writers : WF_vars(WriterStep(w))

Spec == Init /\ [][Next]_vars /\ Fairness

-----------------------------------------------------------------------------
TypeOK ==
  /\ waiting \in Nat
  /\ signalled \in BOOLEAN
  /\ shared \subseteq Readers
  /\ exclusive \in Writers \cup {NoThread}
  /\ pc \in [Threads -> {"idle", "load", "wait", "share", "tryshare", "reading",
                         "acquire", "tryacquire", "writing", "decrement", "signal"}]
  /\ failed \in Nat
  /\ ahead \in [Readers -> SUBSET Writers]

(***************************************************************************)
(* A reader never gets the lock before a writer that had announced itself  *)
(* when the reader asked for it (ms_rwlock_lock_read, ms_rwlock_try_lock_  *)
(* read): the priority the comment on ms_rwlock promises.                  *)
(***************************************************************************)
NoOvertaking ==
  \A r \in Readers : pc[r] \in {"share", "tryshare", "reading"} => ahead[r] = {}

(***************************************************************************)
(* writers_waiting counts the announced writers and, besides, every failed *)
(* ms_rwlock_try_lock_write for good; so the assertion in unlock_write     *)
(* that it is not negative holds.                                          *)
(***************************************************************************)
Counted == {w \in Writers : pc[w] \in {"acquire", "tryacquire", "writing", "decrement"}}

CountExact == waiting = Cardinality(Counted) + failed

(***************************************************************************)
(* As soon as a writer waits some writer gets the lock, however many       *)
(* readers keep coming: the counter shuts them out (ms_rwlock_lock_write). *)
(***************************************************************************)
WritersProgress ==
  (\E w \in Writers : pc[w] = "acquire") ~> (\E w \in Writers : pc[w] = "writing")

(***************************************************************************)
(* Once no writer comes any more, and no try_lock_write has failed, every  *)
(* reader in ms_rwlock_lock_read gets the lock.                            *)
(***************************************************************************)
ReadersResume ==
  <>[](Counted = {} /\ failed = 0) =>
    \A r \in Readers : (pc[r] = "load") ~> (pc[r] = "reading")
=============================================================================
