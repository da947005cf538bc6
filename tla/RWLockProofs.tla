---------------------------- MODULE RWLockProofs ----------------------------
(***************************************************************************)
(* For every set of readers and every finite set of writers: the counter   *)
(* of announced writers is exact, and no reader overtakes a writer.        *)
(***************************************************************************)
EXTENDS RWLock, FiniteSetTheorems, TLAPS

(***************************************************************************)
(* NoOvertaking is not inductive.  A reader passes the gate because it     *)
(* loads 0; that no writer it must wait for is left then follows from the  *)
(* counter (CountExact) and from ahead holding announced writers only.     *)
(***************************************************************************)
AheadAnnounced == \A r \in Readers : ahead[r] \subseteq Announced

IInv == TypeOK /\ CountExact /\ NoOvertaking /\ AheadAnnounced

LEMMA CountedFinite == IsFiniteSet(Counted) /\ Cardinality(Counted) \in Nat
  <1>1. Counted \subseteq Writers
    BY DEF Counted
  <1>2. QED
    BY <1>1, RWLockAssumption, FS_Subset, FS_CardinalityType

(* A writer that starts to be counted raises the count by one. *)
LEMMA CountedGrows ==
  ASSUME NEW w \in Writers, w \notin Counted, Counted' = Counted \cup {w}
  PROVE  Cardinality(Counted') = Cardinality(Counted) + 1
  BY CountedFinite, FS_AddElement

(* A writer that stops being counted lowers it by one. *)
LEMMA CountedShrinks ==
  ASSUME NEW w \in Writers, w \in Counted, Counted' = Counted \ {w}
  PROVE  /\ Cardinality(Counted') = Cardinality(Counted) - 1
         /\ Cardinality(Counted) > 0
  <1>1. Cardinality(Counted') = Cardinality(Counted) - 1
    BY CountedFinite, FS_RemoveElement
  <1>2. Cardinality(Counted) # 0
    BY CountedFinite, FS_EmptySet
  <1>3. QED
    BY <1>1, <1>2, CountedFinite

(* When the counter is 0 nobody is announced. *)
LEMMA ZeroMeansNobody ==
  ASSUME TypeOK, CountExact, ~ (waiting > 0)
  PROVE  Announced = {}
  <1>1. Cardinality(Counted) = 0
    BY CountedFinite DEF TypeOK, CountExact
  <1>2. Counted = {}
    BY <1>1, CountedFinite, FS_EmptySet
  <1>3. QED
    BY <1>2 DEF Counted, Announced

-----------------------------------------------------------------------------
LEMMA InitIInv == Init => IInv
  <1> SUFFICES ASSUME Init
               PROVE  IInv
    OBVIOUS
  <1>1. TypeOK
    BY DEF Init, TypeOK
  <1>2. CountExact
    <2>1. Counted = {}
      BY DEF Init, Counted, Threads
    <2>2. QED
      BY <2>1, FS_EmptySet DEF Init, CountExact
  <1>3. NoOvertaking /\ AheadAnnounced
    BY DEF Init, NoOvertaking, AheadAnnounced, Threads
  <1>4. QED
    BY <1>1, <1>2, <1>3 DEF IInv

(* A reader's step leaves the set of counted writers alone. *)
LEMMA ReaderPreserves ==
  ASSUME IInv, NEW r \in Readers,
         LockRead(r) \/ TryLockRead(r) \/ ReaderStep(r)
  PROVE  IInv'
  <1> USE RWLockAssumption
  <1>1. /\ pc' = [pc EXCEPT ![r] = pc'[r]]
        /\ waiting' = waiting /\ failed' = failed
        /\ TypeOK'
    <2>1. CASE LockRead(r)
      BY <2>1 DEF IInv, TypeOK, LockRead, Goto, Announced, Threads
    <2>2. CASE TryLockRead(r)
      BY <2>2 DEF IInv, TypeOK, TryLockRead, Goto, Announced, Threads
    <2>3. CASE LoadWaiting(r)
      BY <2>3 DEF IInv, TypeOK, LoadWaiting, Goto, Threads
    <2>4. CASE WaitEvent(r)
      BY <2>4 DEF IInv, TypeOK, WaitEvent, Goto, Threads
    <2>5. CASE AcquireShared(r)
      BY <2>5 DEF IInv, TypeOK, AcquireShared, Goto, Threads
    <2>6. CASE TryAcquireShared(r)
      BY <2>6 DEF IInv, TypeOK, TryAcquireShared, Goto, Threads
    <2>7. CASE UnlockRead(r)
      BY <2>7 DEF IInv, TypeOK, UnlockRead, Goto, Threads
    <2>8. QED
      BY <2>1, <2>2, <2>3, <2>4, <2>5, <2>6, <2>7 DEF ReaderStep
  <1>2. Counted' = Counted /\ Announced' = Announced
    BY <1>1 DEF Counted, Announced, IInv, TypeOK, Threads
  <1>3. CountExact'
    BY <1>1, <1>2 DEF IInv, CountExact
  <1>4. NoOvertaking' /\ AheadAnnounced'
    <2>1. CASE LockRead(r)
      BY <2>1, <1>2 DEF IInv, TypeOK, LockRead, Goto, NoOvertaking, AheadAnnounced, Threads
    <2>2. CASE TryLockRead(r)
      <3>1. CASE waiting > 0
        BY <2>2, <3>1, <1>2 DEF IInv, TypeOK, TryLockRead, Goto, NoOvertaking,
                                AheadAnnounced, Threads
      <3>2. CASE ~ (waiting > 0)
        <4>1. Announced = {}
          BY <3>2, ZeroMeansNobody DEF IInv
        <4>2. QED
          BY <2>2, <3>2, <4>1, <1>2 DEF IInv, TypeOK, TryLockRead, Goto, NoOvertaking,
                                        AheadAnnounced, Threads
      <3>3. QED
        BY <3>1, <3>2
    <2>3. CASE LoadWaiting(r)
      <3>1. CASE waiting > 0
        BY <2>3, <3>1, <1>2 DEF IInv, TypeOK, LoadWaiting, Goto, NoOvertaking,
                                AheadAnnounced, Threads
      <3>2. CASE ~ (waiting > 0)
        <4>1. Announced = {}
          BY <3>2, ZeroMeansNobody DEF IInv
        <4>2. QED
          BY <2>3, <3>2, <4>1, <1>2 DEF IInv, TypeOK, LoadWaiting, Goto, NoOvertaking,
                                        AheadAnnounced, Threads
      <3>3. QED
        BY <3>1, <3>2
    <2>4. CASE WaitEvent(r)
      BY <2>4, <1>2 DEF IInv, TypeOK, WaitEvent, Goto, NoOvertaking, AheadAnnounced, Threads
    <2>5. CASE AcquireShared(r)
      BY <2>5, <1>2 DEF IInv, TypeOK, AcquireShared, Goto, NoOvertaking, AheadAnnounced,
                        Threads
    <2>6. CASE TryAcquireShared(r)
      BY <2>6, <1>2 DEF IInv, TypeOK, TryAcquireShared, Goto, NoOvertaking, AheadAnnounced,
                        Threads
    <2>7. CASE UnlockRead(r)
      BY <2>7, <1>2 DEF IInv, TypeOK, UnlockRead, Goto, NoOvertaking, AheadAnnounced, Threads
    <2>8. QED
      BY <2>1, <2>2, <2>3, <2>4, <2>5, <2>6, <2>7 DEF ReaderStep
  <1>5. QED
    BY <1>1, <1>3, <1>4 DEF IInv

(* A writer's step disturbs no reader's program counter. *)
LEMMA WriterPreserves ==
  ASSUME IInv, NEW w \in Writers,
         AnnounceWriter(w) \/ TryLockWrite(w) \/ WriterStep(w)
  PROVE  IInv'
  <1> USE RWLockAssumption
  <1>1. ASSUME \A r \in Readers : pc'[r] = pc[r],
               \A r \in Readers : ahead'[r] \subseteq ahead[r]
        PROVE  NoOvertaking'
    BY <1>1 DEF IInv, NoOvertaking
  <1>2. CASE AnnounceWriter(w)
    <2>1. w \notin Counted /\ Counted' = Counted \cup {w}
      BY <1>2 DEF AnnounceWriter, Goto, Counted, IInv, TypeOK, Threads
    <2>2. CountExact'
      <3>1. Cardinality(Counted') = Cardinality(Counted) + 1
        BY <2>1, CountedGrows
      <3>2. waiting' = waiting + 1 /\ failed' = failed
        BY <1>2 DEF AnnounceWriter
      <3>3. QED
        BY <3>1, <3>2, CountedFinite DEF IInv, CountExact, TypeOK
    <2>3. TypeOK' /\ NoOvertaking' /\ AheadAnnounced'
      BY <1>1, <1>2 DEF AnnounceWriter, Goto, IInv, TypeOK, AheadAnnounced, Announced, Threads
    <2>4. QED
      BY <2>2, <2>3 DEF IInv
  <1>3. CASE TryLockWrite(w)
    <2>1. w \notin Counted /\ Counted' = Counted \cup {w}
      BY <1>3 DEF TryLockWrite, Goto, Counted, IInv, TypeOK, Threads
    <2>2. CountExact'
      <3>1. Cardinality(Counted') = Cardinality(Counted) + 1
        BY <2>1, CountedGrows
      <3>2. waiting' = waiting + 1 /\ failed' = failed
        BY <1>3 DEF TryLockWrite
      <3>3. QED
        BY <3>1, <3>2, CountedFinite DEF IInv, CountExact, TypeOK
    <2>3. TypeOK' /\ NoOvertaking' /\ AheadAnnounced'
      BY <1>1, <1>3 DEF TryLockWrite, Goto, IInv, TypeOK, AheadAnnounced, Announced, Threads
    <2>4. QED
      BY <2>2, <2>3 DEF IInv
  <1>4. CASE AcquireExclusive(w)
    <2>1. Counted' = Counted
      BY <1>4 DEF AcquireExclusive, Goto, Counted, IInv, TypeOK, Threads
    <2>2. TypeOK' /\ CountExact' /\ NoOvertaking' /\ AheadAnnounced'
      BY <1>1, <1>4, <2>1 DEF AcquireExclusive, Goto, IInv, TypeOK, CountExact,
                              AheadAnnounced, Announced, Threads
    <2>3. QED
      BY <2>2 DEF IInv
  <1>5. CASE TryAcquireExclusive(w) /\ CanExclude
    <2>1. Counted' = Counted
      BY <1>5 DEF TryAcquireExclusive, Goto, Counted, IInv, TypeOK, Threads
    <2>2. TypeOK' /\ CountExact' /\ NoOvertaking' /\ AheadAnnounced'
      BY <1>1, <1>5, <2>1 DEF TryAcquireExclusive, Goto, IInv, TypeOK, CountExact,
                              AheadAnnounced, Announced, Threads
    <2>3. QED
      BY <2>2 DEF IInv
  <1>6. CASE TryAcquireExclusive(w) /\ ~ CanExclude
    <2>1. w \in Counted /\ Counted' = Counted \ {w}
      BY <1>6 DEF TryAcquireExclusive, Goto, Counted, IInv, TypeOK, Threads
    <2>2. CountExact'
      <3>1. Cardinality(Counted') = Cardinality(Counted) - 1
        BY <2>1, CountedShrinks
      <3>2. waiting' = waiting /\ failed' = failed + 1
        BY <1>6 DEF TryAcquireExclusive
      <3>3. QED
        BY <3>1, <3>2, CountedFinite DEF IInv, CountExact, TypeOK
    <2>3. TypeOK' /\ NoOvertaking' /\ AheadAnnounced'
      BY <1>1, <1>6 DEF TryAcquireExclusive, Goto, IInv, TypeOK, AheadAnnounced, Announced,
                        Threads
    <2>4. QED
      BY <2>2, <2>3 DEF IInv
  <1>7. CASE ReleaseExclusive(w)
    <2>1. Counted' = Counted
      BY <1>7 DEF ReleaseExclusive, Goto, Counted, IInv, TypeOK, Threads
    <2>2. TypeOK' /\ CountExact' /\ NoOvertaking' /\ AheadAnnounced'
      BY <1>1, <1>7, <2>1 DEF ReleaseExclusive, Goto, IInv, TypeOK, CountExact,
                              AheadAnnounced, Announced, Threads
    <2>3. QED
      BY <2>2 DEF IInv
  <1>8. CASE DecrementWaiting(w)
    <2>1. w \in Counted /\ Counted' = Counted \ {w}
      BY <1>8 DEF DecrementWaiting, Goto, Counted, IInv, TypeOK, Threads
    <2>2. waiting' \in Nat /\ CountExact'
      <3>1. Cardinality(Counted') = Cardinality(Counted) - 1 /\ Cardinality(Counted) > 0
        BY <2>1, CountedShrinks
      <3>2. QED
        BY <1>8, <3>1, CountedFinite DEF DecrementWaiting, IInv, CountExact, TypeOK
    <2>3. TypeOK'
      BY <1>8, <2>2 DEF DecrementWaiting, Goto, IInv, TypeOK, Threads
    <2>4. NoOvertaking' /\ AheadAnnounced'
      BY <1>1, <1>8 DEF DecrementWaiting, Goto, IInv, TypeOK, AheadAnnounced, Announced,
                        Threads
    <2>5. QED
      BY <2>2, <2>3, <2>4 DEF IInv
  <1>9. CASE SignalEvent(w)
    <2>1. Counted' = Counted
      BY <1>9 DEF SignalEvent, Goto, Counted, IInv, TypeOK, Threads
    <2>2. TypeOK' /\ CountExact' /\ NoOvertaking' /\ AheadAnnounced'
      BY <1>1, <1>9, <2>1 DEF SignalEvent, Goto, IInv, TypeOK, CountExact,
                              AheadAnnounced, Announced, Threads
    <2>3. QED
      BY <2>2 DEF IInv
  <1>10. QED
    BY <1>2, <1>3, <1>4, <1>5, <1>6, <1>7, <1>8, <1>9 DEF WriterStep

LEMMA Inductive == Spec => []IInv
  <1>1. Init => IInv
    BY InitIInv
  <1>2. IInv /\ [Next]_vars => IInv'
    <2> SUFFICES ASSUME IInv, [Next]_vars
                 PROVE  IInv'
      OBVIOUS
    <2>1. CASE UNCHANGED vars
      BY <2>1 DEF vars, IInv, TypeOK, CountExact, Counted, NoOvertaking, AheadAnnounced,
                  Announced
    <2>2. CASE Next
      BY <2>2, ReaderPreserves, WriterPreserves DEF Next
    <2>3. QED
      BY <2>1, <2>2
  <1>3. QED
    BY <1>1, <1>2, PTL DEF Spec

(***************************************************************************)
(* No reader gets the lock before a writer that had announced itself when  *)
(* the reader asked, with any number of threads (rwlock.win32.c).          *)
(***************************************************************************)
THEOREM Priority == Spec => []NoOvertaking
  BY Inductive, PTL DEF IInv

(***************************************************************************)
(* writers_waiting is the number of counted writers plus the failed tries; *)
(* in particular it never becomes negative, as unlock_write asserts.       *)
(***************************************************************************)
THEOREM Counter == Spec => [](TypeOK /\ CountExact)
  BY Inductive, PTL DEF IInv
=============================================================================
