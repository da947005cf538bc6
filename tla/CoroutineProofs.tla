-------------------------- MODULE CoroutineProofs ---------------------------
(***************************************************************************)
(* The coroutine scheduler keeps the promise of Rounds, with any number of *)
(* coroutines and any size of the array.                                   *)
(***************************************************************************)
EXTENDS Coroutine, TLAPS

(***************************************************************************)
(* The inductive invariant.  That a round runs nobody twice needs every    *)
(* coroutine to be in one slot only (Distinct), which a step that moves    *)
(* the last one down keeps because the slot it leaves falls out of use;    *)
(* that nobody is resumed after its end needs Fresh, and that everybody    *)
(* starts with MS_CO_STATUS_BEGIN needs Unstarted.                         *)
(***************************************************************************)
Named == \A j \in Used : coroutines[j].co \in Coroutines
Distinct == \A j, k \in Used : coroutines[j].co = coroutines[k].co => j = k
Fresh == \A j \in Used : coroutines[j].co \notin done
Unstarted == \A c \in Coroutines : c \notin Live \cup done => last[c] = "begin"

IInv == TypeOK /\ Named /\ Distinct /\ Fresh /\ Unstarted /\ StatusKept

LEMMA UsedIsSlots ==
  ASSUME TypeOK
  PROVE  Used \subseteq Slots /\ (pc = "handler" => i \in Used)
  BY CoroutineAssumption DEF TypeOK, Used, Slots

LEMMA InitIInv == Init => IInv
  <1> SUFFICES ASSUME Init
               PROVE  IInv
    OBVIOUS
  <1>1. Used = {}
    BY DEF Init, Used
  <1>2. TypeOK
    <2>1. Empty \in [co : Coroutines \cup {NoCoroutine}, status : Statuses]
      BY DEF Empty, Statuses
    <2>2. count \in 0 .. MaxCoroutines /\ i \in -1 .. count - 1
      BY CoroutineAssumption DEF Init
    <2>3. QED
      BY <2>1, <2>2 DEF Init, TypeOK, Statuses
  <1>3. QED
    BY <1>1, <1>2 DEF IInv, Named, Distinct, Fresh, Unstarted, StatusKept, Init

-----------------------------------------------------------------------------
(* What each step that touches the array does to it.                       *)

LEMMA ScheduleStep ==
  ASSUME IInv, NEW c \in Coroutines, Schedule(c)
  PROVE  /\ IInv'
         /\ Live' = Live \cup {c}
         /\ Due' = Due
         /\ Running' = Running
  <1> USE CoroutineAssumption
  <1>1. TypeOK'
    BY DEF IInv, TypeOK, Schedule, New, Slots, Statuses
  <1>2. /\ count \in Nat /\ count' = count + 1 /\ count \in Slots
        /\ Used' = Used \cup {count} /\ count \notin Used
        /\ coroutines'[count] = New(c)
        /\ \A j \in Used : coroutines'[j] = coroutines[j]
    BY UsedIsSlots DEF IInv, TypeOK, Schedule, Used, Slots
  <1>3. \A j \in Used : coroutines[j].co # c
    BY DEF Schedule, Live
  <1>4. c \notin Live \cup done /\ done' = done /\ last' = last /\ i' = i /\ pc' = pc
    BY DEF Schedule
  <1>5. Live' = Live \cup {c}
    BY <1>2 DEF Live, New
  <1>6. Named' /\ Distinct' /\ Fresh'
    BY <1>2, <1>3, <1>4 DEF IInv, Named, Distinct, Fresh, New
  <1>7. Unstarted' /\ StatusKept'
    BY <1>2, <1>4, <1>5 DEF IInv, Unstarted, StatusKept, New
  <1>8. i < count /\ (pc = "handler" => i \in Used)
    BY UsedIsSlots DEF IInv, TypeOK
  <1>9. Due' = Due /\ Running' = Running
    <2> DEFINE Ahead == {k \in Used : \/ pc = "round" /\ k <= i
                                      \/ pc = "handler" /\ k < i}
    <2>1. Ahead' = Ahead
      BY <1>2, <1>4, <1>8 DEF IInv, TypeOK
    <2>2. Ahead \subseteq Used
      OBVIOUS
    <2>3. Due' = Due
      BY <1>2, <2>1, <2>2 DEF Due
    <2>4. QED
      BY <1>2, <1>4, <1>8, <2>3 DEF Running
  <1>10. QED
    BY <1>1, <1>5, <1>6, <1>7, <1>9 DEF IInv

LEMMA YieldStep ==
  ASSUME IInv, Yield
  PROVE  /\ IInv'
         /\ Live' = Live
         /\ Due' = Due
         /\ Running \in Coroutines /\ Running' = NoCoroutine
  <1> USE CoroutineAssumption
  <1>1. /\ i \in Used /\ i \in Slots /\ i \in Int /\ count \in Nat
        /\ Used' = Used /\ Used \subseteq Slots
    BY UsedIsSlots DEF IInv, TypeOK, Yield, Returned, Used
  <1>2. coroutines[i].co \in Coroutines
    BY <1>1 DEF IInv, Named
  <1>3. /\ \A j \in Used : coroutines'[j].co = coroutines[j].co
        /\ coroutines'[i].status = "paused"
        /\ \A j \in Used \ {i} : coroutines'[j] = coroutines[j]
    BY <1>1 DEF IInv, TypeOK, Yield, Returned
  <1>4. /\ pc = "handler" /\ pc' = "round" /\ i' = i - 1 /\ done' = done
        /\ last' = [last EXCEPT ![coroutines[i].co] = "paused"]
    BY DEF Yield
  <1>5. TypeOK'
    BY <1>1, <1>2, <1>4 DEF IInv, TypeOK, Yield, Returned, Statuses
  <1>6. Live' = Live
    BY <1>1, <1>3 DEF Live
  <1>7. Named' /\ Distinct' /\ Fresh'
    BY <1>1, <1>3, <1>4 DEF IInv, Named, Distinct, Fresh
  <1>8. StatusKept'
    BY <1>1, <1>2, <1>3, <1>4 DEF IInv, TypeOK, StatusKept, Distinct, Named
  <1>9. Unstarted'
    BY <1>1, <1>2, <1>4, <1>6 DEF IInv, TypeOK, Unstarted, Live
  <1>10. Due' = Due
    <2> DEFINE Ahead == {k \in Used : \/ pc = "round" /\ k <= i
                                      \/ pc = "handler" /\ k < i}
    <2>1. Ahead' = Ahead /\ Ahead \subseteq Used
      <3>1. Used \subseteq Int
        BY <1>1 DEF Used
      <3>2. Ahead = {k \in Used : k < i} /\ Ahead' = {k \in Used : k <= i - 1}
        BY <1>1, <1>4
      <3>3. \A k \in Used : k < i <=> k <= i - 1
        BY <1>1, <3>1
      <3>4. QED
        BY <3>2, <3>3
    <2>2. \A k \in Ahead : coroutines'[k].co = coroutines[k].co
      BY <1>3, <2>1
    <2>3. QED
      BY <2>1, <2>2 DEF Due
  <1>11. Running \in Coroutines /\ Running' = NoCoroutine
    BY <1>2, <1>4 DEF Running
  <1>12. QED
    BY <1>5, <1>6, <1>7, <1>8, <1>9, <1>10, <1>11 DEF IInv

(* The last coroutine takes the place of the one that terminated. *)
LEMMA ReturnStep ==
  ASSUME IInv, Return
  PROVE  /\ IInv'
         /\ Live' = Live \ {Running}
         /\ done' = done \cup {Running}
         /\ Due' = Due
         /\ Running \in Coroutines /\ Running' = NoCoroutine
  <1> USE CoroutineAssumption
  <1>1. /\ i \in Used /\ i \in Slots /\ i \in Int /\ count \in Nat \ {0}
        /\ count - 1 \in Used /\ count - 1 \in Slots
        /\ Used' = Used \ {count - 1} /\ Used \subseteq Slots
    <2>1. Used \subseteq Slots /\ i \in Used
      BY UsedIsSlots DEF IInv, Return
    <2>2. count \in Nat \ {0} /\ i \in Int /\ count' = count - 1
      BY <2>1 DEF IInv, TypeOK, Return, Remove, Returned, Used
    <2>3. count - 1 \in Used /\ Used' = Used \ {count - 1}
      BY <2>2 DEF Used
    <2>4. QED
      BY <2>1, <2>2, <2>3
  <1>2. coroutines[i].co \in Coroutines /\ coroutines[count - 1].co \in Coroutines
    BY <1>1 DEF IInv, Named
  <1>3. /\ i # count - 1 => coroutines'[i] = coroutines[count - 1]
        /\ \A j \in Used \ {i} : coroutines'[j] = coroutines[j]
    BY <1>1 DEF IInv, TypeOK, Return, Remove, Returned
  <1>4. /\ pc = "handler" /\ pc' = "round" /\ i' = i - 1 /\ count' = count - 1
        /\ done' = done \cup {coroutines[i].co}
        /\ last' = [last EXCEPT ![coroutines[i].co] = "completed"]
    BY DEF Return, Remove
  <1>5. Running = coroutines[i].co /\ Running' = NoCoroutine
    BY <1>4 DEF Running
  <1>6. TypeOK'
    BY <1>1, <1>2, <1>4 DEF IInv, TypeOK, Return, Remove, Returned, Statuses
  <1>7. \A j \in Used' : \E k \in Used \ {i} : coroutines'[j] = coroutines[k]
    BY <1>1, <1>3
  <1>8. \A k \in Used \ {i} : \E j \in Used' : coroutines'[j] = coroutines[k]
    BY <1>1, <1>3
  <1>9. Live' = Live \ {coroutines[i].co}
    <2>1. \A k \in Used : coroutines[k].co = coroutines[i].co => k = i
      BY <1>1 DEF IInv, Distinct
    <2>2. Live' = {coroutines[k].co : k \in Used \ {i}}
      BY <1>7, <1>8 DEF Live
    <2>3. QED
      BY <1>1, <2>1, <2>2 DEF Live
  <1>10. Named' /\ Fresh'
    <2>1. \A k \in Used \ {i} : /\ coroutines[k].co # coroutines[i].co
                                /\ coroutines[k].co \in Coroutines \ done
      BY <1>1 DEF IInv, Distinct, Named, Fresh
    <2>2. \A j \in Used' : coroutines'[j].co \in Coroutines \ done'
      <3> TAKE j \in Used'
      <3>1. PICK k \in Used \ {i} : coroutines'[j] = coroutines[k]
        BY <1>7
      <3>2. QED
        BY <1>4, <2>1, <3>1
    <2>3. QED
      BY <2>2 DEF Named, Fresh
  <1>11. Distinct'
    BY <1>1, <1>3 DEF IInv, Distinct
  <1>12. StatusKept'
    BY <1>1, <1>2, <1>4, <1>7 DEF IInv, TypeOK, StatusKept, Distinct, Named
  <1>13. Unstarted'
    BY <1>2, <1>4, <1>9 DEF IInv, TypeOK, Unstarted
  <1>14. Due' = Due
    BY <1>1, <1>3, <1>4 DEF Due, Used
  <1>15. QED
    BY <1>2, <1>4, <1>5, <1>6, <1>9, <1>10, <1>11, <1>12, <1>13, <1>14 DEF IInv

(* The steps that move the walk and leave the array alone. *)
LEMMA WalkStep ==
  ASSUME IInv, RunOnce \/ EnterLoop \/ SchedulerStep
  PROVE  IInv' /\ Live' = Live /\ UNCHANGED <<coroutines, count, last, done>>
  <1>1. UNCHANGED <<coroutines, count, last, done>>
    BY DEF RunOnce, EnterLoop, SchedulerStep, LoopRound, LeaveLoop, Execute, EndRound
  <1>2. Used' = Used /\ Live' = Live
    BY <1>1 DEF Used, Live
  <1>3. TypeOK'
    <2>1. CASE RunOnce \/ LoopRound
      BY <2>1 DEF IInv, TypeOK, RunOnce, LoopRound, BeginRound
    <2>2. CASE Execute
      BY <2>2 DEF IInv, TypeOK, Execute
    <2>3. CASE EnterLoop \/ LeaveLoop \/ EndRound
      BY <2>3 DEF IInv, TypeOK, EnterLoop, LeaveLoop, EndRound
    <2>4. QED
      BY <2>1, <2>2, <2>3 DEF SchedulerStep
  <1>4. QED
    BY <1>1, <1>2, <1>3 DEF IInv, Named, Distinct, Fresh, Unstarted, StatusKept

LEMMA Inductive == Spec => []IInv
  <1>1. IInv /\ [Next]_vars => IInv'
    <2> SUFFICES ASSUME IInv, [Next]_vars
                 PROVE  IInv'
      OBVIOUS
    <2>1. CASE Next
      BY <2>1, ScheduleStep, YieldStep, ReturnStep, WalkStep DEF Next
    <2>2. CASE UNCHANGED vars
      BY <2>2 DEF vars, IInv, TypeOK, Named, Distinct, Fresh, Unstarted, StatusKept, Used,
                  Live
    <2>3. QED
      BY <2>1, <2>2
  <1>2. QED
    BY InitIInv, <1>1, PTL DEF Spec

-----------------------------------------------------------------------------
(* Every step of the scheduler is a step of Rounds, or changes nothing     *)
(* there.                                                                  *)
LEMMA StepRefines ==
  ASSUME IInv, [Next]_vars
  PROVE  [R!Next]_<<Live, Due, Running, done>>
  <1> USE CoroutineAssumption
  <1>1. ASSUME NEW c \in Coroutines, Schedule(c)
        PROVE  R!Schedule(c)
    BY <1>1, ScheduleStep DEF Schedule, R!Schedule
  <1>2. CASE Yield
    <2>1. R!Pause
      BY <1>2, YieldStep DEF Yield, R!Pause
    <2>2. QED
      BY <2>1 DEF R!Next
  <1>3. CASE Return
    <2>1. R!Terminate
      BY <1>3, ReturnStep DEF R!Terminate
    <2>2. QED
      BY <2>1 DEF R!Next
  <1>4. CASE RunOnce \/ LoopRound
    <2>1. pc = "idle" /\ pc' = "round" /\ i' = count - 1
      BY <1>4 DEF RunOnce, LoopRound, BeginRound
    <2>2. Live' = Live /\ UNCHANGED <<coroutines, count, done>>
      BY <1>4, WalkStep DEF SchedulerStep
    <2>3. Due = {} /\ Running = NoCoroutine /\ Running' = NoCoroutine
      BY <2>1 DEF Due, Running
    <2>4. Due' = Live
      BY <2>1, <2>2 DEF Due, Live, Used, IInv, TypeOK
    <2>5. R!StartRound
      BY <2>2, <2>3, <2>4 DEF R!StartRound
    <2>6. QED
      BY <2>5 DEF R!Next
  <1>5. CASE Execute
    <2> DEFINE co == coroutines[i].co
    <2>1. pc = "round" /\ pc' = "handler" /\ i >= 0 /\ i' = i
      BY <1>5 DEF Execute
    <2>2. Live' = Live /\ UNCHANGED <<coroutines, count, done>>
      BY <1>5, WalkStep DEF SchedulerStep
    <2>3. i \in Used /\ co \in Coroutines
      BY <2>1 DEF IInv, TypeOK, Used, Named
    <2>4. Running = NoCoroutine /\ Running' = co /\ co \in Due
      BY <2>1, <2>2, <2>3 DEF Running, Due, IInv, TypeOK
    <2>5. Due' = Due \ {co}
      BY <2>1, <2>2, <2>3 DEF Due, Used, IInv, TypeOK, Distinct
    <2>6. R!Resume(co)
      BY <2>2, <2>4, <2>5 DEF R!Resume
    <2>7. QED
      BY <2>3, <2>6 DEF R!Next
  <1>6. CASE EnterLoop \/ LeaveLoop \/ EndRound
    <2>1. Live' = Live /\ UNCHANGED <<coroutines, count, done>>
      BY <1>6, WalkStep DEF SchedulerStep
    <2>2. CASE EndRound
      <3>1. Due = {} /\ Due' = {}
        BY <2>2 DEF EndRound, Due, Used, IInv, TypeOK
      <3>2. Running' = Running
        BY <2>2 DEF EndRound, Running
      <3>3. QED
        BY <2>1, <3>1, <3>2
    <2>3. CASE EnterLoop \/ LeaveLoop
      BY <2>1, <2>3 DEF EnterLoop, LeaveLoop, Due, Running, Used
    <2>4. QED
      BY <1>6, <2>2, <2>3
  <1>7. CASE UNCHANGED vars
    BY <1>7 DEF vars, Live, Due, Running, Used
  <1>8. QED
    BY <1>1, <1>2, <1>3, <1>4, <1>5, <1>6, <1>7 DEF Next, SchedulerStep, R!Next

(***************************************************************************)
(* In every round every coroutine scheduled at its beginning runs exactly  *)
(* once, one scheduled during the round waits, and none runs after it has  *)
(* terminated (ms_co_scheduler_run_once).                                  *)
(***************************************************************************)
THEOREM Implementation == Spec => RefinesRounds
  <1>1. Init => R!Init
    BY DEF Init, R!Init, Live, Due, Running, Used
  <1>2. QED
    BY <1>1, Inductive, StepRefines, PTL DEF Spec, RefinesRounds, R!Spec

(***************************************************************************)
(* A coroutine is resumed with the status its handler returned last,       *)
(* wherever in the array it was moved (ms_co_execute, remove_coroutine).   *)
(***************************************************************************)
THEOREM KeepsStatus == Spec => [](TypeOK /\ StatusKept)
  BY Inductive, PTL DEF IInv
=============================================================================
