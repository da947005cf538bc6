----------------------------- MODULE Coroutine ------------------------------
(***************************************************************************)
(* ms_co_scheduler (src/src/coroutine.c): an array whose first count slots *)
(* hold the scheduled coroutines.  A round walks it from the last slot to  *)
(* the first; a coroutine that terminates is replaced by the last one, and *)
(* a running handler may schedule new coroutines, which moves the end of   *)
(* the array under the walk.  Every element of Coroutines stands for one   *)
(* activation, scheduled once.                                             *)
(***************************************************************************)
EXTENDS Integers

CONSTANTS
  Coroutines,
  NoCoroutine,
  MaxCoroutines   \* MS_CO_SCHEDULER_MAX_COROUTINES

ASSUME CoroutineAssumption ==
  /\ NoCoroutine \notin Coroutines
  /\ MaxCoroutines \in Nat

VARIABLES
  coroutines,   \* the array
  count,
  i,            \* the index of the walk in ms_co_scheduler_run_once
  pc,           \* idle: outside run_once; round: at its loop test; handler
  looping,      \* inside ms_co_scheduler_loop
  last,         \* history: the status every handler returned last
  done          \* history: the terminated coroutines

vars == <<coroutines, count, i, pc, looping, last, done>>

Slots == 0 .. MaxCoroutines - 1
Statuses == {"begin", "paused", "completed"}
Empty == [co |-> NoCoroutine, status |-> "begin"]

(* The slots in use and who is in them. *)
Used == 0 .. count - 1
Live == {coroutines[j].co : j \in Used}

Init ==
  /\ coroutines = [j \in Slots |-> Empty]
  /\ count = 0
  /\ i = -1
  /\ pc = "idle"
  /\ looping = FALSE
  /\ last = [c \in Coroutines |-> "begin"]
  /\ done = {}

-----------------------------------------------------------------------------
(* Mutant: the slot keeps the status of its last occupant. *)
UnclearedNew(c) == [co |-> c, status |-> coroutines[count].status]

(* ms_co_construct *)
New(c) == [co |-> c, status |-> "begin"]

(***************************************************************************)
(* ms_co_schedule, by a handler or by the owner of the scheduler.  With    *)
(* every slot in use it returns 0 and changes nothing.                     *)
(***************************************************************************)
Schedule(c) ==
  /\ pc = "handler" \/ (pc = "idle" /\ ~ looping)
  /\ c \notin Live \cup done
  /\ count < MaxCoroutines
  /\ coroutines' = [coroutines EXCEPT ![count] = New(c)]
  /\ count' = count + 1
  /\ UNCHANGED <<i, pc, looping, last, done>>

(* Mutant: the walk begins one slot below the last coroutine. *)
ShortBeginRound ==
  /\ i' = count - 2
  /\ pc' = "round"

BeginRound ==
  /\ i' = count - 1
  /\ pc' = "round"

RunOnce ==
  /\ pc = "idle" /\ ~ looping
  /\ BeginRound
  /\ UNCHANGED <<coroutines, count, looping, last, done>>

(* ms_co_scheduler_loop *)
EnterLoop ==
  /\ pc = "idle" /\ ~ looping
  /\ looping' = TRUE
  /\ UNCHANGED <<coroutines, count, i, pc, last, done>>

LoopRound ==
  /\ pc = "idle" /\ looping
  /\ count > 0
  /\ BeginRound
  /\ UNCHANGED <<coroutines, count, looping, last, done>>

LeaveLoop ==
  /\ pc = "idle" /\ looping
  /\ ~ (count > 0)
  /\ looping' = FALSE
  /\ UNCHANGED <<coroutines, count, i, pc, last, done>>

(* ms_co_execute calls the handler of slot i ... *)
Execute ==
  /\ pc = "round"
  /\ i >= 0
  /\ pc' = "handler"
  /\ UNCHANGED <<coroutines, count, i, looping, last, done>>

(* The array with what the handler returned in slot i. *)
Returned(status) == [coroutines EXCEPT ![i].status = status]

(* ... which pauses ... *)
Yield ==
  /\ pc = "handler"
  /\ coroutines' = Returned("paused")
  /\ last' = [last EXCEPT ![coroutines[i].co] = "paused"]
  /\ i' = i - 1
  /\ pc' = "round"
  /\ UNCHANGED <<count, looping, done>>

(* Mutant: the terminated coroutine is cut off the end, not replaced. *)
TruncatingRemove(list) ==
  /\ coroutines' = list
  /\ count' = count - 1

(* Mutant: the terminated coroutine stays. *)
NoRemove(list) ==
  /\ coroutines' = list
  /\ UNCHANGED count

(* remove_coroutine *)
Remove(list) ==
  /\ coroutines' = [list EXCEPT ![i] = list[count - 1]]
  /\ count' = count - 1

(* ... or terminates. *)
Return ==
  /\ pc = "handler"
  /\ Remove(Returned("completed"))
  /\ last' = [last EXCEPT ![coroutines[i].co] = "completed"]
  /\ done' = done \cup {coroutines[i].co}
  /\ i' = i - 1
  /\ pc' = "round"
  /\ UNCHANGED looping

EndRound ==
  /\ pc = "round"
  /\ ~ (i >= 0)
  /\ pc' = "idle"
  /\ UNCHANGED <<coroutines, count, i, looping, last, done>>

SchedulerStep == LoopRound \/ LeaveLoop \/ Execute \/ EndRound

Next ==
  \/ \E c \in Coroutines : Schedule(c)
  \/ RunOnce
  \/ EnterLoop
  \/ Yield
  \/ Return
  \/ SchedulerStep

(***************************************************************************)
(* One thread runs the scheduler; a handler comes back each time it is     *)
(* called, but need not ever terminate the coroutine.                      *)
(***************************************************************************)
Fairness == WF_vars(SchedulerStep) /\ WF_vars(Yield \/ Return)

Spec == Init /\ [][Next]_vars /\ Fairness

-----------------------------------------------------------------------------
(* The types; the walk stays inside the used slots while a handler runs.   *)
TypeOK ==
  /\ coroutines \in [Slots -> [co : Coroutines \cup {NoCoroutine}, status : Statuses]]
  /\ count \in 0 .. MaxCoroutines
  /\ i \in -1 .. count - 1
  /\ pc \in {"idle", "round", "handler"}
  /\ pc = "handler" => i >= 0
  /\ looping \in BOOLEAN
  /\ last \in [Coroutines -> Statuses]
  /\ done \subseteq Coroutines

(***************************************************************************)
(* Whichever slot a coroutine has moved to, it resumes with the status its *)
(* handler returned last, and first with MS_CO_STATUS_BEGIN.               *)
(***************************************************************************)
StatusKept == \A j \in Used : coroutines[j].status = last[coroutines[j].co]

(***************************************************************************)
(* A round runs every coroutine scheduled when it began exactly once, and  *)
(* no terminated one, although slots are refilled from the end while the   *)
(* walk goes down (ms_co_scheduler_run_once, remove_coroutine).            *)
(***************************************************************************)
Due ==
  {coroutines[j].co : j \in {k \in Used : \/ pc = "round" /\ k <= i
                                          \/ pc = "handler" /\ k < i}}

Running == IF pc = "handler" THEN coroutines[i].co ELSE NoCoroutine

R == INSTANCE Rounds WITH live <- Live, due <- Due, running <- Running

RefinesRounds == R!Spec

(***************************************************************************)
(* No starvation: inside ms_co_scheduler_loop a scheduled coroutine runs   *)
(* again, also when others never terminate and keep scheduling new ones.   *)
(***************************************************************************)
NoStarvation ==
  \A c \in Coroutines : (looping /\ c \in Live) ~> (Running = c)

(***************************************************************************)
(* ms_co_scheduler_loop returns once every coroutine that is resumed again *)
(* and again terminates.                                                   *)
(***************************************************************************)
LoopEnds ==
  (\A c \in Coroutines : []<>(Running = c) => <>(c \in done)) => (looping ~> ~ looping)
=============================================================================
