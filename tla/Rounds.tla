------------------------------- MODULE Rounds -------------------------------
(***************************************************************************)
(* What ms_co_scheduler_run_once promises: "executing all the scheduled    *)
(* coroutines once".  A round runs every coroutine that was scheduled when *)
(* it began, each once, in no particular order; one scheduled meanwhile    *)
(* waits for the next round; a terminated one never runs again.            *)
(***************************************************************************)
CONSTANTS
  Coroutines,
  NoCoroutine

VARIABLES
  live,      \* scheduled and not terminated
  due,       \* still to run in this round
  running,   \* the one whose handler is active
  done       \* terminated

Init ==
  /\ live = {}
  /\ due = {}
  /\ running = NoCoroutine
  /\ done = {}

Schedule(c) ==
  /\ c \notin live \cup done
  /\ live' = live \cup {c}
  /\ UNCHANGED <<due, running, done>>

StartRound ==
  /\ running = NoCoroutine
  /\ due = {}
  /\ due' = live
  /\ UNCHANGED <<live, running, done>>

Resume(c) ==
  /\ running = NoCoroutine
  /\ c \in due
  /\ due' = due \ {c}
  /\ running' = c
  /\ UNCHANGED <<live, done>>

Pause ==
  /\ running # NoCoroutine
  /\ running' = NoCoroutine
  /\ UNCHANGED <<live, due, done>>

Terminate ==
  /\ running # NoCoroutine
  /\ live' = live \ {running}
  /\ done' = done \cup {running}
  /\ running' = NoCoroutine
  /\ UNCHANGED due

Next ==
  \/ \E c \in Coroutines : Schedule(c) \/ Resume(c)
  \/ StartRound
  \/ Pause
  \/ Terminate

Spec == Init /\ [][Next]_<<live, due, running, done>>
=============================================================================
