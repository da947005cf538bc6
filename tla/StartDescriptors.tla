-------------------------- MODULE StartDescriptors --------------------------
(***************************************************************************)
(* How a thread gets its arguments (src/src/thread/thread.c and the spawn  *)
(* functions of thread.unix.c and thread.win32.c): the spawning thread     *)
(* takes a descriptor from an array shared by all, fills it in and gives   *)
(* it to the new thread, which copies it and lets it go.                   *)
(***************************************************************************)
EXTENDS Naturals

CONSTANTS
  MaxDescriptors,   \* MAX_DESCRIPTORS, 128
  Spawners,         \* the threads that call ms_thread_spawn
  Mains,            \* what callers want run: a function and its context
  Names,            \* names that fit
  Unnamed           \* UNKNOWN_THREAD_NAME

ASSUME StartDescriptorsAssumption ==
  /\ MaxDescriptors \in Nat
  /\ Unnamed \notin Names

Descriptors == 0 .. MaxDescriptors - 1
Contents == [main : Mains, name : Names \cup {Unnamed}]

VARIABLES
  windows,   \* TRUE for thread.win32.c
  current,   \* current_descriptor_index
  inUse,     \* the descriptors whose in_use is set
  filled,    \* filled[d]: main, ctx and name of descriptor d
  pc,        \* per spawner: where it is in ms_thread_spawn
  at,        \* per spawner: its descriptor
  wants,     \* per spawner: what its caller asked for
  created,   \* the threads that have not copied their descriptor yet
  mistaken   \* history: what threads got where they were asked for something else

vars == <<windows, current, inUse, filled, pc, at, wants, created, mistaken>>

(* Static memory is zero; any content of the right type stands for it. *)
Init ==
  /\ windows \in BOOLEAN
  /\ current = 0
  /\ inUse = {}
  /\ filled \in [Descriptors -> Contents] /\ \A d, e \in Descriptors : filled[d] = filled[e]
  /\ pc = [s \in Spawners |-> "idle"]
  /\ at = [s \in Spawners |-> 0]
  /\ wants \in [Spawners -> Contents] /\ \A s, r \in Spawners : wants[s] = wants[r]
  /\ created = {}
  /\ mistaken = {}

Goto(s, from, to) ==
  /\ pc[s] = from
  /\ pc' = [pc EXCEPT ![s] = to]

-----------------------------------------------------------------------------
(* ms_thread_spawn *)
Spawn(s, content) ==
  /\ Goto(s, "idle", "fetch")
  /\ wants' = [wants EXCEPT ![s] = content]
  /\ UNCHANGED <<windows, current, inUse, filled, at, created, mistaken>>

(* Mutant: everybody looks at the same descriptor again. *)
StuckFetch(s) ==
  /\ Goto(s, "fetch", "test")
  /\ current < MaxDescriptors
  /\ at' = [at EXCEPT ![s] = current]
  /\ UNCHANGED <<windows, current, inUse, filled, wants, created, mistaken>>

(***************************************************************************)
(* The fetch-and-add of ms_thread_acquire_start_descriptor.  The index is  *)
(* never taken modulo the number of descriptors; from the end of the array *)
(* on it is not modelled.                                                  *)
(***************************************************************************)
Fetch(s) ==
  /\ Goto(s, "fetch", "test")
  /\ current < MaxDescriptors
  /\ at' = [at EXCEPT ![s] = current]
  /\ current' = current + 1
  /\ UNCHANGED <<windows, inUse, filled, wants, created, mistaken>>

(* Its test-and-set: another descriptor when this one is taken. *)
TestAndSet(s) ==
  /\ Goto(s, "test", IF at[s] \in inUse THEN "fetch" ELSE "fill")
  /\ inUse' = inUse \cup {at[s]}
  /\ UNCHANGED <<windows, current, filled, at, wants, created, mistaken>>

(* Mutant: a thread without a name keeps what the descriptor held. *)
Unfilled(s) ==
  [main |-> wants[s].main,
   name |-> IF wants[s].name = Unnamed THEN filled[at[s]].name ELSE wants[s].name]

Filling(s) == wants[s]

Fill(s) ==
  /\ Goto(s, "fill", "create")
  /\ filled' = [filled EXCEPT ![at[s]] = Filling(s)]
  /\ UNCHANGED <<windows, current, inUse, at, wants, created, mistaken>>

(***************************************************************************)
(* The name is too long: MS_RESULT_INVALID_ARGUMENT, after main and ctx    *)
(* were written, and the descriptor stays in use for ever.                 *)
(***************************************************************************)
FillTooLong(s) ==
  /\ Goto(s, "fill", "idle")
  /\ filled' = [filled EXCEPT ![at[s]] = [main |-> wants[s].main, name |-> @.name]]
  /\ UNCHANGED <<windows, current, inUse, at, wants, created, mistaken>>

(* pthread_create, CreateThread *)
Create(s) ==
  /\ Goto(s, "create", "idle")
  /\ created' = created \cup {[descriptor |-> at[s], asked |-> wants[s]]}
  /\ UNCHANGED <<windows, current, inUse, filled, at, wants, mistaken>>

(* It failed; only the POSIX function releases the descriptor. *)
CreateFailed(s) ==
  /\ Goto(s, "create", "idle")
  /\ inUse' = IF windows THEN inUse ELSE inUse \ {at[s]}
  /\ UNCHANGED <<windows, current, filled, at, wants, created, mistaken>>

(* thread_main up to the clear: its copy is its own, nobody writes between. *)
Start(thread) ==
  /\ mistaken' = mistaken \cup ({filled[thread.descriptor]} \ {thread.asked})
  /\ inUse' = inUse \ {thread.descriptor}
  /\ created' = created \ {thread}
  /\ UNCHANGED <<windows, current, filled, pc, at, wants>>

SpawnerStep(s) ==
  \/ Fetch(s)
  \/ TestAndSet(s)
  \/ Fill(s)
  \/ FillTooLong(s)
  \/ Create(s)
  \/ CreateFailed(s)

Next ==
  \/ \E s \in Spawners :
       \/ \E content \in Contents : Spawn(s, content)
       \/ SpawnerStep(s)
  \/ \E thread \in created : Start(thread)

(* The scheduler lets a spawning thread go on. *)
Fairness == \A s \in Spawners : WF_vars(SpawnerStep(s))

Spec == Init /\ [][Next]_vars /\ Fairness

-----------------------------------------------------------------------------
TypeOK ==
  /\ windows \in BOOLEAN
  /\ current \in 0 .. MaxDescriptors
  /\ inUse \subseteq Descriptors
  /\ filled \in [Descriptors -> Contents]
  /\ pc \in [Spawners -> {"idle", "fetch", "test", "fill", "create"}]
  /\ at \in [Spawners -> Nat]
  /\ wants \in [Spawners -> Contents]
  /\ created \subseteq [descriptor : Descriptors, asked : Contents]
  /\ mistaken \subseteq Contents

(***************************************************************************)
(* A thread runs what its own spawner was asked for, under that name,      *)
(* however spawns and starts interleave and whatever failed spawns leave   *)
(* in the array (ms_thread_spawn, thread_main).                            *)
(***************************************************************************)
HandedOver == mistaken = {}

(***************************************************************************)
(* A spawn comes back while there are descriptors nobody has had yet, for  *)
(* all that failed ones keep theirs.                                       *)
(***************************************************************************)
SpawnReturns ==
  \A s \in Spawners :
    pc[s] # "idle" ~> pc[s] = "idle" \/ current = MaxDescriptors
=============================================================================
