----------------------------- MODULE ThreadPool -----------------------------
(***************************************************************************)
(* ms_thread_pool (src/src/thread/pool.c) with its ms_task_queue           *)
(* (src/src/thread/task.c): dispatchers copy tasks into a ring, workers    *)
(* take pointers to ring slots and run what they find there, and the last  *)
(* child of a task enqueues it.                                            *)
(*                                                                         *)
(* An enqueue holds the write lock around all it does, so it is one step,  *)
(* taken while no worker is inside the read lock.  A dequeue changes the   *)
(* ring under the READ lock, so it is three: load count, pick the slot,    *)
(* store count.  The slot is read again, without any lock, by each step    *)
(* that looks at the task.                                                 *)
(***************************************************************************)
EXTENDS Integers, FiniteSets

CONSTANTS
  Tasks,         \* the caller's ms_task objects
  NoTask,        \* a NULL ms_task pointer
  ParentOf,      \* ms_task.parent
  Workers,       \* the pool's threads
  Dispatchers,   \* the threads that call ms_thread_pool_dispatch
  Capacity,      \* task_capacity
  Word,          \* 2^32, the range of the ring's counters
  MaxInFlight,   \* callers keep at most this many tasks unfinished
  ParentsFirst   \* TRUE when callers dispatch a parent before its children

CounterMod == 2^16   \* unsatisfied_dependencies is a uint16_t

Children(t) == {c \in Tasks : ParentOf[c] = t}

ASSUME PoolAssumption ==
  /\ NoTask \notin Tasks
  /\ ParentOf \in [Tasks -> Tasks \cup {NoTask}]
  /\ Workers # {}
  /\ MaxInFlight \in Nat
  /\ ParentsFirst \in BOOLEAN
  /\ Capacity \in Nat \ {0}
  /\ Word \in Nat \ {0}
  /\ Word % Capacity = 0

VARIABLES
  unsat,         \* unsatisfied_dependencies of the caller's objects
  count, windex, values,   \* the ring of task copies
  dpc, dtask,    \* per dispatcher: where it is in dispatch, with which task
  asked,         \* tasks a dispatch call was made for
  accepted,      \* tasks dispatch returned true for
  wpc,           \* per worker: where it is in thread_main
  wcount,        \* the value of count it loaded
  wslot,         \* the slot its task pointer points to
  wparent,       \* the parent pointer it loaded
  mustJoin,
  owner,         \* the thread that destroys the pool
  ran            \* history: how often each handler ran, counted up to 2

ringVars == <<count, windex, values>>
callVars == <<dpc, dtask, asked, accepted>>
workVars == <<wpc, wcount, wslot, wparent>>
vars == <<unsat, ringVars, callVars, workVars, mustJoin, owner, ran>>

(* The ring's items: copies of tasks, with the dependency count as copied. *)
Copies == [task : Tasks, unsat : 0 .. CounterMod - 1]
Blank == [task |-> NoTask, unsat |-> 0]   \* memory no enqueue has written
CopyOf(t) == [task |-> t, unsat |-> unsat[t]]

Ring == INSTANCE Ring WITH Items <- Copies, NoItem <- Blank, out <- Blank

Init ==
  /\ unsat = [t \in Tasks |-> Cardinality(Children(t))]
  /\ count = 0 /\ windex = 0 /\ values = [s \in Ring!Slots |-> Blank]
  /\ dpc = [d \in Dispatchers |-> "idle"]
  /\ dtask = [d \in Dispatchers |-> NoTask]
  /\ asked = {} /\ accepted = {}
  /\ wpc = [w \in Workers |-> "loop"]
  /\ wcount = [w \in Workers |-> 0]
  /\ wslot = [w \in Workers |-> 0]
  /\ wparent = [w \in Workers |-> NoTask]
  /\ mustJoin = FALSE
  /\ owner = "running"
  /\ ran = [t \in Tasks |-> 0]

-----------------------------------------------------------------------------
(* The task queue's write side. *)

(* pthread_rwlock_wrlock succeeds while no worker is in ms_ring_dequeue. *)
NoReader == \A w \in Workers : wpc[w] \notin {"index", "store"}

(* ms_task_queue_enqueue: TRUE in the THEN branch, false in the ELSE one. *)
EnqueueTask(t) ==
  IF count < Capacity THEN Ring!Push(CopyOf(t)) ELSE UNCHANGED ringVars

-----------------------------------------------------------------------------
(* ms_thread_pool_dispatch and the rules its callers keep. *)

Unfinished == {t \in asked : ran[t] = 0}

MayDispatch(t) ==
  /\ owner = "running"
  /\ t \notin asked
  /\ Cardinality(Unfinished) < MaxInFlight
  /\ ParentsFirst => ParentOf[t] \in accepted \cup {NoTask}

(* A task with unsatisfied dependencies is left for its last child. *)
BeginDispatch(d, t) ==
  /\ dpc[d] = "idle"
  /\ MayDispatch(t)
  /\ asked' = asked \cup {t}
  /\ IF unsat[t] = 0
       THEN /\ dpc' = [dpc EXCEPT ![d] = "enqueue"]
            /\ dtask' = [dtask EXCEPT ![d] = t]
            /\ UNCHANGED accepted
       ELSE /\ accepted' = accepted \cup {t}
            /\ UNCHANGED <<dpc, dtask>>
  /\ UNCHANGED <<unsat, ringVars, workVars, mustJoin, owner, ran>>

(* When the queue is full dispatch returns false and the caller may retry. *)
FinishDispatch(d) ==
  /\ dpc[d] = "enqueue"
  /\ NoReader
  /\ EnqueueTask(dtask[d])
  /\ IF count < Capacity
       THEN accepted' = accepted \cup {dtask[d]} /\ UNCHANGED asked
       ELSE asked' = asked \ {dtask[d]} /\ UNCHANGED accepted
  /\ dpc' = [dpc EXCEPT ![d] = "idle"]
  /\ dtask' = [dtask EXCEPT ![d] = NoTask]
  /\ UNCHANGED <<unsat, workVars, mustJoin, owner, ran>>

-----------------------------------------------------------------------------
(* thread_main *)

Goto(w, from, to) ==
  /\ wpc[w] = from
  /\ wpc' = [wpc EXCEPT ![w] = to]

(* Mutant: must_join is never looked at. *)
DeafLoopHead(w) ==
  /\ Goto(w, "loop", "dequeue")
  /\ UNCHANGED <<unsat, ringVars, callVars, wcount, wslot, wparent, mustJoin,
                 owner, ran>>

LoopHead(w) ==
  /\ Goto(w, "loop", IF mustJoin THEN "exited" ELSE "dequeue")
  /\ UNCHANGED <<unsat, ringVars, callVars, wcount, wslot, wparent, mustJoin,
                 owner, ran>>

(* Under the read lock: an empty queue sends the worker to sleep. *)
DequeueCheck(w) ==
  /\ Goto(w, "dequeue", IF count > 0 THEN "index" ELSE "loop")
  /\ wcount' = [wcount EXCEPT ![w] = count]
  /\ UNCHANGED <<unsat, ringVars, callVars, wslot, wparent, mustJoin, owner, ran>>

(* count is not atomic: the build may use the loaded value or load again. *)
DequeueIndex(w) ==
  /\ Goto(w, "index", "store")
  /\ \E c \in {wcount[w], count} :
       wslot' = [wslot EXCEPT ![w] = Ring!ReadSlot(windex, c)]
  /\ UNCHANGED <<unsat, ringVars, callVars, wcount, wparent, mustJoin, owner, ran>>

(* Mutant: the slot is read and stays in the queue. *)
PeekingDequeueStore(w) ==
  /\ Goto(w, "store", "check")
  /\ UNCHANGED <<unsat, ringVars, callVars, wcount, wslot, wparent, mustJoin, owner, ran>>

(* count-- and the release of the read lock. *)
DequeueStore(w) ==
  /\ Goto(w, "store", "check")
  /\ \E c \in {wcount[w], count} : count' = Ring!UInt32(c - 1)
  /\ UNCHANGED <<unsat, windex, values, callVars, wcount, wslot, wparent,
                 mustJoin, owner, ran>>

(* The task copy a worker's pointer shows now. *)
Seen(w) == values[wslot[w]]

(* A copy with unsatisfied dependencies is dropped; memory that was never  *)
(* written has no defined content, and the worker is lost.                 *)
CheckUnsatisfied(w) ==
  /\ Goto(w, "check", IF Seen(w) = Blank THEN "lost"
                      ELSE IF Seen(w).unsat = 0 THEN "call" ELSE "loop")
  /\ UNCHANGED <<unsat, ringVars, callVars, wcount, wslot, wparent, mustJoin,
                 owner, ran>>

CallHandler(w) ==
  /\ Goto(w, "call", "parent")
  /\ ran' = [ran EXCEPT ![Seen(w).task] = IF @ < 2 THEN @ + 1 ELSE @]
  /\ UNCHANGED <<unsat, ringVars, callVars, wcount, wslot, wparent, mustJoin, owner>>

(* Mutant: one sub_fetch to release the parent, another to test it. *)
TwiceReleaseParent(w) ==
  /\ wpc[w] = "parent"
  /\ LET p == ParentOf[Seen(w).task] IN
       IF p = NoTask
         THEN Goto(w, "parent", "loop") /\ UNCHANGED <<unsat, wparent>>
         ELSE /\ unsat' = [unsat EXCEPT ![p] = (@ - 2) % CounterMod]
              /\ IF unsat'[p] = 0
                   THEN /\ Goto(w, "parent", "requeue")
                        /\ wparent' = [wparent EXCEPT ![w] = p]
                   ELSE Goto(w, "parent", "loop") /\ UNCHANGED wparent
  /\ UNCHANGED <<ringVars, callVars, wcount, wslot, mustJoin, owner, ran>>

(* Mutant: the parent's counter is tested and not decremented. *)
IdleReleaseParent(w) ==
  /\ Goto(w, "parent", "loop")
  /\ UNCHANGED <<unsat, ringVars, callVars, wcount, wslot, wparent, mustJoin, owner, ran>>

(* sub_fetch on the parent's counter. *)
ReleaseParent(w) ==
  /\ wpc[w] = "parent"
  /\ LET p == ParentOf[Seen(w).task] IN
       IF p = NoTask
         THEN Goto(w, "parent", "loop") /\ UNCHANGED <<unsat, wparent>>
         ELSE /\ unsat' = [unsat EXCEPT ![p] = (@ - 1) % CounterMod]
              /\ IF unsat'[p] = 0
                   THEN /\ Goto(w, "parent", "requeue")
                        /\ wparent' = [wparent EXCEPT ![w] = p]
                   ELSE Goto(w, "parent", "loop") /\ UNCHANGED wparent
  /\ UNCHANGED <<ringVars, callVars, wcount, wslot, mustJoin, owner, ran>>

(* Mutant: the last child does not enqueue the parent. *)
ForgetfulRequeueParent(w) ==
  /\ Goto(w, "requeue", "loop")
  /\ NoReader
  /\ wparent' = [wparent EXCEPT ![w] = NoTask]
  /\ UNCHANGED <<unsat, ringVars, callVars, wcount, wslot, mustJoin, owner, ran>>

(* The result of the enqueue is ignored.  t->parent is not atomic either:  *)
(* it may be loaded a second time, and if the slot now holds a task        *)
(* without a parent the enqueue copies from NULL.                          *)
RequeueParent(w) ==
  /\ wpc[w] = "requeue"
  /\ NoReader
  /\ \E p \in {wparent[w], ParentOf[Seen(w).task]} :
       IF p = NoTask
         THEN Goto(w, "requeue", "lost") /\ UNCHANGED ringVars
         ELSE Goto(w, "requeue", "loop") /\ EnqueueTask(p)
  /\ wparent' = [wparent EXCEPT ![w] = NoTask]
  /\ UNCHANGED <<unsat, callVars, wcount, wslot, mustJoin, owner, ran>>

-----------------------------------------------------------------------------
(* ms_thread_pool_destroy: set must_join, then join every worker.  The     *)
(* owner calls it when no dispatch is in progress.                         *)
Destroy ==
  /\ owner = "running"
  /\ \A d \in Dispatchers : dpc[d] = "idle"
  /\ mustJoin' = TRUE
  /\ owner' = "joining"
  /\ UNCHANGED <<unsat, ringVars, callVars, workVars, ran>>

JoinAll ==
  /\ owner = "joining"
  /\ \A w \in Workers : wpc[w] = "exited"
  /\ owner' = "destroyed"
  /\ UNCHANGED <<unsat, ringVars, callVars, workVars, mustJoin, ran>>

Destroyed == owner = "destroyed" /\ UNCHANGED vars

WorkerStep(w) ==
  \/ LoopHead(w)
  \/ DequeueCheck(w)
  \/ DequeueIndex(w)
  \/ DequeueStore(w)
  \/ CheckUnsatisfied(w)
  \/ CallHandler(w)
  \/ ReleaseParent(w)
  \/ RequeueParent(w)

Next ==
  \/ \E d \in Dispatchers, t \in Tasks : BeginDispatch(d, t)
  \/ \E d \in Dispatchers : FinishDispatch(d)
  \/ \E w \in Workers : WorkerStep(w)
  \/ Destroy
  \/ JoinAll
  \/ Destroyed

(***************************************************************************)
(* Threads the operating system keeps scheduling, handlers that return and *)
(* a lock that admits a waiting writer.  Nobody has to dispatch or destroy.*)
(***************************************************************************)
Fairness ==
  /\ \A w \in Workers : WF_vars(WorkerStep(w))
  /\ \A d \in Dispatchers : WF_vars(FinishDispatch(d))
  /\ WF_vars(JoinAll)

Spec == Init /\ [][Next]_vars /\ Fairness

-----------------------------------------------------------------------------
(* The types; count stays a fill level and no worker reads wild memory. *)
TypeOK ==
  /\ unsat \in [Tasks -> 0 .. CounterMod - 1]
  /\ count \in 0 .. Capacity
  /\ windex \in 0 .. Word - 1
  /\ values \in [Ring!Slots -> Copies \cup {Blank}]
  /\ dpc \in [Dispatchers -> {"idle", "enqueue"}]
  /\ dtask \in [Dispatchers -> Tasks \cup {NoTask}]
  /\ asked \subseteq Tasks
  /\ accepted \subseteq asked
  /\ wpc \in [Workers -> {"loop", "dequeue", "index", "store", "check", "call",
                          "parent", "requeue", "exited"}]
  /\ wcount \in [Workers -> 0 .. Capacity]
  /\ wslot \in [Workers -> Ring!Slots]
  /\ wparent \in [Workers -> Tasks \cup {NoTask}]
  /\ mustJoin \in BOOLEAN
  /\ owner \in {"running", "joining", "destroyed"}
  /\ ran \in [Tasks -> 0 .. 2]

(***************************************************************************)
(* No handler runs twice for one dispatch (thread_main), although a task   *)
(* can reach the queue from its dispatcher and from its last child.        *)
(***************************************************************************)
AtMostOnce == \A t \in Tasks : ran[t] <= 1

(***************************************************************************)
(* A parent's handler starts only after the handlers of all its children   *)
(* have returned: what unsatisfied_dependencies is for.                    *)
(***************************************************************************)
ChildrenFirst ==
  \A t \in Tasks : ran[t] > 0 => \A c \in Children(t) : ran[c] > 0

(***************************************************************************)
(* Of its types all along, unsatisfied_dependencies counts exactly the     *)
(* children whose handler has not returned or whose worker has not yet     *)
(* come to the decrement.                                                  *)
(***************************************************************************)
Outstanding(c) ==
  ran[c] = 0 \/ \E w \in Workers : wpc[w] = "parent" /\ Seen(w).task = c

CountExact ==
  /\ TypeOK
  /\ \A t \in Tasks : unsat[t] = Cardinality({c \in Children(t) : Outstanding(c)})

(***************************************************************************)
(* A task runs once it and everything below it were accepted, unless the   *)
(* pool is destroyed first.                                                *)
(***************************************************************************)
Ready(t) ==
  LET below == {c \in Tasks : ParentOf[c] = t \/
                  (ParentOf[c] # NoTask /\ ParentOf[ParentOf[c]] = t)}
  IN {t} \cup below \subseteq accepted

EveryTaskRuns == \A t \in Tasks : Ready(t) ~> (ran[t] > 0 \/ mustJoin)

(***************************************************************************)
(* ms_thread_pool_destroy returns: every worker sees must_join and exits,  *)
(* with however many tasks left in the queue.                              *)
(***************************************************************************)
ShutdownEnds == mustJoin ~> (owner = "destroyed")
=============================================================================
