----------------------------- MODULE ThreadProofs -----------------------------
(***************************************************************************)
(* The thread pool with one worker, for every value of its constants.  A   *)
(* task that may run is in one place at most: with a dispatcher, in the    *)
(* queue, with the worker that took it, or with the worker that will       *)
(* enqueue it for its last child.  A worker goes on reading the slot       *)
(* behind the queue: only a queue that is full overwrites it, and then no  *)
(* task that is left has a parent.                                         *)
(***************************************************************************)
EXTENDS ThreadPool, CommonLemmas

-----------------------------------------------------------------------------
(* What the theorem assumes of a pool and of those who use it. *)
Discipline ==
  /\ \A v, w \in Workers : v = w
  /\ ParentsFirst
  /\ MaxInFlight <= Capacity
  /\ IsFiniteSet(Tasks)
  /\ \A t \in Tasks : Cardinality(Children(t)) < CounterMod

(* The slot of the j-th newest task in the queue, and what it holds. *)
Slot(j) == Ring!ReadSlot(windex, j)
At(j) == values[Slot(j)]

Waiting == {At(j).task : j \in 1 .. count}

(* A task that may be run: asked for, not run, with no child outstanding. *)
Pending(t) == t \in asked /\ ran[t] = 0 /\ unsat[t] = 0

Queued ==
  \A j \in 1 .. count :
    /\ At(j) \in Copies /\ At(j).unsat = 0 /\ Pending(At(j).task)
    /\ \A i \in 1 .. count : At(i).task = At(j).task => i = j

(* Dispatchers bring tasks without children, each its own. *)
Entering ==
  \A d \in Dispatchers : dpc[d] = "enqueue" =>
    /\ dtask[d] \in Tasks /\ Pending(dtask[d]) /\ dtask[d] \notin Waiting
    /\ Children(dtask[d]) = {}
    /\ \A e \in Dispatchers : dpc[e] = "enqueue" /\ dtask[e] = dtask[d] => e = d

(* A worker looks at the slot behind the queue, not overwritten so far. *)
Behind(w) == count < Capacity /\ wslot[w] = Slot(count + 1) /\ Seen(w) \in Copies

(* The task it takes has left the queue, and nobody brings it back. *)
Taking ==
  \A w \in Workers :
    /\ wpc[w] \in {"index", "store"} => count > 0 /\ wcount[w] = count
    /\ wpc[w] = "store" => wslot[w] = Slot(count)
    /\ wpc[w] \in {"check", "call"} =>
         /\ Behind(w) /\ Seen(w).unsat = 0
         /\ Pending(Seen(w).task) /\ Seen(w).task \notin Waiting
         /\ \A d \in Dispatchers : dpc[d] = "enqueue" => dtask[d] # Seen(w).task

(* Once the handler has returned the slot may be overwritten, but only by  *)
(* a queue that is full of tasks without parents.                          *)
Releasing ==
  \A w \in Workers :
    /\ wpc[w] = "parent" =>
         \/ Behind(w) /\ ran[Seen(w).task] = 1
         \/ count = Capacity /\ Seen(w) \in Copies /\ Seen(w).task \in Waiting
    /\ wpc[w] = "requeue" =>
         /\ Behind(w) /\ ParentOf[Seen(w).task] = wparent[w]
         /\ wparent[w] \in Tasks /\ Pending(wparent[w]) /\ wparent[w] \notin Waiting
         /\ Children(wparent[w]) # {}

(* Callers' rules as the pool's state shows them. *)
Asking ==
  /\ Cardinality(Unfinished) <= MaxInFlight
  /\ \A c \in asked : ParentOf[c] \in asked \cup {NoTask}
  /\ \A t \in Tasks : ran[t] = 0 \/ (ran[t] = 1 /\ t \in asked /\ unsat[t] = 0)

PoolInv == CountExact /\ Queued /\ Entering /\ Taking /\ Releasing /\ Asking

-----------------------------------------------------------------------------
(* The ring. *)

LEMMA SlotFacts ==
  ASSUME windex \in 0 .. Word - 1
  PROVE  /\ \A j \in Int : Slot(j) \in Ring!Slots /\ Slot(j) = (windex - j) % Capacity
         /\ \A i, j \in 1 .. Capacity : Slot(i) = Slot(j) => i = j
         /\ Ring!WriteSlot = Slot(Capacity) /\ Ring!WriteSlot = Slot(0)
  <1>1. Capacity \in Nat \ {0} /\ Word \in Nat \ {0} /\ Word % Capacity = 0 /\ windex \in Int
    BY PoolAssumption
  <1>2. ASSUME NEW j \in Int
        PROVE  Slot(j) \in Ring!Slots /\ Slot(j) = (windex - j) % Capacity
    <2>1. /\ ((Capacity + ((windex - j) % Word)) % Word) % Capacity = (windex - j) % Capacity
          /\ (windex - j) % Capacity \in 0 .. Capacity - 1
      BY <1>1, RingSlot
    <2>2. QED
      BY <2>1 DEF Slot, Ring!ReadSlot, Ring!Masked, Ring!UInt32, Ring!Slots
  <1>3. ASSUME NEW i \in 1 .. Capacity, NEW j \in 1 .. Capacity, i < j
        PROVE  Slot(i) # Slot(j)
    <2> DEFINE n == windex - i
               d == j - i
    <2>1. i \in Int /\ j \in Int /\ n \in Int /\ d \in 1 .. Capacity - 1 /\ n - d = windex - j
      BY <1>1, <1>3, SMT
    <2> HIDE DEF n, d
    <2>2. (n - d) % Capacity # n % Capacity
      BY <1>1, <2>1, ModApart
    <2>3. QED
      BY <1>2, <2>1, <2>2 DEF n
  <1>4. Ring!WriteSlot = Slot(0)
    <2>1. windex - 0 = windex
      BY <1>1, SMT
    <2>2. QED
      BY <1>2, <2>1 DEF Ring!WriteSlot, Ring!Masked
  <1>5. Slot(Capacity) = Slot(0)
    <2> DEFINE n == windex - Capacity
    <2>1. n \in Int /\ 1 \in Int /\ Capacity \in Int /\ 0 \in Int
      BY <1>1
    <2>2. windex - 0 = n + Capacity * 1
      BY <1>1, SMT
    <2> HIDE DEF n
    <2>3. (n + Capacity * 1) % Capacity = n % Capacity
      <3>1. Capacity \in Nat \ {0}
        BY <1>1
      <3>2. QED
        BY <2>1, <3>1, ModShift
    <2>4. Slot(0) = (n + Capacity * 1) % Capacity /\ Slot(Capacity) = n % Capacity
      BY <1>2, <2>1, <2>2 DEF n
    <2>5. QED
      BY <2>3, <2>4
  <1>6. \A i, j \in 1 .. Capacity : Slot(i) = Slot(j) => i = j
    BY <1>1, <1>3, SMT
  <1>7. QED
    BY <1>2, <1>4, <1>5, <1>6

(* One more task: every other one is one place older, in the same slot. *)
LEMMA SlotMoves ==
  ASSUME windex \in 0 .. Word - 1, windex' = Ring!UInt32(windex + 1)
  PROVE  windex' \in 0 .. Word - 1 /\ \A j \in Int : Slot(j + 1)' = Slot(j)
  <1>1. Capacity \in Nat \ {0} /\ Word \in Nat \ {0} /\ Word % Capacity = 0 /\ windex \in Int
    BY PoolAssumption
  <1>2. windex' \in 0 .. Word - 1
    BY <1>1, SMT DEF Ring!UInt32
  <1>3. ASSUME NEW j \in Int PROVE Slot(j + 1)' = Slot(j)
    <2>1. /\ (((windex + 1) % Word) - (j + 1)) % Capacity = (windex - j) % Capacity
          /\ (windex + 1) % Word \in 0 .. Word - 1
      BY <1>1, RingStep
    <2> DEFINE n == windex'
               i == j + 1
    <2>2. n \in Int /\ i \in Int
      BY <1>1, <1>2
    <2> HIDE DEF n, i
    <2>3. /\ ((Capacity + ((n - i) % Word)) % Word) % Capacity = (n - i) % Capacity
          /\ (n - i) % Capacity \in 0 .. Capacity - 1
      BY <1>1, <2>2, RingSlot
    <2>4. Slot(j) = (windex - j) % Capacity
      BY SlotFacts
    <2>5. QED
      BY <2>1, <2>3, <2>4 DEF n, i, Slot, Ring!ReadSlot, Ring!Masked, Ring!UInt32
  <1>4. QED
    BY <1>2, <1>3

LEMMA PushFacts ==
  ASSUME TypeOK, NEW item \in Copies, Ring!Push(item)
  PROVE  /\ count < Capacity /\ count' = count + 1
         /\ windex' \in 0 .. Word - 1
         /\ values' \in [Ring!Slots -> Copies \cup {Blank}]
         /\ \A j \in Int : Slot(j + 1)' = Slot(j)
         /\ At(1)' = item
         /\ \A j \in 1 .. count : At(j + 1)' = At(j)
         /\ count + 1 < Capacity => values'[Slot(count + 1)] = values[Slot(count + 1)]
         /\ count + 1 = Capacity => values'[Slot(count + 1)] = item
  <1>1. /\ count < Capacity /\ count' = count + 1
        /\ windex' = Ring!UInt32(windex + 1)
        /\ values' = [values EXCEPT ![Ring!WriteSlot] = item]
    BY DEF Ring!Push
  <1>2. /\ count \in 0 .. Capacity /\ windex \in 0 .. Word - 1 /\ Capacity \in Nat \ {0}
        /\ values \in [Ring!Slots -> Copies \cup {Blank}]
    BY PoolAssumption DEF TypeOK
  <1>3. windex' \in 0 .. Word - 1 /\ \A j \in Int : Slot(j + 1)' = Slot(j)
    BY <1>1, <1>2, SlotMoves
  <1>4. /\ \A j \in Int : Slot(j) \in Ring!Slots
        /\ \A i, j \in 1 .. Capacity : Slot(i) = Slot(j) => i = j
        /\ Ring!WriteSlot = Slot(Capacity) /\ Ring!WriteSlot = Slot(0)
    BY <1>2, SlotFacts
  <1>5. Ring!WriteSlot \in Ring!Slots
    BY <1>4
  <1>6. values' \in [Ring!Slots -> Copies \cup {Blank}]
    BY <1>1, <1>2, <1>5
  <1>7. \A j \in 1 .. Capacity - 1 : values'[Slot(j)] = values[Slot(j)]
    <2> SUFFICES ASSUME NEW j \in 1 .. Capacity - 1 PROVE values'[Slot(j)] = values[Slot(j)]
      OBVIOUS
    <2>1. j \in 1 .. Capacity /\ Capacity \in 1 .. Capacity /\ j # Capacity /\ j \in Int
      BY <1>2, SMT
    <2>2. Slot(j) # Ring!WriteSlot /\ Slot(j) \in Ring!Slots
      BY <1>4, <2>1
    <2>3. QED
      BY <1>1, <1>2, <2>2
  <1>8. values'[Slot(Capacity)] = item /\ values'[Slot(0)] = item
    BY <1>1, <1>2, <1>4, <1>5
  <1>9. At(1)' = item
    <2>1. 0 + 1 = 1 /\ 0 \in Int
      OBVIOUS
    <2>2. Slot(1)' = Slot(0)
      BY <1>3, <2>1
    <2>3. QED
      BY <1>8, <2>2 DEF At
  <1>10. ASSUME NEW j \in 1 .. count PROVE At(j + 1)' = At(j)
    <2>1. j \in Int /\ j \in 1 .. Capacity - 1 /\ j + 1 \in Int
      BY <1>1, <1>2, SMT
    <2>2. Slot(j + 1)' = Slot(j)
      BY <1>3, <2>1
    <2>3. QED
      BY <1>7, <2>1, <2>2 DEF At
  <1>11. count + 1 < Capacity => count + 1 \in 1 .. Capacity - 1
    BY <1>2, SMT
  <1>12. QED
    BY <1>1, <1>3, <1>6, <1>7, <1>8, <1>9, <1>10, <1>11

-----------------------------------------------------------------------------
(* Room in the queue.  The tasks in it are unfinished ones, each once; for *)
(* every unfinished one that is not in it, a slot is free.                 *)

LEMMA UnfinishedFinite ==
  ASSUME TypeOK, Discipline
  PROVE  /\ IsFiniteSet(asked) /\ IsFiniteSet(Unfinished) /\ Unfinished \subseteq Tasks
         /\ Cardinality(Unfinished) \in Nat
  <1>1. asked \in SUBSET Tasks /\ Unfinished \in SUBSET Tasks
    BY DEF TypeOK, Unfinished
  <1>2. IsFiniteSet(asked) /\ IsFiniteSet(Unfinished)
    BY <1>1, FS_Subset DEF Discipline
  <1>3. QED
    BY <1>1, <1>2, FS_CardinalityType

LEMMA Room ==
  ASSUME TypeOK, Discipline, Queued, Asking, NEW S \in SUBSET Unfinished,
         S \cap Waiting = {}, IsFiniteSet(S)
  PROVE  count <= Capacity - Cardinality(S)
  <1> DEFINE rest == Unfinished \ S
             q == [j \in 1 .. count |-> At(j).task]
  <1>1. count \in Nat /\ Capacity \in Nat /\ MaxInFlight \in Nat
    BY PoolAssumption DEF TypeOK
  <1>2. /\ IsFiniteSet(Unfinished) /\ Cardinality(Unfinished) \in Nat
        /\ Cardinality(Unfinished) <= MaxInFlight /\ MaxInFlight <= Capacity
    BY UnfinishedFinite DEF Asking, Discipline
  <1>3. IsFiniteSet(rest) /\ Cardinality(rest) = Cardinality(Unfinished) - Cardinality(S)
    <2>1. Unfinished \cap S = S
      OBVIOUS
    <2>2. QED
      BY <1>2, <2>1, FS_Difference
  <1>4. q \in Injection(1 .. count, rest)
    <2>1. \A j \in 1 .. count : At(j).task \in Unfinished /\ At(j).task \in Waiting
      BY DEF Queued, Pending, Unfinished, Waiting
    <2>2. q \in [1 .. count -> rest]
      BY <2>1
    <2>3. \A i, j \in 1 .. count : q[i] = q[j] => i = j
      BY DEF Queued
    <2> HIDE DEF q, rest
    <2>4. QED
      BY <2>2, <2>3 DEF Injection, IsInjective
  <1> HIDE DEF q, rest
  <1>5. Cardinality(1 .. count) <= Cardinality(rest)
    BY <1>3, <1>4, FS_Injection
  <1>6. Cardinality(1 .. count) = count
    BY <1>1, FS_Interval
  <1>7. Cardinality(S) \in Nat
    BY FS_CardinalityType
  <1>8. QED
    BY <1>1, <1>2, <1>3, <1>5, <1>6, <1>7, SMT

LEMMA RoomForOne ==
  ASSUME TypeOK, Discipline, Queued, Asking, NEW t \in Unfinished, t \notin Waiting
  PROVE  count < Capacity
  <1>1. {t} \in SUBSET Unfinished /\ {t} \cap Waiting = {}
    OBVIOUS
  <1>2. IsFiniteSet({t}) /\ Cardinality({t}) = 1
    BY FS_Singleton
  <1>3. count <= Capacity - 1
    BY <1>1, <1>2, Room
  <1>4. QED
    BY <1>3, PoolAssumption, SMT DEF TypeOK

LEMMA RoomForTwo ==
  ASSUME TypeOK, Discipline, Queued, Asking, NEW t \in Unfinished, t \notin Waiting,
         NEW u \in Unfinished, u \notin Waiting, t # u
  PROVE  count + 1 < Capacity
  <1>1. {t, u} \in SUBSET Unfinished /\ {t, u} \cap Waiting = {} /\ {t, u} = {t} \cup {u}
    OBVIOUS
  <1>2. IsFiniteSet({t, u}) /\ Cardinality({t, u}) = 2
    <2>1. IsFiniteSet({t}) /\ Cardinality({t}) = 1 /\ u \notin {t}
      BY FS_Singleton
    <2>2. IsFiniteSet({t} \cup {u}) /\ Cardinality({t} \cup {u}) = 1 + 1
      BY <2>1, FS_AddElement
    <2>3. QED
      BY <1>1, <2>2
  <1>3. count <= Capacity - 2
    BY <1>1, <1>2, Room
  <1>4. QED
    BY <1>3, PoolAssumption, SMT DEF TypeOK

-----------------------------------------------------------------------------
(* Parents and children. *)

LEMMA OutstandingFinite ==
  ASSUME Discipline, NEW t \in Tasks
  PROVE  IsFiniteSet({c \in Children(t) : Outstanding(c)})
  <1>1. {c \in Children(t) : Outstanding(c)} \in SUBSET Tasks
    BY DEF Children
  <1>2. QED
    BY <1>1, FS_Subset DEF Discipline

LEMMA NoneOutstanding ==
  ASSUME Discipline, CountExact, NEW t \in Tasks, unsat[t] = 0, NEW c \in Children(t)
  PROVE  ~ Outstanding(c)
  <1>1. Cardinality({x \in Children(t) : Outstanding(x)}) = 0
    BY DEF CountExact
  <1>2. {x \in Children(t) : Outstanding(x)} = {}
    BY <1>1, OutstandingFinite, FS_EmptySet
  <1>3. QED
    BY <1>2

(* The parent of an outstanding task waits outside the queue. *)
LEMMA ParentOutside ==
  ASSUME Discipline, CountExact, Queued, Asking, NEW c \in asked, Outstanding(c),
         ParentOf[c] # NoTask
  PROVE  /\ ParentOf[c] \in Unfinished /\ ParentOf[c] \in Tasks
         /\ ParentOf[c] \notin Waiting /\ unsat[ParentOf[c]] # 0
         /\ Children(ParentOf[c]) # {} /\ c \in Children(ParentOf[c])
  <1> DEFINE p == ParentOf[c]
  <1>1. c \in Tasks /\ p \in Tasks /\ p \in asked
    BY PoolAssumption DEF CountExact, TypeOK, Asking
  <1>2. c \in Children(p)
    BY <1>1 DEF Children
  <1> HIDE DEF p
  <1>3. unsat[p] # 0
    BY <1>1, <1>2, NoneOutstanding
  <1>4. ran[p] = 0
    BY <1>1, <1>3 DEF Asking
  <1>5. p \notin Waiting
    BY <1>3 DEF Waiting, Queued, Pending
  <1>6. QED
    BY <1>1, <1>2, <1>3, <1>4, <1>5 DEF p, Unfinished

(* What steps that release no parent leave of the counters. *)
LEMMA CountSame ==
  ASSUME CountExact, TypeOK', unsat' = unsat,
         \A c \in Tasks : ParentOf[c] # NoTask => (Outstanding(c)' <=> Outstanding(c))
  PROVE  CountExact'
  <1>1. ASSUME NEW t \in Tasks
        PROVE  {c \in Children(t) : Outstanding(c)}' = {c \in Children(t) : Outstanding(c)}
    BY PoolAssumption DEF Children
  <1>2. QED
    BY <1>1 DEF CountExact

-----------------------------------------------------------------------------
(* The queue. *)

LEMMA RingSame ==
  ASSUME UNCHANGED ringVars
  PROVE  /\ \A j : Slot(j)' = Slot(j) /\ At(j)' = At(j)
         /\ Waiting' = Waiting /\ count' = count /\ values' = values
  BY DEF ringVars, Slot, At, Waiting, Ring!ReadSlot

LEMMA TasksSame ==
  ASSUME Queued, Entering, Asking, UNCHANGED <<unsat, ringVars, callVars, ran>>
  PROVE  Queued' /\ Entering' /\ Asking'
  <1>1. /\ UNCHANGED ringVars
        /\ UNCHANGED <<unsat, dpc, dtask, asked, accepted, ran>>
    BY DEF callVars
  <1>2. /\ \A j : Slot(j)' = Slot(j) /\ At(j)' = At(j)
        /\ Waiting' = Waiting /\ count' = count
    BY <1>1, RingSame
  <1>3. \A t : Pending(t)' <=> Pending(t)
    BY <1>1 DEF Pending
  <1>4. Unfinished' = Unfinished
    BY <1>1 DEF Unfinished
  <1>5. Queued'
    BY <1>2, <1>3 DEF Queued
  <1>6. Entering'
    BY <1>1, <1>2, <1>3 DEF Entering
  <1>7. Asking'
    BY <1>1, <1>4 DEF Asking
  <1>8. QED
    BY <1>5, <1>6, <1>7

(* A task that may run and is not in the queue enters it. *)
LEMMA EnqueueKeeps ==
  ASSUME TypeOK, Queued, NEW t \in Tasks, Pending(t), t \notin Waiting,
         Ring!Push(CopyOf(t)), UNCHANGED <<unsat, asked, ran>>
  PROVE  Queued' /\ Waiting' = Waiting \cup {t}
  <1>1. CopyOf(t) \in Copies /\ CopyOf(t).task = t /\ CopyOf(t).unsat = 0
    BY DEF CopyOf, Copies, TypeOK, Pending
  <1>2. /\ count \in Nat /\ count' = count + 1
        /\ At(1)' = CopyOf(t)
        /\ \A j \in 1 .. count : At(j + 1)' = At(j)
    BY <1>1, PushFacts, PoolAssumption DEF TypeOK
  <1>3. \A j \in 1 .. count' : j = 1 \/ (j - 1 \in 1 .. count /\ At(j)' = At(j - 1))
    <2> SUFFICES ASSUME NEW j \in 1 .. count', j # 1
                 PROVE  j - 1 \in 1 .. count /\ At(j)' = At(j - 1)
      OBVIOUS
    <2>1. j - 1 \in 1 .. count /\ (j - 1) + 1 = j
      BY <1>2, SMT
    <2>2. QED
      BY <1>2, <2>1
  <1>4. 1 \in 1 .. count' /\ \A j \in 1 .. count : j + 1 \in 1 .. count'
    BY <1>2, SMT
  <1>5. Waiting' = Waiting \cup {t}
    BY <1>1, <1>2, <1>3, <1>4 DEF Waiting
  <1>6. \A u : Pending(u)' <=> Pending(u)
    BY DEF Pending
  <1>7. ASSUME NEW j \in 1 .. count'
        PROVE  At(j)' \in Copies /\ At(j)'.unsat = 0 /\ Pending(At(j)'.task)
    BY <1>1, <1>2, <1>3 DEF Queued
  <1>8. ASSUME NEW i \in 1 .. count', NEW j \in 1 .. count', At(i)'.task = At(j)'.task
        PROVE  i = j
    <2>1. CASE i = 1 /\ j # 1
      <3>1. At(j)'.task \in Waiting /\ At(i)'.task = t
        BY <1>1, <1>2, <1>3, <2>1 DEF Waiting
      <3>2. QED
        BY <1>8, <3>1
    <2>2. CASE j = 1 /\ i # 1
      <3>1. At(i)'.task \in Waiting /\ At(j)'.task = t
        BY <1>1, <1>2, <1>3, <2>2 DEF Waiting
      <3>2. QED
        BY <1>8, <3>1
    <2>3. CASE i # 1 /\ j # 1
      <3>1. i - 1 = j - 1
        BY <1>3, <1>8, <2>3 DEF Queued
      <3>2. QED
        BY <1>2, <3>1, SMT
    <2>4. QED
      BY <2>1, <2>2, <2>3
  <1>9. QED
    BY <1>5, <1>6, <1>7, <1>8 DEF Queued

-----------------------------------------------------------------------------
LEMMA CounterRange == CounterMod \in Nat /\ 0 \in 0 .. CounterMod - 1
  BY SMT DEF CounterMod

LEMMA PoolInitially ==
  ASSUME Discipline
  PROVE  Init => PoolInv
  <1> SUFFICES ASSUME Init PROVE PoolInv
    OBVIOUS
  <1>1. \A t \in Tasks : {c \in Children(t) : Outstanding(c)} = Children(t)
    BY DEF Init, Children, Outstanding
  <1>2. \A t \in Tasks : Cardinality(Children(t)) \in 0 .. CounterMod - 1
    <2> SUFFICES ASSUME NEW t \in Tasks PROVE Cardinality(Children(t)) \in 0 .. CounterMod - 1
      OBVIOUS
    <2>1. Children(t) \in SUBSET Tasks
      BY DEF Children
    <2>2. Cardinality(Children(t)) \in Nat
      BY <2>1, FS_Subset, FS_CardinalityType DEF Discipline
    <2>3. Cardinality(Children(t)) < CounterMod
      BY DEF Discipline
    <2>4. QED
      BY <2>2, <2>3, CounterRange, SMT
  <1>3. TypeOK
    <2>1. 0 \in 0 .. Word - 1 /\ 0 \in 0 .. Capacity /\ 0 \in Ring!Slots
      BY PoolAssumption, SMT DEF Ring!Slots
    <2>2. /\ unsat \in [Tasks -> 0 .. CounterMod - 1]
          /\ values \in [Ring!Slots -> Copies \cup {Blank}]
          /\ wcount \in [Workers -> 0 .. Capacity]
          /\ wslot \in [Workers -> Ring!Slots]
      BY <1>2, <2>1 DEF Init
    <2>3. count \in 0 .. Capacity /\ windex \in 0 .. Word - 1
      BY <2>1 DEF Init
    <2>4. /\ dpc \in [Dispatchers -> {"idle", "enqueue"}]
          /\ dtask \in [Dispatchers -> Tasks \cup {NoTask}]
          /\ asked \subseteq Tasks /\ accepted \subseteq asked
      BY DEF Init
    <2>5. /\ wpc \in [Workers -> {"loop", "dequeue", "index", "store", "check", "call",
                                  "parent", "requeue", "exited"}]
          /\ wparent \in [Workers -> Tasks \cup {NoTask}]
      BY DEF Init
    <2>6. mustJoin \in BOOLEAN /\ owner \in {"running", "joining", "destroyed"}
      BY DEF Init
    <2>7. ran \in [Tasks -> 0 .. 2]
      BY DEF Init
    <2>8. QED
      BY <2>2, <2>3, <2>4, <2>5, <2>6, <2>7 DEF TypeOK
  <1>4. CountExact
    BY <1>1, <1>3 DEF Init, CountExact
  <1>5. Unfinished = {} /\ count = 0
    BY DEF Init, Unfinished
  <1>6. 1 .. count = {}
    BY <1>5, SMT
  <1>7. Queued /\ Entering
    BY <1>6 DEF Init, Queued, Entering
  <1>8. Taking /\ Releasing
    BY DEF Init, Taking, Releasing
  <1>9. Asking
    BY <1>5, PoolAssumption, FS_EmptySet DEF Init, Asking
  <1>10. QED
    BY <1>4, <1>7, <1>8, <1>9 DEF PoolInv

(* ms_thread_pool_dispatch: only a task without children goes further. *)
LEMMA BeginDispatchKeeps ==
  ASSUME Discipline, PoolInv, NEW d \in Dispatchers, NEW t \in Tasks, BeginDispatch(d, t)
  PROVE  PoolInv'
  <1>1. /\ dpc[d] = "idle" /\ t \notin asked /\ asked' = asked \cup {t}
        /\ Cardinality(Unfinished) < MaxInFlight
        /\ ParentOf[t] \in accepted \cup {NoTask}
        /\ UNCHANGED <<unsat, ringVars, workVars, mustJoin, owner, ran>>
    BY DEF BeginDispatch, MayDispatch, Discipline
  <1>2. \/ /\ unsat[t] = 0
           /\ dpc' = [dpc EXCEPT ![d] = "enqueue"] /\ dtask' = [dtask EXCEPT ![d] = t]
           /\ UNCHANGED accepted
        \/ accepted' = accepted \cup {t} /\ UNCHANGED <<dpc, dtask>>
    BY DEF BeginDispatch
  <1>3. /\ \A j : Slot(j)' = Slot(j) /\ At(j)' = At(j)
        /\ Waiting' = Waiting /\ count' = count /\ values' = values /\ windex' = windex
    BY <1>1, RingSame DEF ringVars
  <1>4. TypeOK /\ CountExact /\ Queued /\ Entering /\ Taking /\ Releasing /\ Asking
    BY DEF PoolInv, CountExact
  <1>5. /\ wpc' = wpc /\ wcount' = wcount /\ wslot' = wslot /\ wparent' = wparent
        /\ unsat' = unsat /\ ran' = ran /\ mustJoin' = mustJoin /\ owner' = owner
    BY <1>1 DEF workVars
  <1>6. TypeOK'
    BY <1>1, <1>2, <1>3, <1>4, <1>5 DEF TypeOK
  <1>7. \A w : Seen(w)' = Seen(w)
    BY <1>3, <1>5 DEF Seen
  <1>8. CountExact'
    BY <1>4, <1>5, <1>6, <1>7, CountSame DEF Outstanding
  <1>9. ran[t] = 0
    BY <1>1, <1>4 DEF Asking
  <1>10. t \notin Waiting
    BY <1>1, <1>4 DEF Waiting, Queued, Pending
  <1>11. \A u : Pending(u) => Pending(u)' /\ u # t
    BY <1>1, <1>5 DEF Pending
  <1>12. Queued'
    BY <1>3, <1>4, <1>11 DEF Queued
  <1>13. Entering'
    <2>1. CASE dpc' = dpc /\ dtask' = dtask
      BY <1>3, <1>4, <1>11, <2>1 DEF Entering
    <2>2. CASE /\ unsat[t] = 0
               /\ dpc' = [dpc EXCEPT ![d] = "enqueue"] /\ dtask' = [dtask EXCEPT ![d] = t]
      <3>1. Children(t) = {}
        <4>1. ASSUME NEW c \in Children(t) PROVE FALSE
          <5>1. ~ Outstanding(c) /\ c \in Tasks /\ ParentOf[c] = t
            BY <1>4, <2>2, NoneOutstanding DEF Children
          <5>2. c \in asked
            BY <1>4, <5>1 DEF Outstanding, Asking
          <5>3. QED
            BY <1>1, <1>4, <5>1, <5>2, PoolAssumption DEF Asking
        <4>2. QED
          BY <4>1
      <3>2. Pending(t)'
        BY <1>1, <1>5, <1>9, <2>2 DEF Pending
      <3>3. /\ dpc'[d] = "enqueue" /\ dtask'[d] = t
            /\ \A e \in Dispatchers : e # d => dpc'[e] = dpc[e] /\ dtask'[e] = dtask[e]
        BY <1>4, <2>2 DEF TypeOK
      <3>4. QED
        BY <1>3, <1>4, <1>10, <1>11, <3>1, <3>2, <3>3 DEF Entering
    <2>3. QED
      BY <1>2, <2>1, <2>2
  <1>14. Taking'
    <2>1. ASSUME NEW e \in Dispatchers, dpc'[e] = "enqueue"
          PROVE  dtask'[e] = t \/ (dpc[e] = "enqueue" /\ dtask'[e] = dtask[e])
      BY <1>2, <1>4, <2>1 DEF TypeOK
    <2>2. \A w : Behind(w)' <=> Behind(w)
      BY <1>3, <1>5, <1>7 DEF Behind
    <2>3. QED
      BY <1>3, <1>4, <1>5, <1>7, <1>11, <2>1, <2>2 DEF Taking
  <1>15. Releasing'
    BY <1>3, <1>4, <1>5, <1>7, <1>11 DEF Releasing, Behind
  <1>16. Asking'
    <2>1. Unfinished' = Unfinished \cup {t} /\ t \notin Unfinished
      BY <1>1, <1>5, <1>9 DEF Unfinished
    <2>2. IsFiniteSet(Unfinished) /\ Cardinality(Unfinished) \in Nat
      BY <1>4, UnfinishedFinite
    <2>3. Cardinality(Unfinished') = Cardinality(Unfinished) + 1
      BY <2>1, <2>2, FS_AddElement
    <2>4. Cardinality(Unfinished') <= MaxInFlight
      BY <1>1, <2>2, <2>3, PoolAssumption, SMT
    <2>5. \A c \in asked' : ParentOf[c] \in asked' \cup {NoTask}
      BY <1>1, <1>4 DEF Asking, TypeOK
    <2>6. QED
      BY <1>1, <1>4, <1>5, <2>4, <2>5 DEF Asking
  <1>17. QED
    BY <1>8, <1>12, <1>13, <1>14, <1>15, <1>16 DEF PoolInv

(***************************************************************************)
(* The dispatcher's enqueue.  When it fills the queue the worker, if it is *)
(* still to release a parent, finds another task in its slot: then neither *)
(* this one nor its own has a parent.                                      *)
(***************************************************************************)
LEMMA FinishDispatchKeeps ==
  ASSUME Discipline, PoolInv, NEW d \in Dispatchers, FinishDispatch(d)
  PROVE  PoolInv'
  <1> DEFINE t == dtask[d]
  <1>1. TypeOK /\ CountExact /\ Queued /\ Entering /\ Taking /\ Releasing /\ Asking
    BY DEF PoolInv, CountExact
  <1>2. /\ dpc[d] = "enqueue" /\ NoReader
        /\ UNCHANGED <<unsat, workVars, mustJoin, owner, ran>>
        /\ dpc' = [dpc EXCEPT ![d] = "idle"]
        /\ dtask' = [dtask EXCEPT ![d] = NoTask]
    BY DEF FinishDispatch
  <1>3. /\ t \in Tasks /\ Pending(t) /\ t \notin Waiting /\ Children(t) = {}
        /\ \A e \in Dispatchers : dpc[e] = "enqueue" /\ dtask[e] = t => e = d
    BY <1>1, <1>2 DEF Entering
  <1>4. t \in Unfinished
    BY <1>3 DEF Pending, Unfinished
  <1>5. count < Capacity
    BY <1>1, <1>3, <1>4, RoomForOne
  <1>6. /\ Ring!Push(CopyOf(t)) /\ accepted' = accepted \cup {t} /\ asked' = asked
    BY <1>5 DEF FinishDispatch, EnqueueTask
  <1>7. /\ wpc' = wpc /\ wcount' = wcount /\ wslot' = wslot /\ wparent' = wparent
        /\ unsat' = unsat /\ ran' = ran /\ mustJoin' = mustJoin /\ owner' = owner
    BY <1>2 DEF workVars
  <1>8. Queued' /\ Waiting' = Waiting \cup {t}
    BY <1>1, <1>3, <1>6, <1>7, EnqueueKeeps
  <1>9. CopyOf(t) \in Copies /\ CopyOf(t).task = t
    BY <1>1, <1>3 DEF CopyOf, Copies, TypeOK
  <1>10. /\ count' = count + 1 /\ count \in 0 .. Capacity /\ count' \in 0 .. Capacity
         /\ windex' \in 0 .. Word - 1
         /\ values' \in [Ring!Slots -> Copies \cup {Blank}]
         /\ Slot(count + 1)' = Slot(count + 1)
         /\ count' < Capacity => values'[Slot(count + 1)] = values[Slot(count + 1)]
         /\ ~ (count' < Capacity) => count' = Capacity /\ values'[Slot(count + 1)] = CopyOf(t)
    <2>1. /\ count' = count + 1 /\ count \in 0 .. Capacity
          /\ windex' \in 0 .. Word - 1
          /\ values' \in [Ring!Slots -> Copies \cup {Blank}]
          /\ \A j \in Int : Slot(j + 1)' = Slot(j)
          /\ count + 1 < Capacity => values'[Slot(count + 1)] = values[Slot(count + 1)]
          /\ count + 1 = Capacity => values'[Slot(count + 1)] = CopyOf(t)
      BY <1>1, <1>6, <1>9, PushFacts DEF TypeOK
    <2>2. /\ count' \in 0 .. Capacity /\ count' \in Int
          /\ ~ (count' < Capacity) => count' = Capacity
      BY <1>5, <2>1, PoolAssumption, SMT
    <2>3. Slot(count + 1)' = Slot(count + 1)
      BY <2>1, <2>2
    <2>4. QED
      BY <2>1, <2>2, <2>3
  <1> HIDE DEF t
  <1>11. TypeOK'
    <2>1. t \in asked
      BY <1>3 DEF Pending
    <2>2. QED
      BY <1>1, <1>2, <1>6, <1>7, <1>10, <2>1 DEF TypeOK
  <1>12. \A u : Pending(u)' <=> Pending(u)
    BY <1>6, <1>7 DEF Pending
  <1>13. Unfinished' = Unfinished
    BY <1>6, <1>7 DEF Unfinished
  <1>14. Asking'
    BY <1>1, <1>6, <1>7, <1>13 DEF Asking
  <1>15. ASSUME NEW e \in Dispatchers, dpc'[e] = "enqueue"
         PROVE  e # d /\ dpc[e] = "enqueue" /\ dtask'[e] = dtask[e] /\ dtask[e] # t
    BY <1>1, <1>2, <1>3, <1>15 DEF TypeOK
  <1>16. Entering'
    BY <1>1, <1>8, <1>12, <1>15 DEF Entering
  <1>17. ASSUME NEW w \in Workers, Behind(w), count' < Capacity
         PROVE  Behind(w)' /\ Seen(w)' = Seen(w)
    BY <1>7, <1>10, <1>17 DEF Behind, Seen
  <1>18. ASSUME NEW w \in Workers, Behind(w), ~ (count' < Capacity)
         PROVE  Seen(w)' = CopyOf(t)
    BY <1>7, <1>10, <1>18 DEF Behind, Seen
  <1>19. ASSUME NEW w \in Workers, Behind(w), NEW u \in Unfinished, u \notin Waiting, u # t
         PROVE  count' < Capacity
    <2>1. count + 1 < Capacity
      BY <1>1, <1>3, <1>4, <1>19, RoomForTwo
    <2>2. QED
      BY <1>10, <2>1
  <1>20. Taking'
    <2>1. \A w \in Workers : wpc'[w] \notin {"index", "store"}
      BY <1>2, <1>7 DEF NoReader
    <2>2. ASSUME NEW w \in Workers, wpc[w] \in {"check", "call"}
          PROVE  /\ Behind(w)' /\ Seen(w)'.unsat = 0
                 /\ Pending(Seen(w).task)' /\ Seen(w)'.task \notin Waiting'
                 /\ \A e \in Dispatchers : dpc'[e] = "enqueue" => dtask'[e] # Seen(w)'.task
      <3>1. /\ Behind(w) /\ Seen(w).unsat = 0
            /\ Pending(Seen(w).task) /\ Seen(w).task \notin Waiting
            /\ \A e \in Dispatchers : dpc[e] = "enqueue" => dtask[e] # Seen(w).task
        BY <1>1, <2>2 DEF Taking
      <3>2. Seen(w).task \in Unfinished /\ Seen(w).task # t
        BY <1>2, <3>1 DEF Pending, Unfinished, t
      <3>3. count' < Capacity
        BY <1>19, <3>1, <3>2
      <3>4. Behind(w)' /\ Seen(w)' = Seen(w)
        BY <1>17, <3>1, <3>3
      <3>5. QED
        BY <1>8, <1>12, <1>15, <3>1, <3>2, <3>4
    <2>3. QED
      BY <1>7, <2>1, <2>2 DEF Taking
  <1>21. ASSUME NEW w \in Workers, wpc[w] = "parent", Behind(w), ran[Seen(w).task] = 1
         PROVE  \/ Behind(w)' /\ Seen(w)' = Seen(w)
                \/ /\ count' = Capacity /\ Seen(w)' = CopyOf(t) /\ ran[t] = 0
                   /\ ParentOf[Seen(w).task] = NoTask
    <2>1. CASE count' < Capacity
      BY <1>17, <1>21, <2>1
    <2>2. CASE ~ (count' < Capacity)
      <3> DEFINE c == Seen(w).task
      <3>1. count' = Capacity /\ Seen(w)' = CopyOf(t) /\ ran[t] = 0
        BY <1>3, <1>10, <1>18, <1>21, <2>2 DEF Pending
      <3>2. c \in Tasks /\ c \in asked /\ Outstanding(c)
        BY <1>1, <1>21 DEF Behind, Copies, Asking, Outstanding
      <3> HIDE DEF c
      <3>3. ParentOf[c] = NoTask
        <4> SUFFICES ASSUME ParentOf[c] # NoTask PROVE FALSE
          OBVIOUS
        <4>1. /\ ParentOf[c] \in Unfinished /\ ParentOf[c] \notin Waiting
              /\ Children(ParentOf[c]) # {}
          BY <1>1, <3>2, ParentOutside
        <4>2. ParentOf[c] # t
          BY <1>3, <4>1
        <4>3. QED
          BY <1>19, <1>21, <2>2, <4>1, <4>2
      <3>4. QED
        BY <3>1, <3>3 DEF c
    <2>3. QED
      BY <2>1, <2>2
  <1>22. ASSUME NEW w \in Workers, wpc[w] = "parent", count = Capacity PROVE FALSE
    BY <1>5, <1>22, PoolAssumption, SMT
  <1>23. Releasing'
    <2>1. ASSUME NEW w \in Workers, wpc[w] = "parent"
          PROVE  \/ Behind(w)' /\ ran'[Seen(w)'.task] = 1
                 \/ count' = Capacity /\ Seen(w)' \in Copies /\ Seen(w)'.task \in Waiting'
      <3>1. Behind(w) /\ ran[Seen(w).task] = 1
        BY <1>1, <1>22, <2>1 DEF Releasing
      <3>2. QED
        BY <1>7, <1>8, <1>9, <1>21, <2>1, <3>1
    <2>2. ASSUME NEW w \in Workers, wpc[w] = "requeue"
          PROVE  /\ Behind(w)' /\ ParentOf[Seen(w)'.task] = wparent'[w]
                 /\ wparent'[w] \in Tasks /\ Pending(wparent[w])' /\ wparent'[w] \notin Waiting'
                 /\ Children(wparent'[w]) # {}
      <3>1. /\ Behind(w) /\ ParentOf[Seen(w).task] = wparent[w]
            /\ wparent[w] \in Tasks /\ Pending(wparent[w]) /\ wparent[w] \notin Waiting
            /\ Children(wparent[w]) # {}
        BY <1>1, <2>2 DEF Releasing
      <3>2. wparent[w] \in Unfinished /\ wparent[w] # t
        BY <1>3, <3>1 DEF Pending, Unfinished
      <3>3. count' < Capacity
        BY <1>19, <3>1, <3>2
      <3>4. Behind(w)' /\ Seen(w)' = Seen(w)
        BY <1>17, <3>1, <3>3
      <3>5. QED
        BY <1>7, <1>8, <1>12, <3>1, <3>2, <3>4
    <2>3. QED
      BY <1>7, <2>1, <2>2 DEF Releasing
  <1>24. ASSUME NEW c \in Tasks, ParentOf[c] # NoTask
         PROVE  Outstanding(c)' <=> Outstanding(c)
    <2>1. CASE ran[c] = 0
      BY <1>7, <2>1 DEF Outstanding
    <2>2. CASE ran[c] # 0
      <3>1. ASSUME NEW w \in Workers, wpc[w] = "parent"
            PROVE  Seen(w)'.task = c <=> Seen(w).task = c
        <4>1. Behind(w) /\ ran[Seen(w).task] = 1
          BY <1>1, <1>22, <3>1 DEF Releasing
        <4>2. QED
          BY <1>9, <1>21, <1>24, <2>2, <3>1, <4>1
      <3>2. QED
        BY <1>7, <3>1 DEF Outstanding
    <2>3. QED
      BY <2>1, <2>2
  <1>25. CountExact'
    BY <1>1, <1>7, <1>11, <1>24, CountSame
  <1>26. QED
    BY <1>8, <1>14, <1>16, <1>20, <1>23, <1>25 DEF PoolInv

-----------------------------------------------------------------------------
(* thread_main.  Steps that touch neither the tasks nor the queue: what is *)
(* left to show of them is where the worker then stands.                   *)

LEMMA WorkerMoves ==
  ASSUME PoolInv, NEW w \in Workers, UNCHANGED <<unsat, ringVars, callVars>>
  PROVE  /\ TypeOK /\ CountExact /\ Queued /\ Entering /\ Taking /\ Releasing /\ Asking
         /\ UNCHANGED <<unsat, count, windex, values, dpc, dtask, asked, accepted>>
         /\ \A j : Slot(j)' = Slot(j)
         /\ Waiting' = Waiting
         /\ wslot' = wslot => \A v : (Behind(v)' <=> Behind(v)) /\ Seen(v)' = Seen(v)
         /\ ran' = ran => Queued' /\ Entering' /\ Asking' /\ \A t : Pending(t)' <=> Pending(t)
  <1>1. TypeOK /\ CountExact /\ Queued /\ Entering /\ Taking /\ Releasing /\ Asking
    BY DEF PoolInv, CountExact
  <1>2. UNCHANGED <<unsat, count, windex, values, dpc, dtask, asked, accepted>>
    BY DEF ringVars, callVars
  <1>3. (\A j : Slot(j)' = Slot(j)) /\ Waiting' = Waiting
    BY RingSame
  <1>4. ASSUME wslot' = wslot
        PROVE  \A v : (Behind(v)' <=> Behind(v)) /\ Seen(v)' = Seen(v)
    BY <1>2, <1>3, <1>4 DEF Behind, Seen
  <1>5. ASSUME ran' = ran
        PROVE  Queued' /\ Entering' /\ Asking' /\ \A t : Pending(t)' <=> Pending(t)
    BY <1>1, <1>2, <1>5, TasksSame DEF Pending
  <1>6. QED
    BY <1>1, <1>2, <1>3, <1>4, <1>5

LEMMA LoopHeadKeeps ==
  ASSUME Discipline, PoolInv, NEW w \in Workers, LoopHead(w)
  PROVE  PoolInv'
  <1>1. /\ wpc[w] = "loop" /\ wpc' = [wpc EXCEPT ![w] = IF mustJoin THEN "exited" ELSE "dequeue"]
        /\ UNCHANGED <<unsat, ringVars, callVars, wcount, wslot, wparent, mustJoin, owner, ran>>
    BY DEF LoopHead, Goto
  <1>2. /\ TypeOK /\ CountExact /\ Queued /\ Entering /\ Taking /\ Releasing /\ Asking
        /\ UNCHANGED <<unsat, count, windex, values, dpc, dtask, asked, accepted>>
        /\ \A j : Slot(j)' = Slot(j)
        /\ Waiting' = Waiting
        /\ \A v : (Behind(v)' <=> Behind(v)) /\ Seen(v)' = Seen(v)
        /\ Queued' /\ Entering' /\ Asking' /\ \A t : Pending(t)' <=> Pending(t)
    BY <1>1, WorkerMoves
  <1>3. \A v \in Workers : wpc'[v] = wpc[v] \/ wpc'[v] \in {"exited", "dequeue"}
    BY <1>1, <1>2 DEF TypeOK
  <1>4. TypeOK'
    BY <1>1, <1>2 DEF TypeOK
  <1>5. \A v \in Workers : wpc'[v] = "parent" <=> wpc[v] = "parent"
    BY <1>1, <1>2 DEF TypeOK
  <1>6. CountExact'
    BY <1>1, <1>2, <1>4, <1>5, CountSame DEF Outstanding
  <1>7. Taking' /\ Releasing'
    BY <1>1, <1>2, <1>3 DEF Taking, Releasing
  <1>8. QED
    BY <1>2, <1>6, <1>7 DEF PoolInv

LEMMA DequeueCheckKeeps ==
  ASSUME Discipline, PoolInv, NEW w \in Workers, DequeueCheck(w)
  PROVE  PoolInv'
  <1>1. /\ wpc[w] = "dequeue" /\ wpc' = [wpc EXCEPT ![w] = IF count > 0 THEN "index" ELSE "loop"]
        /\ wcount' = [wcount EXCEPT ![w] = count]
        /\ UNCHANGED <<unsat, ringVars, callVars, wslot, wparent, mustJoin, owner, ran>>
    BY DEF DequeueCheck, Goto
  <1>2. /\ TypeOK /\ CountExact /\ Queued /\ Entering /\ Taking /\ Releasing /\ Asking
        /\ UNCHANGED <<unsat, count, windex, values, dpc, dtask, asked, accepted>>
        /\ \A j : Slot(j)' = Slot(j)
        /\ Waiting' = Waiting
        /\ \A v : (Behind(v)' <=> Behind(v)) /\ Seen(v)' = Seen(v)
        /\ Queued' /\ Entering' /\ Asking' /\ \A t : Pending(t)' <=> Pending(t)
    BY <1>1, WorkerMoves
  <1>3. \A v \in Workers : v = w
    BY DEF Discipline
  <1>4. /\ wcount'[w] = count
        /\ (wpc'[w] = "index" /\ count > 0) \/ wpc'[w] = "loop"
    BY <1>1, <1>2 DEF TypeOK
  <1>5. TypeOK'
    <2>1. wpc' \in [Workers -> {"loop", "dequeue", "index", "store", "check", "call",
                                "parent", "requeue", "exited"}]
      BY <1>1, <1>2 DEF TypeOK
    <2>2. wcount' \in [Workers -> 0 .. Capacity]
      BY <1>1, <1>2 DEF TypeOK
    <2>3. QED
      BY <1>1, <1>2, <2>1, <2>2 DEF TypeOK
  <1>6. CountExact'
    BY <1>1, <1>2, <1>3, <1>4, <1>5, CountSame DEF Outstanding
  <1>7. Taking' /\ Releasing'
    BY <1>1, <1>2, <1>3, <1>4 DEF Taking, Releasing
  <1>8. QED
    BY <1>2, <1>6, <1>7 DEF PoolInv

(* No push comes between: both loads of count see the same. *)
LEMMA DequeueIndexKeeps ==
  ASSUME Discipline, PoolInv, NEW w \in Workers, DequeueIndex(w)
  PROVE  PoolInv'
  <1>1. /\ wpc[w] = "index" /\ wpc' = [wpc EXCEPT ![w] = "store"]
        /\ \E c \in {wcount[w], count} : wslot' = [wslot EXCEPT ![w] = Slot(c)]
        /\ UNCHANGED <<unsat, ringVars, callVars, wcount, wparent, mustJoin, owner, ran>>
    BY DEF DequeueIndex, Goto, Slot
  <1>2. /\ TypeOK /\ CountExact /\ Queued /\ Entering /\ Taking /\ Releasing /\ Asking
        /\ UNCHANGED <<unsat, count, windex, values, dpc, dtask, asked, accepted>>
        /\ \A j : Slot(j)' = Slot(j)
        /\ Waiting' = Waiting
        /\ Queued' /\ Entering' /\ Asking'
    BY <1>1, WorkerMoves
  <1>3. \A v \in Workers : v = w
    BY DEF Discipline
  <1>4. count > 0 /\ wcount[w] = count
    BY <1>1, <1>2 DEF Taking
  <1>5. wslot' = [wslot EXCEPT ![w] = Slot(count)]
    BY <1>1, <1>4
  <1>6. Slot(count) \in Ring!Slots
    BY <1>2, SlotFacts DEF TypeOK
  <1>7. wpc'[w] = "store" /\ wslot'[w] = Slot(count)
    BY <1>1, <1>2, <1>5 DEF TypeOK
  <1>8. TypeOK'
    <2>1. wpc' \in [Workers -> {"loop", "dequeue", "index", "store", "check", "call",
                                "parent", "requeue", "exited"}]
      BY <1>1, <1>2 DEF TypeOK
    <2>2. wslot' \in [Workers -> Ring!Slots]
      BY <1>2, <1>5, <1>6 DEF TypeOK
    <2>3. QED
      BY <1>1, <1>2, <2>1, <2>2 DEF TypeOK
  <1>9. CountExact'
    <2>1. \A c : Outstanding(c)' <=> Outstanding(c)
      BY <1>1, <1>3, <1>7 DEF Outstanding
    <2>2. QED
      BY <1>2, <1>8, <2>1, CountSame
  <1>10. Taking' /\ Releasing'
    BY <1>1, <1>2, <1>3, <1>4, <1>7 DEF Taking, Releasing
  <1>11. QED
    BY <1>2, <1>9, <1>10 DEF PoolInv

(* The oldest task leaves the queue; its slot is now the one behind it. *)
LEMMA DequeueStoreKeeps ==
  ASSUME Discipline, PoolInv, NEW w \in Workers, DequeueStore(w)
  PROVE  PoolInv'
  <1>1. /\ wpc[w] = "store" /\ wpc' = [wpc EXCEPT ![w] = "check"]
        /\ \E c \in {wcount[w], count} : count' = Ring!UInt32(c - 1)
        /\ UNCHANGED <<unsat, windex, values, callVars, wcount, wslot, wparent, mustJoin, owner, ran>>
    BY DEF DequeueStore, Goto
  <1>2. TypeOK /\ CountExact /\ Queued /\ Entering /\ Taking /\ Releasing /\ Asking
    BY DEF PoolInv, CountExact
  <1>3. UNCHANGED <<unsat, windex, values, dpc, dtask, asked, accepted, wcount, wslot,
                    wparent, mustJoin, owner, ran>>
    BY <1>1 DEF callVars
  <1>4. \A v \in Workers : v = w
    BY DEF Discipline
  <1>5. count > 0 /\ wcount[w] = count /\ wslot[w] = Slot(count)
    BY <1>1, <1>2 DEF Taking
  <1>6. /\ count' = count - 1 /\ count \in 1 .. count /\ count' \in 0 .. Capacity
        /\ count' < Capacity /\ count' + 1 = count
        /\ \A j \in 1 .. count' : j \in 1 .. count /\ j # count
        /\ \A j \in 1 .. count : j = count \/ j \in 1 .. count'
    <2>1. Capacity <= Word
      <3>1. /\ Word \div Capacity \in Int
            /\ Word % Capacity \in 0 .. Capacity - 1
            /\ Word = Capacity * (Word \div Capacity) + (Word % Capacity)
        BY PoolAssumption, DivMod
      <3> DEFINE q == Word \div Capacity
      <3>2. q \in Int /\ Word = Capacity * q
        BY <3>1, PoolAssumption, SMT
      <3> HIDE DEF q
      <3>3. q >= 1
        BY <3>2, PoolAssumption, SMT
      <3>4. QED
        BY <3>2, <3>3, PoolAssumption, SMT
    <2>2. count' = (count - 1) % Word
      BY <1>1, <1>5 DEF Ring!UInt32
    <2>3. count \in 0 .. Capacity
      BY <1>2 DEF TypeOK
    <2>4. (count - 1) % Word = count - 1
      BY <1>5, <2>1, <2>3, PoolAssumption, SMT
    <2>5. QED
      BY <1>5, <2>2, <2>3, <2>4, PoolAssumption, SMT
  <1>7. \A j : Slot(j)' = Slot(j) /\ At(j)' = At(j)
    BY <1>3 DEF Slot, At, Ring!ReadSlot
  <1>8. \A t : Pending(t)' <=> Pending(t)
    BY <1>3 DEF Pending
  <1>9. wpc'[w] = "check" /\ Seen(w)' = At(count) /\ Slot(count + 1)' = Slot(count)
    BY <1>1, <1>2, <1>3, <1>5, <1>6, <1>7 DEF TypeOK, Seen, At
  <1>10. At(count).task \notin Waiting' /\ Waiting' \subseteq Waiting /\ At(count).task \in Waiting
    BY <1>2, <1>6, <1>7 DEF Waiting, Queued
  <1>11. TypeOK'
    <2>1. wpc' \in [Workers -> {"loop", "dequeue", "index", "store", "check", "call",
                                "parent", "requeue", "exited"}]
      BY <1>1, <1>2 DEF TypeOK
    <2>2. QED
      BY <1>2, <1>3, <1>6, <2>1 DEF TypeOK
  <1>12. Queued'
    BY <1>2, <1>6, <1>7, <1>8 DEF Queued
  <1>13. Entering'
    BY <1>2, <1>3, <1>8, <1>10 DEF Entering
  <1>14. Asking'
    BY <1>2, <1>3 DEF Asking, Unfinished
  <1>15. CountExact'
    <2>1. \A c : Outstanding(c)' <=> Outstanding(c)
      BY <1>1, <1>3, <1>4, <1>9 DEF Outstanding
    <2>2. QED
      BY <1>2, <1>3, <1>11, <2>1, CountSame
  <1>16. Behind(w)'
    <2>1. At(count) \in Copies
      BY <1>2, <1>6 DEF Queued
    <2>2. wslot'[w] = Slot(count + 1)'
      BY <1>3, <1>5, <1>9
    <2>3. QED
      BY <1>6, <1>9, <2>1, <2>2 DEF Behind
  <1>17. Taking' /\ Releasing'
    <2>1. At(count).unsat = 0 /\ Pending(At(count).task)
      BY <1>2, <1>6 DEF Queued
    <2>2. \A d \in Dispatchers : dpc[d] = "enqueue" => dtask[d] # At(count).task
      BY <1>2, <1>10 DEF Entering
    <2>3. QED
      BY <1>3, <1>4, <1>8, <1>9, <1>10, <1>16, <2>1, <2>2 DEF Taking, Releasing
  <1>18. QED
    BY <1>12, <1>13, <1>14, <1>15, <1>17 DEF PoolInv

LEMMA CheckUnsatisfiedKeeps ==
  ASSUME Discipline, PoolInv, NEW w \in Workers, CheckUnsatisfied(w)
  PROVE  PoolInv'
  <1>1. /\ wpc[w] = "check"
        /\ wpc' = [wpc EXCEPT ![w] = IF Seen(w) = Blank THEN "lost"
                                     ELSE IF Seen(w).unsat = 0 THEN "call" ELSE "loop"]
        /\ UNCHANGED <<unsat, ringVars, callVars, wcount, wslot, wparent, mustJoin, owner, ran>>
    BY DEF CheckUnsatisfied, Goto
  <1>2. /\ TypeOK /\ CountExact /\ Queued /\ Entering /\ Taking /\ Releasing /\ Asking
        /\ UNCHANGED <<unsat, count, windex, values, dpc, dtask, asked, accepted>>
        /\ \A j : Slot(j)' = Slot(j)
        /\ Waiting' = Waiting
        /\ \A v : (Behind(v)' <=> Behind(v)) /\ Seen(v)' = Seen(v)
        /\ Queued' /\ Entering' /\ Asking' /\ \A t : Pending(t)' <=> Pending(t)
    BY <1>1, WorkerMoves
  <1>3. \A v \in Workers : v = w
    BY DEF Discipline
  <1>4. Seen(w) # Blank /\ Seen(w).unsat = 0
    <2>1. Seen(w) \in Copies /\ Seen(w).unsat = 0
      BY <1>1, <1>2 DEF Taking, Behind
    <2>2. Seen(w).task \in Tasks /\ Blank.task = NoTask
      BY <2>1 DEF Copies, Blank
    <2>3. QED
      BY <2>1, <2>2, PoolAssumption
  <1>5. wpc' = [wpc EXCEPT ![w] = "call"]
    BY <1>1, <1>4
  <1>6. wpc'[w] = "call"
    BY <1>2, <1>5 DEF TypeOK
  <1>7. TypeOK'
    BY <1>1, <1>2, <1>5 DEF TypeOK
  <1>8. CountExact'
    BY <1>1, <1>2, <1>3, <1>6, <1>7, CountSame DEF Outstanding
  <1>9. Taking' /\ Releasing'
    BY <1>1, <1>2, <1>3, <1>6 DEF Taking, Releasing
  <1>10. QED
    BY <1>2, <1>8, <1>9 DEF PoolInv

(* The handler runs: its task is finished, and its parent still to release. *)
LEMMA CallHandlerKeeps ==
  ASSUME Discipline, PoolInv, NEW w \in Workers, CallHandler(w)
  PROVE  PoolInv'
  <1> DEFINE t == Seen(w).task
  <1>1. /\ wpc[w] = "call" /\ wpc' = [wpc EXCEPT ![w] = "parent"]
        /\ ran' = [ran EXCEPT ![t] = IF @ < 2 THEN @ + 1 ELSE @]
        /\ UNCHANGED <<unsat, ringVars, callVars, wcount, wslot, wparent, mustJoin, owner>>
    BY DEF CallHandler, Goto
  <1>2. /\ TypeOK /\ CountExact /\ Queued /\ Entering /\ Taking /\ Releasing /\ Asking
        /\ UNCHANGED <<unsat, count, windex, values, dpc, dtask, asked, accepted>>
        /\ \A j : Slot(j)' = Slot(j)
        /\ Waiting' = Waiting
        /\ \A v : (Behind(v)' <=> Behind(v)) /\ Seen(v)' = Seen(v)
    BY <1>1, WorkerMoves
  <1>3. \A v \in Workers : v = w
    BY DEF Discipline
  <1>4. /\ Behind(w) /\ Pending(t) /\ t \notin Waiting
        /\ \A d \in Dispatchers : dpc[d] = "enqueue" => dtask[d] # t
    BY <1>1, <1>2 DEF Taking
  <1>5. t \in Tasks /\ ran[t] = 0 /\ t \in asked /\ unsat[t] = 0 /\ t = Seen(w).task
    BY <1>4 DEF Behind, Copies, Pending
  <1> HIDE DEF t
  <1>6. /\ ran' = [ran EXCEPT ![t] = 1] /\ ran'[t] = 1
        /\ \A u \in Tasks : u # t => ran'[u] = ran[u]
    BY <1>1, <1>2, <1>5 DEF TypeOK
  <1>7. wpc'[w] = "parent"
    BY <1>1, <1>2 DEF TypeOK
  <1>8. TypeOK'
    <2>1. wpc' \in [Workers -> {"loop", "dequeue", "index", "store", "check", "call",
                                "parent", "requeue", "exited"}]
      BY <1>1, <1>2 DEF TypeOK
    <2>2. ran' \in [Tasks -> 0 .. 2]
      BY <1>2, <1>5, <1>6 DEF TypeOK
    <2>3. QED
      BY <1>1, <1>2, <2>1, <2>2 DEF TypeOK
  <1>9. CountExact'
    <2>1. \A c \in Tasks : Outstanding(c)' <=> Outstanding(c)
      BY <1>1, <1>2, <1>3, <1>5, <1>6, <1>7 DEF Outstanding
    <2>2. QED
      BY <1>2, <1>8, <2>1, CountSame
  <1>10. \A u \in Tasks : u # t => (Pending(u)' <=> Pending(u))
    BY <1>2, <1>6 DEF Pending
  <1>11. Queued'
    <2>1. \A j \in 1 .. count : At(j) \in Copies /\ At(j).task \in Tasks /\ At(j).task # t
      BY <1>2, <1>4 DEF Queued, Waiting, Copies
    <2>2. \A j : At(j)' = At(j)
      BY <1>2 DEF At
    <2>3. QED
      BY <1>2, <1>10, <2>1, <2>2 DEF Queued
  <1>12. Entering'
    BY <1>2, <1>4, <1>10 DEF Entering
  <1>13. Taking' /\ Releasing'
    BY <1>2, <1>3, <1>4, <1>5, <1>6, <1>7 DEF Taking, Releasing
  <1>14. Asking'
    <2>1. Unfinished' \in SUBSET Unfinished
      BY <1>2, <1>5, <1>6 DEF Unfinished, TypeOK
    <2>2. IsFiniteSet(Unfinished) /\ Cardinality(Unfinished) \in Nat
      BY <1>2, UnfinishedFinite
    <2>3. Cardinality(Unfinished') \in Nat /\ Cardinality(Unfinished') <= Cardinality(Unfinished)
      BY <2>1, <2>2, FS_Subset, FS_CardinalityType
    <2>4. Cardinality(Unfinished') <= MaxInFlight
      BY <1>2, <2>2, <2>3, PoolAssumption, SMT DEF Asking
    <2>5. QED
      BY <1>2, <1>5, <1>6, <2>4 DEF Asking
  <1>15. QED
    BY <1>9, <1>11, <1>12, <1>13, <1>14 DEF PoolInv

(***************************************************************************)
(* The decrement of the parent's counter, through a slot that may have     *)
(* been overwritten: then there is no parent, and none is found.           *)
(***************************************************************************)
LEMMA ReleaseParentKeeps ==
  ASSUME Discipline, PoolInv, NEW w \in Workers, ReleaseParent(w)
  PROVE  PoolInv'
  <1> DEFINE c0 == Seen(w).task
             p == ParentOf[c0]
  <1>1. /\ wpc[w] = "parent"
        /\ UNCHANGED <<ringVars, callVars, wcount, wslot, mustJoin, owner, ran>>
    BY DEF ReleaseParent
  <1>2. /\ TypeOK /\ CountExact /\ Queued /\ Entering /\ Taking /\ Releasing /\ Asking
    BY DEF PoolInv, CountExact
  <1>3. /\ UNCHANGED <<count, windex, values, dpc, dtask, asked, accepted>>
        /\ \A j : Slot(j)' = Slot(j) /\ At(j)' = At(j)
        /\ Waiting' = Waiting
    BY <1>1, RingSame DEF ringVars, callVars
  <1>4. \A v : (Behind(v)' <=> Behind(v)) /\ Seen(v)' = Seen(v)
    BY <1>1, <1>3 DEF Behind, Seen
  <1>5. \A v \in Workers : v = w
    BY DEF Discipline
  <1>6. c0 \in Tasks /\ c0 \in asked
    BY <1>1, <1>2 DEF Releasing, Behind, Copies, Waiting, Queued, Pending, Asking
  <1>7. Unfinished' = Unfinished
    BY <1>1, <1>3 DEF Unfinished
  <1>8. CASE p = NoTask
    <2>1. wpc' = [wpc EXCEPT ![w] = "loop"] /\ unsat' = unsat /\ wparent' = wparent
      BY <1>8 DEF ReleaseParent, Goto
    <2>2. wpc'[w] = "loop"
      BY <1>2, <2>1 DEF TypeOK
    <2>3. TypeOK'
      BY <1>1, <1>2, <1>3, <2>1 DEF TypeOK
    <2>4. \A c \in Tasks : ParentOf[c] # NoTask => (Outstanding(c)' <=> Outstanding(c))
      BY <1>1, <1>5, <1>8, <2>2 DEF Outstanding
    <2>5. CountExact'
      BY <1>2, <2>1, <2>3, <2>4, CountSame
    <2>6. Queued' /\ Entering' /\ Asking'
      BY <1>1, <1>2, <2>1, TasksSame
    <2>7. Taking' /\ Releasing'
      BY <1>5, <2>2 DEF Taking, Releasing
    <2>8. QED
      BY <2>5, <2>6, <2>7 DEF PoolInv
  <1>9. CASE p # NoTask
    <2>1. unsat' = [unsat EXCEPT ![p] = (@ - 1) % CounterMod]
      BY <1>9 DEF ReleaseParent
    <2>2. IF unsat'[p] = 0
            THEN wpc' = [wpc EXCEPT ![w] = "requeue"] /\ wparent' = [wparent EXCEPT ![w] = p]
            ELSE wpc' = [wpc EXCEPT ![w] = "loop"] /\ UNCHANGED wparent
      BY <1>9 DEF ReleaseParent, Goto
    <2>3. Outstanding(c0)
      BY <1>1 DEF Outstanding
    <2>4. /\ p \in Unfinished /\ p \in Tasks /\ p \notin Waiting /\ unsat[p] # 0
          /\ Children(p) # {} /\ c0 \in Children(p)
      BY <1>2, <1>6, <1>9, <2>3, ParentOutside
    <2>5. count < Capacity
      BY <1>2, <2>4, RoomForOne
    <2>6. Behind(w) /\ ran[c0] = 1
      <3>1. count # Capacity
        BY <1>2, <2>5, PoolAssumption, SMT DEF TypeOK
      <3>2. QED
        BY <1>1, <1>2, <3>1 DEF Releasing
    <2> DEFINE S == {c \in Children(p) : Outstanding(c)}
    <2>7. c0 \in S /\ IsFiniteSet(S) /\ unsat[p] = Cardinality(S)
      BY <1>2, <2>3, <2>4, OutstandingFinite DEF CountExact
    <2>8. Cardinality(S \ {c0}) = unsat[p] - 1
      BY <2>7, FS_RemoveElement
    <2>9. unsat' = [unsat EXCEPT ![p] = unsat[p] - 1] /\ unsat[p] - 1 \in 0 .. CounterMod - 1
      <3>1. unsat[p] \in 0 .. CounterMod - 1
        BY <1>2, <2>4 DEF TypeOK
      <3>2. (unsat[p] - 1) % CounterMod = unsat[p] - 1 /\ unsat[p] - 1 \in 0 .. CounterMod - 1
        BY <2>4, <3>1, CounterRange, SMT
      <3>3. QED
        BY <2>1, <3>2
    <2>10. /\ unsat'[p] = unsat[p] - 1
           /\ \A u \in Tasks : u # p => unsat'[u] = unsat[u]
      BY <1>2, <2>4, <2>9 DEF TypeOK
    <2> HIDE DEF c0, p, S
    <2>11. \/ wpc'[w] = "requeue" /\ wparent'[w] = p /\ unsat'[p] = 0
           \/ wpc'[w] = "loop"
      BY <1>2, <2>2 DEF TypeOK
    <2>12. TypeOK'
      <3>1. wpc' \in [Workers -> {"loop", "dequeue", "index", "store", "check", "call",
                                  "parent", "requeue", "exited"}]
        BY <1>2, <2>2 DEF TypeOK
      <3>2. wparent' \in [Workers -> Tasks \cup {NoTask}]
        BY <1>2, <2>2, <2>4 DEF TypeOK
      <3>3. unsat' \in [Tasks -> 0 .. CounterMod - 1]
        BY <1>2, <2>9 DEF TypeOK
      <3>4. QED
        BY <1>1, <1>2, <1>3, <3>1, <3>2, <3>3 DEF TypeOK
    <2>13. \A c \in Tasks : Outstanding(c)' <=> Outstanding(c) /\ c # c0
      BY <1>1, <1>5, <2>6, <2>11 DEF Outstanding, c0
    <2>14. ASSUME NEW u \in Tasks
           PROVE  unsat'[u] = Cardinality({c \in Children(u) : Outstanding(c)}')
      <3>1. CASE u = p
        <4>1. {c \in Children(u) : Outstanding(c)}' = S \ {c0}
          BY <2>13, <3>1 DEF S, Children
        <4>2. QED
          BY <2>8, <2>10, <3>1, <4>1
      <3>2. CASE u # p
        <4>1. \A c \in Children(u) : c \in Tasks /\ c # c0
          BY <3>2 DEF Children, p
        <4>2. {c \in Children(u) : Outstanding(c)}' = {c \in Children(u) : Outstanding(c)}
          BY <2>13, <4>1 DEF Children
        <4>3. QED
          BY <1>2, <2>10, <3>2, <4>2 DEF CountExact
      <3>3. QED
        BY <3>1, <3>2
    <2>15. CountExact'
      BY <2>12, <2>14 DEF CountExact
    <2>16. \A u \in Tasks : u # p => (Pending(u)' <=> Pending(u))
      BY <1>1, <1>3, <2>10 DEF Pending
    <2>17. Queued'
      <3>1. \A j \in 1 .. count : At(j) \in Copies /\ At(j).task \in Tasks /\ At(j).task # p
        BY <1>2, <2>4 DEF Queued, Waiting, Copies
      <3>2. QED
        BY <1>2, <1>3, <2>16, <3>1 DEF Queued
    <2>18. Entering'
      BY <1>2, <1>3, <2>4, <2>16 DEF Entering
    <2>19. Taking'
      BY <1>5, <2>11 DEF Taking
    <2>20. Releasing'
      <3>1. ASSUME wpc'[w] = "requeue" PROVE Pending(wparent[w])' /\ wparent'[w] = p
        <4>1. wparent'[w] = p /\ unsat'[p] = 0
          BY <2>11, <3>1
        <4>2. p \in asked' /\ ran'[p] = 0
          BY <1>1, <1>3, <2>4 DEF Unfinished
        <4>3. QED
          BY <4>1, <4>2 DEF Pending
      <3>2. ParentOf[Seen(w)'.task] = p /\ p \notin Waiting'
        BY <1>3, <1>4, <2>4 DEF p, c0
      <3>3. Behind(w)' /\ wpc'[w] # "parent"
        BY <1>4, <2>6, <2>11
      <3>4. QED
        BY <1>5, <2>4, <3>1, <3>2, <3>3 DEF Releasing
    <2>21. Asking'
      <3>1. ran[p] = 0
        BY <2>4 DEF Unfinished
      <3>2. QED
        BY <1>1, <1>2, <1>3, <1>7, <2>10, <3>1 DEF Asking
    <2>22. QED
      BY <2>15, <2>17, <2>18, <2>19, <2>20, <2>21 DEF PoolInv
  <1>10. QED
    BY <1>8, <1>9

(* The last child enqueues its parent: there is room, and it is not lost. *)
LEMMA RequeueParentKeeps ==
  ASSUME Discipline, PoolInv, NEW w \in Workers, RequeueParent(w)
  PROVE  PoolInv'
  <1> DEFINE p == wparent[w]
  <1>1. /\ wpc[w] = "requeue"
        /\ wparent' = [wparent EXCEPT ![w] = NoTask]
        /\ UNCHANGED <<unsat, callVars, wcount, wslot, mustJoin, owner, ran>>
    BY DEF RequeueParent
  <1>2. /\ TypeOK /\ CountExact /\ Queued /\ Entering /\ Taking /\ Releasing /\ Asking
    BY DEF PoolInv, CountExact
  <1>3. UNCHANGED <<dpc, dtask, asked, accepted>>
    BY <1>1 DEF callVars
  <1>4. \A v \in Workers : v = w
    BY DEF Discipline
  <1>5. /\ Behind(w) /\ ParentOf[Seen(w).task] = p
        /\ p \in Tasks /\ Pending(p) /\ p \notin Waiting /\ Children(p) # {}
    BY <1>1, <1>2 DEF Releasing
  <1>6. p # NoTask
    BY <1>5, PoolAssumption
  <1>7. wpc' = [wpc EXCEPT ![w] = "loop"] /\ EnqueueTask(p)
    BY <1>5, <1>6 DEF RequeueParent, Goto
  <1> HIDE DEF p
  <1>8. count < Capacity
    BY <1>5 DEF Behind
  <1>9. Ring!Push(CopyOf(p))
    BY <1>7, <1>8 DEF EnqueueTask
  <1>10. Queued' /\ Waiting' = Waiting \cup {p}
    BY <1>1, <1>2, <1>3, <1>5, <1>9, EnqueueKeeps
  <1>11. CopyOf(p) \in Copies
    BY <1>2, <1>5 DEF CopyOf, Copies, TypeOK
  <1>12. /\ count' = count + 1 /\ windex' \in 0 .. Word - 1
         /\ values' \in [Ring!Slots -> Copies \cup {Blank}]
    BY <1>2, <1>9, <1>11, PushFacts
  <1>13. wpc'[w] = "loop"
    BY <1>2, <1>7 DEF TypeOK
  <1>14. TypeOK'
    <2>1. count' \in 0 .. Capacity
      BY <1>2, <1>8, <1>12, PoolAssumption, SMT DEF TypeOK
    <2>2. wpc' \in [Workers -> {"loop", "dequeue", "index", "store", "check", "call",
                                "parent", "requeue", "exited"}]
      BY <1>2, <1>7 DEF TypeOK
    <2>3. wparent' \in [Workers -> Tasks \cup {NoTask}]
      BY <1>1, <1>2 DEF TypeOK
    <2>4. QED
      BY <1>1, <1>2, <1>3, <1>12, <2>1, <2>2, <2>3 DEF TypeOK
  <1>15. CountExact'
    <2>1. \A c : Outstanding(c)' <=> Outstanding(c)
      BY <1>1, <1>4, <1>13 DEF Outstanding
    <2>2. QED
      BY <1>1, <1>2, <1>14, <2>1, CountSame
  <1>16. Entering'
    <2>1. \A u : Pending(u)' <=> Pending(u)
      BY <1>1, <1>3 DEF Pending
    <2>2. QED
      BY <1>2, <1>3, <1>5, <1>10, <2>1 DEF Entering
  <1>17. Taking' /\ Releasing'
    BY <1>4, <1>13 DEF Taking, Releasing
  <1>18. Asking'
    BY <1>1, <1>2, <1>3 DEF Asking, Unfinished
  <1>19. QED
    BY <1>10, <1>15, <1>16, <1>17, <1>18 DEF PoolInv

-----------------------------------------------------------------------------
(* ms_thread_pool_destroy touches nothing the invariant is about. *)
LEMMA OwnerKeeps ==
  ASSUME PoolInv, UNCHANGED <<unsat, ringVars, callVars, workVars, ran>>,
         mustJoin' \in BOOLEAN, owner' \in {"running", "joining", "destroyed"}
  PROVE  PoolInv'
  <1>1. /\ TypeOK /\ CountExact /\ Queued /\ Entering /\ Taking /\ Releasing /\ Asking
    BY DEF PoolInv, CountExact
  <1>2. /\ UNCHANGED <<unsat, count, windex, values, dpc, dtask, asked, accepted, ran>>
        /\ UNCHANGED <<wpc, wcount, wslot, wparent>>
    BY DEF ringVars, callVars, workVars
  <1>3. /\ \A j : Slot(j)' = Slot(j)
        /\ Waiting' = Waiting
    BY RingSame
  <1>4. Queued' /\ Entering' /\ Asking' /\ \A t : Pending(t)' <=> Pending(t)
    BY <1>1, <1>2, TasksSame DEF Pending
  <1>5. \A v : (Behind(v)' <=> Behind(v)) /\ Seen(v)' = Seen(v)
    BY <1>2, <1>3 DEF Behind, Seen
  <1>6. TypeOK'
    BY <1>1, <1>2 DEF TypeOK
  <1>7. CountExact'
    BY <1>1, <1>2, <1>5, <1>6, CountSame DEF Outstanding
  <1>8. Taking' /\ Releasing'
    BY <1>1, <1>2, <1>3, <1>4, <1>5 DEF Taking, Releasing
  <1>9. QED
    BY <1>4, <1>7, <1>8 DEF PoolInv

LEMMA PoolStepKeeps ==
  ASSUME Discipline
  PROVE  PoolInv /\ [Next]_vars => PoolInv'
  <1> SUFFICES ASSUME PoolInv, [Next]_vars PROVE PoolInv'
    OBVIOUS
  <1>1. ASSUME NEW d \in Dispatchers, NEW t \in Tasks, BeginDispatch(d, t) PROVE PoolInv'
    BY <1>1, BeginDispatchKeeps
  <1>2. ASSUME NEW d \in Dispatchers, FinishDispatch(d) PROVE PoolInv'
    BY <1>2, FinishDispatchKeeps
  <1>3. ASSUME NEW w \in Workers, WorkerStep(w) PROVE PoolInv'
    BY <1>3, LoopHeadKeeps, DequeueCheckKeeps, DequeueIndexKeeps, DequeueStoreKeeps,
       CheckUnsatisfiedKeeps, CallHandlerKeeps, ReleaseParentKeeps, RequeueParentKeeps
       DEF WorkerStep
  <1>4. CASE Destroy \/ JoinAll \/ UNCHANGED vars
    <2>1. mustJoin \in BOOLEAN /\ owner \in {"running", "joining", "destroyed"}
      BY DEF PoolInv, CountExact, TypeOK
    <2>2. UNCHANGED <<unsat, ringVars, callVars, workVars, ran>>
      BY <1>4 DEF Destroy, JoinAll, vars
    <2>3. mustJoin' \in BOOLEAN /\ owner' \in {"running", "joining", "destroyed"}
      BY <1>4, <2>1 DEF Destroy, JoinAll, vars
    <2>4. QED
      BY <2>2, <2>3, OwnerKeeps
  <1>5. QED
    BY <1>1, <1>2, <1>3, <1>4 DEF Next, Destroyed

(***************************************************************************)
(* With one worker, parents dispatched before their children and no more   *)
(* unfinished tasks than the queue has room for, whatever the capacity and *)
(* the tasks: ms_thread_pool runs no task twice (thread_main).             *)
(***************************************************************************)
THEOREM RunsOnce ==
  ASSUME Discipline
  PROVE  Spec => []AtMostOnce
  <1>1. PoolInv => AtMostOnce
    <2> SUFFICES ASSUME PoolInv, NEW t \in Tasks PROVE ran[t] <= 1
      BY DEF AtMostOnce
    <2>1. ran[t] = 0 \/ ran[t] = 1
      BY DEF PoolInv, Asking
    <2>2. QED
      BY <2>1
  <1>2. QED
    BY PoolInitially, PoolStepKeeps, <1>1, PTL DEF Spec

(***************************************************************************)
(* Under the same rules a task's handler starts only after the handlers of *)
(* all its children have returned.                                         *)
(***************************************************************************)
THEOREM Precedence ==
  ASSUME Discipline
  PROVE  Spec => []ChildrenFirst
  <1>1. PoolInv => ChildrenFirst
    <2> SUFFICES ASSUME PoolInv, NEW t \in Tasks, ran[t] > 0, NEW c \in Children(t)
                 PROVE  ran[c] > 0
      BY DEF ChildrenFirst
    <2>1. CountExact /\ c \in Tasks /\ unsat[t] = 0
      BY DEF PoolInv, Asking, Children
    <2>2. ran[c] # 0
      BY <2>1, NoneOutstanding DEF Outstanding
    <2>3. ran[c] \in 0 .. 2
      BY <2>1 DEF CountExact, TypeOK
    <2>4. QED
      BY <2>2, <2>3
  <1>2. QED
    BY PoolInitially, PoolStepKeeps, <1>1, PTL DEF Spec

(***************************************************************************)
(* And unsatisfied_dependencies is the number of children outstanding, the *)
(* queue's count never leaves its range, and no worker meets memory that   *)
(* was never written.                                                      *)
(***************************************************************************)
THEOREM Dependencies ==
  ASSUME Discipline
  PROVE  Spec => []CountExact
  <1>1. PoolInv => CountExact
    BY DEF PoolInv
  <1>2. QED
    BY PoolInitially, PoolStepKeeps, <1>1, PTL DEF Spec
=============================================================================
