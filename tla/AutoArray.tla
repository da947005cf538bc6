------------------------------ MODULE AutoArray ------------------------------
(***************************************************************************)
(* ms_autoarray (src/src/containers/auto-array.c): an array that doubles   *)
(* its capacity when an append finds it full.                              *)
(***************************************************************************)
EXTENDS Naturals, Sequences

CONSTANTS
  Vals,
  Grain,         \* capacities are multiples of it: 8
  MaxCapacity    \* bound on the capacity

VARIABLES
  capacity,   \* capacity
  base,       \* the items in memory: the slots up to capacity
  count,      \* count
  broken,     \* TRUE when base is NULL, or an item lies beyond the capacity
  list        \* history: the items callers stored, the last append last

vars == <<capacity, base, count, broken, list>>

AlignUp(n) == ((n + Grain - 1) \div Grain) * Grain

Slots(size) == 1 .. size

(* ms_autoarray_construct; it does not look at what ms_malloc returns. *)
Init ==
  \E asked \in 0 .. MaxCapacity :
    /\ AlignUp(asked) <= MaxCapacity
    /\ capacity = AlignUp(asked)
    /\ base \in [Slots(AlignUp(asked)) -> Vals]
    /\ count = 0
    /\ broken = FALSE
    /\ list = << >>

-----------------------------------------------------------------------------
(* Mutant: the items are not copied. *)
FreshBase(new, size) == [s \in Slots(size) |-> new[s]]

(* ms_realloc to more: what there was, and memory as it comes. *)
Regrown(new, size) == [s \in Slots(size) |-> IF s <= capacity THEN base[s] ELSE new[s]]

(* ms_autoarray_reserve; a smaller capacity changes nothing. *)
Reserve(asked) ==
  LET size == AlignUp(asked) IN
    /\ ~ broken
    /\ size <= MaxCapacity
    /\ IF size > capacity
         THEN /\ \E new \in [Slots(size) -> Vals] : base' = Regrown(new, size)
              /\ capacity' = size
         ELSE UNCHANGED <<base, capacity>>
    /\ UNCHANGED <<count, broken, list>>

(***************************************************************************)
(* Its ms_realloc fails: the old items are out of reach, and capacity says *)
(* there is room.  ms_autoarray_append does not look at the result.        *)
(***************************************************************************)
ReserveNoMemory ==
  /\ ~ broken
  /\ broken' = TRUE
  /\ UNCHANGED <<capacity, base, count, list>>

(* ms_autoarray_resize, within the capacity or beyond; to more, callers   *)
(* find what the memory holds.                                             *)
Resize(size) ==
  LET grown == AlignUp(size) IN
    /\ ~ broken
    /\ grown <= MaxCapacity
    /\ IF grown > capacity
         THEN /\ \E new \in [Slots(grown) -> Vals] : base' = Regrown(new, grown)
              /\ capacity' = grown
         ELSE UNCHANGED <<base, capacity>>
    /\ count' = size
    /\ list' = [i \in 1 .. size |-> IF i <= count THEN list[i] ELSE base'[i]]
    /\ UNCHANGED broken

(* ms_autoarray_append, where the caller stores val. *)
Append1(val) ==
  LET size == IF count = capacity THEN AlignUp(2 * capacity) ELSE capacity IN
    /\ ~ broken
    /\ count < size
    /\ size <= MaxCapacity
    /\ \E new \in [Slots(size) -> Vals] :
         base' = [Regrown(new, size) EXCEPT ![count + 1] = val]
    /\ capacity' = size
    /\ count' = count + 1
    /\ list' = Append(list, val)
    /\ UNCHANGED broken

(* Without any capacity doubling it reserves nothing, and base is no memory. *)
AppendOverrun ==
  /\ ~ broken
  /\ capacity = 0
  /\ count' = 1
  /\ broken' = TRUE
  /\ UNCHANGED <<capacity, base, list>>

Next ==
  \/ \E asked \in 0 .. MaxCapacity : Reserve(asked) \/ Resize(asked)
  \/ ReserveNoMemory
  \/ \E val \in Vals : Append1(val)
  \/ AppendOverrun

Spec == Init /\ [][Next]_vars

-----------------------------------------------------------------------------
TypeOK ==
  /\ capacity \in 0 .. MaxCapacity
  /\ base \in [Slots(capacity) -> Vals]
  /\ count \in Nat /\ broken \in BOOLEAN
  /\ list \in Seq(Vals)

(***************************************************************************)
(* The items are those callers stored, in order, and there is room for as  *)
(* many as count says, however the array came to grow (ms_autoarray_get    *)
(* after any append, resize and reserve).                                  *)
(***************************************************************************)
ItemsKept ==
  ~ broken =>
    /\ count <= capacity
    /\ Len(list) = count
    /\ \A i \in 1 .. count : base[i] = list[i]
=============================================================================
