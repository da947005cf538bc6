------------------------------ MODULE HashMap ------------------------------
(***************************************************************************)
(* ms_map (src/src/containers/map.c): a hash map with open addressing.  A  *)
(* key lives in one of the Slice slots from its hash on; keys and values   *)
(* are two arrays of the same capacity, and a none key marks a free slot.  *)
(***************************************************************************)
EXTENDS Naturals, FiniteSetsExt

CONSTANTS
  Keys, Vals,
  Hash,          \* the hash of every key
  Capacity,      \* the capacity at construction, a power of two
  Growths,       \* the growth factors maps are constructed with
  Slice,         \* MS_MAP_SLICE_SIZE
  NoKey, NoVal

VARIABLES
  growth,   \* growth_factor
  keys,     \* keys; its domain is the slots
  vals,     \* values
  broken,   \* what ms_map_resize left behind: "no" before its first run
  stored    \* history: what callers put in and did not take out

vars == <<growth, keys, vals, broken, stored>>

SlotsOf(capacity) == 0 .. capacity - 1
CapacityNow == Cardinality(DOMAIN keys)

(* ms_map_construct *)
Init ==
  /\ growth \in Growths
  /\ keys = [s \in SlotsOf(Capacity) |-> NoKey]
  /\ vals = [s \in SlotsOf(Capacity) |-> NoVal]
  /\ broken = "no"
  /\ stored = [k \in Keys |-> NoVal]

-----------------------------------------------------------------------------
Slot(key, i) == (Hash[key] + i) % CapacityNow

Probe(key, wanted) == {i \in 0 .. Slice - 1 : keys[Slot(key, i)] = wanted}

FirstSlot(key, wanted) == Slot(key, Min(Probe(key, wanted)))

Found(key) == Probe(key, key) # {}

(* ms_map_get_value *)
Lookup(key) == IF Found(key) THEN vals[FirstSlot(key, key)] ELSE NoVal

(* Mutant: the first free slot is taken although the key has one. *)
HastyTarget(key) == FirstSlot(key, IF Probe(key, NoKey) # {} THEN NoKey ELSE key)

(* ms_map_get_index, and find_empty for a key that is not there. *)
Target(key) == FirstSlot(key, IF Found(key) THEN key ELSE NoKey)

HasTarget(key) == Found(key) \/ Probe(key, NoKey) # {}

-----------------------------------------------------------------------------
(* ms_map_set *)
Set(key, val) ==
  /\ broken = "no"
  /\ HasTarget(key)
  /\ keys' = [keys EXCEPT ![Target(key)] = key]
  /\ vals' = [vals EXCEPT ![Target(key)] = val]
  /\ stored' = [stored EXCEPT ![key] = val]
  /\ UNCHANGED <<growth, broken>>

(* MS_RESULT_FULL *)
SetFull(key) ==
  /\ broken = "no"
  /\ ~ HasTarget(key)
  /\ growth = 0
  /\ UNCHANGED vars

NewSlots == SlotsOf(CapacityNow * growth)

(***************************************************************************)
(* ms_map_resize, as ms_map_set calls it.  It marks the old keys none, as  *)
(* many as the new capacity counts, finds nothing left to move, frees the  *)
(* new values, to which map->values points since their allocation, and     *)
(* the old keys.  The map goes on with keys nobody initialised and values  *)
(* that are freed memory; what callers do with it is not modelled further. *)
(***************************************************************************)
SetResize(key) ==
  /\ broken = "no"
  /\ ~ HasTarget(key)
  /\ growth > 0
  /\ keys' \in [NewSlots -> Keys \cup {NoKey}]
  /\ vals' = [s \in NewSlots |-> NoVal]
  /\ broken' = "rebuilt"
  /\ UNCHANGED <<growth, stored>>

(***************************************************************************)
(* One of its two allocations fails.  When it is the second, map->values   *)
(* is NULL already: MS_RESULT_MEMORY, and the values are out of reach.     *)
(***************************************************************************)
SetNoMemory(key) ==
  /\ broken = "no"
  /\ ~ HasTarget(key)
  /\ growth > 0
  /\ \/ UNCHANGED <<vals, broken>>
     \/ /\ vals' = [s \in DOMAIN vals |-> NoVal]
        /\ broken' = "values lost"
  /\ UNCHANGED <<growth, keys, stored>>

(* ms_map_remove, also of a key that is not there. *)
Remove(key) ==
  /\ broken = "no"
  /\ keys' = IF Found(key) THEN [keys EXCEPT ![FirstSlot(key, key)] = NoKey] ELSE keys
  /\ stored' = [stored EXCEPT ![key] = NoVal]
  /\ UNCHANGED <<growth, vals, broken>>

Next ==
  \E key \in Keys :
    \/ \E val \in Vals : Set(key, val)
    \/ SetFull(key)
    \/ SetResize(key)
    \/ SetNoMemory(key)
    \/ Remove(key)

Spec == Init /\ [][Next]_vars

-----------------------------------------------------------------------------
TypeOK ==
  /\ growth \in Growths
  /\ keys \in [DOMAIN keys -> Keys \cup {NoKey}]
  /\ vals \in [DOMAIN keys -> Vals \cup {NoVal}]
  /\ broken \in {"no", "rebuilt", "values lost"}
  /\ stored \in [Keys -> Vals \cup {NoVal}]

(***************************************************************************)
(* A lookup finds what was stored last under that key and nothing that was *)
(* removed, whatever keys share its slice and whatever holes removals left *)
(* in it (ms_map_get_value after any ms_map_set, ms_map_remove), until the *)
(* map is resized or fails to be.                                          *)
(***************************************************************************)
Agrees == broken = "no" => \A key \in Keys : Lookup(key) = stored[key]
=============================================================================
