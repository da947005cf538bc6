-------------------------------- MODULE Ring --------------------------------
(***************************************************************************)
(* ms_ring (src/src/containers/ring.c): a ring buffer that keeps a count   *)
(* and a write index, both uint32_t.  The write index is never reduced     *)
(* modulo the capacity: it runs through all of 0 .. Word-1 and wraps, and  *)
(* the slot is found by masking it with capacity - 1.  Word stands for     *)
(* 2^32.  An enqueue returns a pointer to the slot, which every caller     *)
(* fills at once, so a call and the store of the item are one step here;   *)
(* out is the item behind the returned pointer, NoItem for NULL.           *)
(***************************************************************************)
EXTENDS Integers, Sequences

CONSTANTS
  Items,
  NoItem,
  Capacity,
  Word

(***************************************************************************)
(* ms_ring_construct refuses a capacity that is not a power of two, which  *)
(* is what makes it divide 2^32; divisibility is all the ring needs.       *)
(***************************************************************************)
ASSUME RingAssumption ==
  /\ Capacity \in Nat \ {0}
  /\ Word \in Nat \ {0}
  /\ Word % Capacity = 0
  /\ NoItem \notin Items

VARIABLES
  count,
  windex,
  values,
  out

ringVars == <<count, windex, values, out>>

Slots == 0 .. Capacity - 1

(* uint32_t arithmetic. *)
UInt32(n) == n % Word

(* n & (capacity - 1), for a capacity that is a power of two. *)
Masked(n) == n % Capacity

(* The slot the next enqueue writes. *)
WriteSlot == Masked(windex)

(* Mutant: the read index is one too high. *)
LateReadSlot(w, c) == Masked(UInt32(w - c + 1))

(* The slot of the oldest item when w was the write index and c the count. *)
ReadSlot(w, c) == Masked(UInt32(Capacity + UInt32(w - c)))

Init ==
  /\ count = 0
  /\ windex = 0
  /\ values = [s \in Slots |-> NoItem]
  /\ out = NoItem

(* What a successful enqueue does to the ring, with the caller's store. *)
Push(item) ==
  /\ count < Capacity
  /\ values' = [values EXCEPT ![WriteSlot] = item]
  /\ windex' = UInt32(windex + 1)
  /\ count' = count + 1

Enqueue(item) ==
  /\ Push(item)
  /\ out' = item

EnqueueFull ==
  /\ ~ (count < Capacity)
  /\ out' = NoItem
  /\ UNCHANGED <<count, windex, values>>

Dequeue ==
  /\ count > 0
  /\ out' = values[ReadSlot(windex, count)]
  /\ count' = count - 1
  /\ UNCHANGED <<windex, values>>

DequeueEmpty ==
  /\ ~ (count > 0)
  /\ out' = NoItem
  /\ UNCHANGED <<count, windex, values>>

Next ==
  \/ \E item \in Items : Enqueue(item)
  \/ EnqueueFull
  \/ Dequeue
  \/ DequeueEmpty

Spec == Init /\ [][Next]_ringVars

-----------------------------------------------------------------------------
(* The types, and that count never leaves 0 .. capacity. *)
TypeOK ==
  /\ count \in 0 .. Capacity
  /\ windex \in 0 .. Word - 1
  /\ values \in [Slots -> Items \cup {NoItem}]
  /\ out \in Items \cup {NoItem}

(* What is stored, oldest first: the items successive dequeues return. *)
ContentsOf(v, w, c) == [i \in 1 .. c |-> v[ReadSlot(w, c - (i - 1))]]

Contents == ContentsOf(values, windex, count)

(***************************************************************************)
(* The ring hands items out in the order they came in, each exactly once,  *)
(* and refuses an enqueue exactly when it holds capacity items, also after *)
(* the 32-bit write index has wrapped (ms_ring_enqueue, ms_ring_dequeue).  *)
(***************************************************************************)
Fifo == INSTANCE FIFO WITH queue <- Contents

RefinesFIFO == Fifo!Spec
=============================================================================
