---------------------------- MODULE IndexedPool ----------------------------
(***************************************************************************)
(* ms_ipool (src/src/containers/indexed-pool.c): a pool of item numbers,   *)
(* with a bitmap in blocks that says which of them are in use.             *)
(***************************************************************************)
EXTENDS Naturals

CONSTANTS
  BlockSize,   \* the bits of a ms_ipool_state_block, 64
  MaxBlocks    \* bound on the blocks of a pool

Offsets == 0 .. BlockSize - 1
ItemIndices == 0 .. MaxBlocks * BlockSize - 1

VARIABLES
  blocks,      \* the number of state blocks: item_count / BlockSize
  state,       \* state[b]: the offsets of block b in use
  lastState,   \* last_state
  holders      \* history: how many callers hold an item

vars == <<blocks, state, lastState, holders>>

(* ms_ipool_construct; the blocks beyond the pool's own stand for no memory. *)
Init ==
  /\ blocks \in 0 .. MaxBlocks
  /\ state = [b \in 0 .. MaxBlocks - 1 |-> {}]
  /\ lastState = 0
  /\ holders = [n \in ItemIndices |-> 0]

Item(b, offset) == b * BlockSize + offset
BlockOf(item) == item \div BlockSize

(***************************************************************************)
(* The masked item is shifted by up to 24 bits' worth, beyond the width of *)
(* the block for items from 64 on; the processors take the shift modulo    *)
(* the width.                                                              *)
(***************************************************************************)
OffsetOf(item) == item % BlockSize

InUse(item) == OffsetOf(item) \in state[BlockOf(item)]

-----------------------------------------------------------------------------
Free(b) == Offsets \ state[b]

(* The blocks from last_state to the end are tried before those in front. *)
Rank(b) == IF b >= lastState THEN b - lastState ELSE b + MaxBlocks

(* The block ms_ipool_acquire comes upon first. *)
IsFirstFree(b) ==
  /\ Free(b) # {}
  /\ \A c \in 0 .. blocks - 1 : Free(c) # {} => Rank(b) <= Rank(c)

(* Mutant: the bit after the last one in use. *)
IsNextOffset(b, offset) ==
  offset \in Offsets /\ \A o \in state[b] : o <= offset

(* find_block_offset *)
IsFirstOffset(b, offset) ==
  offset \in Free(b) /\ \A o \in Free(b) : offset <= o

(* ms_ipool_acquire, with try_acquire *)
Acquire ==
  \E b \in 0 .. blocks - 1, offset \in Offsets :
    /\ IsFirstFree(b)
    /\ IsFirstOffset(b, offset)
    /\ state' = [state EXCEPT ![b] = @ \cup {offset}]
    /\ lastState' = b
    /\ holders' = [holders EXCEPT ![Item(b, offset)] = @ + 1]
    /\ UNCHANGED blocks

(* Every block is full: UINT32_MAX. *)
AcquireFull ==
  /\ \A b \in 0 .. blocks - 1 : Free(b) = {}
  /\ UNCHANGED vars

(* ms_ipool_release by a caller that holds the item. *)
Release(item) ==
  /\ BlockOf(item) < blocks
  /\ holders[item] > 0
  /\ state' = [state EXCEPT ![BlockOf(item)] = @ \ {OffsetOf(item)}]
  /\ holders' = [holders EXCEPT ![item] = @ - 1]
  /\ UNCHANGED <<blocks, lastState>>

(* A second release of the same item: MS_RESULT_INVALID_ARGUMENT. *)
DoubleRelease(item) ==
  /\ BlockOf(item) < blocks
  /\ ~ InUse(item)
  /\ UNCHANGED vars

(***************************************************************************)
(* ms_ipool_resize.  New blocks are empty; the items of blocks that go are *)
(* their holders' no more.                                                 *)
(***************************************************************************)
Resize(count) ==
  /\ blocks' = count
  /\ state' = [b \in 0 .. MaxBlocks - 1 |-> IF b < blocks /\ b < count THEN state[b] ELSE {}]
  /\ lastState' = 0
  /\ holders' = [n \in ItemIndices |-> IF BlockOf(n) < blocks /\ BlockOf(n) < count THEN holders[n] ELSE 0]

Next ==
  \/ Acquire
  \/ AcquireFull
  \/ \E item \in ItemIndices : Release(item) \/ DoubleRelease(item)
  \/ \E count \in 0 .. MaxBlocks : Resize(count)

Spec == Init /\ [][Next]_vars

-----------------------------------------------------------------------------
TypeOK ==
  /\ blocks \in 0 .. MaxBlocks
  /\ state \in [0 .. MaxBlocks - 1 -> SUBSET Offsets]
  /\ lastState \in 0 .. MaxBlocks
  /\ holders \in [ItemIndices -> Nat]

(***************************************************************************)
(* No item is given to two callers at once, and the bitmap marks exactly   *)
(* the items that have a holder: none is lost to later callers, wherever   *)
(* the search for a free one begins and however the pool was resized.      *)
(***************************************************************************)
HeldOnce ==
  \A item \in ItemIndices : holders[item] = IF BlockOf(item) < blocks /\ InUse(item) THEN 1 ELSE 0
=============================================================================
