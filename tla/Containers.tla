----------------------------- MODULE Containers -----------------------------
(***************************************************************************)
(* The containers side by side, each with constants and variables of its   *)
(* own, what it needs of the constants, and what it promises.  The ring's  *)
(* are those of Ring itself.                                               *)
(***************************************************************************)
EXTENDS Ring

CONSTANTS
  Keys, Vals, Hash, MapCapacity, Growths, Slice, NoKey, NoVal,   \* ms_map
  PageCapacity, MaxParrayPages, MayAppendEarly,                  \* ms_parray
  ItemsPerPage, MaxIndex, Null,                                  \* ms_sparray
  BlockSize, MaxBlocks,                                          \* ms_ipool
  NodesPerPage, MaxPages,                                        \* ms_pool
  ClusterBits, MaskBits, MaxClusters,                            \* ms_barray
  Grain, MaxCapacity                                             \* ms_autoarray

VARIABLES
  mGrowth, mKeys, mVals, mBroken, mStored,
  gPages, gList,
  sPages, sLost, sUsed, sGiven,
  iBlocks, iState, iLastState, iHolders,
  pItems, pNext, pItemCount, pHeld,
  bResizable, bCapacity, bData, bLost, bOnes, bAsked,
  aCapacity, aBase, aCount, aBroken, aList

Map == INSTANCE HashMap WITH
  Capacity <- MapCapacity,
  growth <- mGrowth, keys <- mKeys, vals <- mVals, broken <- mBroken, stored <- mStored

Paged == INSTANCE PagedArray WITH
  MaxPages <- MaxParrayPages, pages <- gPages, list <- gList

Sparse == INSTANCE SparseArray WITH
  pages <- sPages, lost <- sLost, used <- sUsed, given <- sGiven

Indexed == INSTANCE IndexedPool WITH
  blocks <- iBlocks, state <- iState, lastState <- iLastState, holders <- iHolders

Nodes == INSTANCE Pool WITH
  ItemsPerPage <- NodesPerPage,
  items <- pItems, next <- pNext, itemCount <- pItemCount, held <- pHeld

Bits == INSTANCE BitArray WITH
  resizable <- bResizable, capacity <- bCapacity, data <- bData, lost <- bLost,
  ones <- bOnes, asked <- bAsked

Growing == INSTANCE AutoArray WITH
  capacity <- aCapacity, base <- aBase, count <- aCount, broken <- aBroken, list <- aList

-----------------------------------------------------------------------------
(* What ms_map_construct and its callers see to. *)
MapSensible ==
  /\ Hash \in [Keys -> Nat]
  /\ MapCapacity \in Nat \ {0}
  /\ Slice \in Nat
  /\ NoKey \notin Keys
  /\ NoVal \notin Vals

(* Callers of ms_parray reserve no page while there is room in the last. *)
PagedSensible ==
  /\ PageCapacity \in Nat \ {0}
  /\ MaxParrayPages \in Nat
  /\ MayAppendEarly = FALSE

(* Null, in the code, is none of the values memory may have. *)
SparseSensible ==
  /\ ItemsPerPage \in Nat \ {0}
  /\ MaxIndex \in Nat
  /\ Null \notin Sparse!Blocks
  /\ Null \notin Sparse!Pointers

IndexedSensible == BlockSize \in Nat \ {0} /\ MaxBlocks \in Nat

PoolSensible ==
  /\ NodesPerPage \in Nat \ {0}
  /\ MaxPages \in Nat
  /\ Null \notin Nodes!Nodes

BitsSensible ==
  /\ MaskBits \in Nat \ {0} /\ ClusterBits \in Nat /\ MaskBits <= ClusterBits
  /\ MaxClusters \in Nat

AutoSensible == Grain \in Nat \ {0} /\ MaxCapacity \in Nat

ASSUME ContainersAssumption ==
  /\ MapSensible
  /\ PagedSensible
  /\ SparseSensible
  /\ IndexedSensible
  /\ PoolSensible
  /\ BitsSensible
  /\ AutoSensible

-----------------------------------------------------------------------------
(* A lookup in a map finds what was stored last: Agrees of HashMap. *)
MapAgrees == Map!TypeOK /\ Map!Agrees

(* A paged array is the sequence of what was appended: Sequential of PagedArray. *)
PagedSequential == Paged!TypeOK /\ Paged!Sequential

(* Pointers into a sparse array stay valid: Stable of SparseArray. *)
SparseStable == Sparse!TypeOK /\ Sparse!Stable

(* An item of an indexed pool is marked and has one holder, or neither: *)
(* HeldOnce of IndexedPool.                                              *)
HeldOnce == Indexed!TypeOK /\ Indexed!HeldOnce

(* The pool's list and its callers share the nodes: Shared of Pool. *)
PoolShared == Nodes!TypeOK /\ Nodes!Shared

(* A bit reads as it was left, but for its alias: BitsAgree of BitArray. *)
BitsAgree == Bits!TypeOK /\ Bits!BitsAgree

(* Every bit does, as bit-array.h has it: AllBitsAgree of BitArray. *)
AllBitsAgree == Bits!AllBitsAgree

(* An auto array keeps its items: ItemsKept of AutoArray. *)
AutoKept == Growing!TypeOK /\ Growing!ItemsKept
=============================================================================
