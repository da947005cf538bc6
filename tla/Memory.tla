------------------------------- MODULE Memory -------------------------------
(***************************************************************************)
(* The allocators side by side, each with constants and variables of its   *)
(* own, what it needs of the constants, and what it promises.  The heap's  *)
(* are those of Heap itself.                                               *)
(***************************************************************************)
EXTENDS Heap

CONSTANTS
  ArenaBase, ArenaCounts, ArenaWords, MaxNodes, MaxLive,         \* ms_arena
  MaxAllocated, MaxOwed,
  Threads, StackSize, StackPage, StackThreshold, Default, Sizes, \* ms_stack
  StackAlignments, Quiet, MapsAfresh

VARIABLES
  sticky, nodes, held, stray, dead,
  sTop, sCommittedTop, sMapped, sPc, sFrom, sEnd, sSeen, sClearing, sUpTo,
  sBlocks, sWiped

Arena == INSTANCE Arena WITH
  BaseSize <- ArenaBase, Counts <- ArenaCounts, UserWords <- ArenaWords,
  live <- held

Stack == INSTANCE Stack WITH
  PageSize <- StackPage, Threshold <- StackThreshold, Alignments <- StackAlignments,
  top <- sTop, committedTop <- sCommittedTop, mapped <- sMapped, pc <- sPc,
  from <- sFrom, end <- sEnd, seen <- sSeen, clearing <- sClearing, upTo <- sUpTo,
  blocks <- sBlocks, wiped <- sWiped

arenaVars == <<sticky, nodes, held, stray, dead>>
stackVars == <<sTop, sCommittedTop, sMapped, sPc, sFrom, sEnd, sSeen, sClearing, sUpTo,
               sBlocks, sWiped>>

-----------------------------------------------------------------------------
(* A base size that is given has room for a node. *)
ArenaSensible ==
  /\ ArenaBase \in Nat /\ ArenaBase >= NodeSize
  /\ ArenaCounts \subseteq Nat \ {0}
  /\ ArenaWords \subseteq Nat

StackSensible ==
  /\ StackSize \in Nat /\ StackThreshold \in Nat
  /\ StackPage \in Nat \ {0}
  /\ Default \in Nat
  /\ Sizes \subseteq Nat \ {0}
  /\ StackAlignments \subseteq Nat \ {0}
  /\ Quiet \in BOOLEAN
  /\ MapsAfresh \in BOOLEAN

ASSUME MemoryAssumption ==
  /\ ArenaSensible
  /\ StackSensible

-----------------------------------------------------------------------------
(* Blocks and chunks, of their types, tile the heap: Tiling of Heap. *)
HeapTiled == TypeOK /\ Tiling

(* Blocks and free chunks tile the arena's nodes: ArenaIntact of Arena. *)
ArenaIntact == Arena!TypeOK /\ Arena!ArenaIntact

(* A node is not freed before it is empty: FreedWhenEmpty of Arena. *)
ArenaFreedWhenEmpty == Arena!FreedWhenEmpty

(* A new node holds the request it was made for: ArenaServes of Arena. *)
ArenaServes == Arena!ArenaServes

(* Blocks of a stack do not overlap: Exclusive of Stack. *)
StackApart == Stack!Exclusive

(* Blocks of a stack are of their types, and committed: Committed of Stack. *)
StackCommitted == Stack!TypeOK /\ Stack!Committed
=============================================================================
