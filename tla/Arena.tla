-------------------------------- MODULE Arena --------------------------------
(***************************************************************************)
(* ms_arena (src/src/memory/arena.c): a chain of nodes, each a piece of    *)
(* memory from another allocator with a free list of its own.  Requests    *)
(* are of the default alignment; addresses are offsets from the base of a  *)
(* node, in bytes.                                                         *)
(***************************************************************************)
EXTENDS FreeList, FiniteSetsExt

CONSTANTS
  BaseSize,      \* base_size
  Counts,        \* the sizes callers ask for
  UserWords,     \* what users leave in the first eight bytes of a block
  MaxNodes,      \* bound on the nodes of a chain
  MaxLive,       \* bound on the blocks in use
  MaxAllocated,  \* bound on what a node's counter climbs to
  MaxOwed        \* bound on how far below zero it sinks

Alignment == 8   \* MS_DEFAULT_ALIGNMENT

VARIABLES
  sticky,   \* MS_ARENA_STICKY_BIT
  nodes,    \* the chain from arena->first on
  live,     \* the blocks in use that lie in a node of the chain
  stray,    \* TRUE when a block in use lost its node: it was freed or cut off
  dead      \* history: TRUE once the arena has read freed memory, or put a
            \* freed chunk in the wrong place

vars == <<sticky, nodes, live, stray, dead>>

(* ms_arena_construct *)
Init ==
  /\ sticky \in BOOLEAN
  /\ nodes = << >>
  /\ live = {}
  /\ stray = FALSE
  /\ dead = FALSE

Larger(m, n) == IF m > n THEN m ELSE n

-----------------------------------------------------------------------------
(* create_arena_node *)
Node(total) == [total |-> total, allocated |-> 0, list |-> <<Chunk(0, total)>>]

(* Mutant: room for the bytes asked for. *)
TightNodeSize(count) ==
  AlignUp(Larger(count, IF nodes = << >> THEN BaseSize ELSE Last(nodes).total), BaseSize)

(* The node ms_arena_malloc appends when no other serves. *)
NewNodeSize(count) ==
  2 * AlignUp(Larger(8 * count, IF nodes = << >> THEN BaseSize ELSE Last(nodes).total), BaseSize)

(***************************************************************************)
(* The preliminary size check, on unsigned numbers: a counter that was not *)
(* lowered as far as it was raised passes total_size, and the difference   *)
(* wraps.  One that was lowered below zero, here a negative number, adds   *)
(* to it.                                                                  *)
(***************************************************************************)
MayHold(node, count) == node.allocated > node.total \/ node.total - node.allocated >= count

Place(node, count) == FindSmallest(node.list, TotalSize(count, Alignment))

Serves(node, count) == MayHold(node, count) /\ Place(node, count) # 0

(* The chain ms_arena_malloc takes from, with a new node where none serves. *)
Offered(count) ==
  IF \E k \in DOMAIN nodes : Serves(nodes[k], count)
    THEN nodes
    ELSE Append(nodes, Node(NewNodeSize(count)))

(***************************************************************************)
(* What an allocation takes: a piece of the first node that serves.        *)
(***************************************************************************)
Piece(chain, count) ==
  LET host == Min({k \in DOMAIN chain : Serves(chain[k], count)})
      chunk == chain[host].list[Place(chain[host], count)]
  IN [node |-> host, at |-> chunk.at, size |-> Taken(chunk, TotalSize(count, Alignment))]

(* allocate_from_node *)
Less(chain, piece, count) ==
  [chain EXCEPT ![piece.node].list = Take(@, Place(chain[piece.node], count),
                                          TotalSize(count, Alignment)),
                ![piece.node].allocated = @ + piece.size]

(* The bounds. *)
MayTake(count) ==
  LET chain == Offered(count)
      piece == Piece(chain, count)
  IN /\ Len(chain) <= MaxNodes
     /\ Cardinality(live) < MaxLive
     /\ Less(chain, piece, count)[piece.node].allocated <= MaxAllocated

(* ms_arena_malloc *)
Malloc(count) ==
  LET chain == Offered(count)
      piece == Piece(chain, count)
  IN /\ ~ dead
     /\ MayTake(count)
     /\ nodes' = Less(chain, piece, count)
     /\ live' = live \cup {piece}
     /\ UNCHANGED <<sticky, stray, dead>>

-----------------------------------------------------------------------------
(* Mutant: the flag is not looked at. *)
AnyEmptied(chain, b, word) == chain[b.node].allocated = word

(* The last block of a node has gone, by its counter, and it may go too. *)
Emptied(chain, b, word) == chain[b.node].allocated = word /\ ~ sticky

(* What the node of a freed block becomes. *)
Returned(node, b, word) ==
  [total |-> node.total,
   allocated |-> node.allocated - word,
   list |-> GiveBack(node.list, b.at, b.size, word)]

(* malloc_node leaves the size there, for users who do not write the word. *)
Words(b) == UserWords \cup {b.size}

(***************************************************************************)
(* ms_arena_free.  The counter is lowered by what the block has where a    *)
(* free chunk keeps its size: the user's first word.  An assertion bounds  *)
(* it; where assertions are off it may be larger than the counter.  A node *)
(* that comes to zero is freed and the chain ends before it: those behind  *)
(* it are cut off.  When the word says another place in the list than the  *)
(* block's size does, what follows is not modelled.                        *)
(***************************************************************************)
Release(chain, blocks, b, word) ==
  /\ chain[b.node].allocated - word >= - MaxOwed
  /\ dead' = (GiveBack(chain[b.node].list, b.at, b.size, word) #
              GiveBack(chain[b.node].list, b.at, b.size, b.size))
  /\ \/ /\ ~ Emptied(chain, b, word)
        /\ nodes' = [chain EXCEPT ![b.node] = Returned(@, b, word)]
        /\ live' = blocks \ {b}
        /\ UNCHANGED stray
     \/ /\ Emptied(chain, b, word)
        /\ nodes' = SubSeq(chain, 1, b.node - 1)
        /\ live' = {c \in blocks : c.node < b.node}
        /\ stray' = (stray \/ \E c \in blocks \ {b} : c.node >= b.node)

Free(b, word) ==
  /\ ~ dead
  /\ Release(nodes, live, b, word)
  /\ UNCHANGED sticky

(***************************************************************************)
(* ms_arena_realloc compares with the size in the header, which counts the *)
(* header: up to 16 bytes more than there are stay in place.               *)
(***************************************************************************)
ReallocInPlace(b, count) ==
  /\ ~ dead
  /\ count <= b.size
  /\ UNCHANGED vars

(* Otherwise a new block, a copy, and the old one is freed. *)
ReallocMoved(b, count, word) ==
  LET chain == Offered(count)
      piece == Piece(chain, count)
  IN /\ ~ dead
     /\ count > b.size
     /\ MayTake(count)
     /\ Release(Less(chain, piece, count), live \cup {piece}, b, word)
     /\ UNCHANGED sticky

-----------------------------------------------------------------------------
(* ms_arena_clear of a sticky arena: every node is one free chunk again. *)
Clear ==
  /\ ~ dead /\ sticky
  /\ nodes' = [k \in DOMAIN nodes |-> Node(nodes[k].total)]
  /\ live' = {}
  /\ UNCHANGED <<sticky, stray, dead>>

(***************************************************************************)
(* Of any other: it frees the first node and reads its link to the next.   *)
(* What follows on that is not modelled.                                   *)
(***************************************************************************)
ClearFreed ==
  /\ ~ dead /\ ~ sticky /\ nodes # << >>
  /\ nodes' = << >>
  /\ live' = {}
  /\ dead' = TRUE
  /\ UNCHANGED <<sticky, stray>>

(* ms_arena_destroy *)
Destroy ==
  /\ ~ dead
  /\ nodes' = << >>
  /\ live' = {}
  /\ UNCHANGED <<sticky, stray, dead>>

Next ==
  \/ \E count \in Counts : Malloc(count)
  \/ \E b \in live : \E word \in Words(b) : Free(b, word)
  \/ \E b \in live, count \in Counts :
       \/ ReallocInPlace(b, count)
       \/ \E word \in Words(b) : ReallocMoved(b, count, word)
  \/ Clear
  \/ ClearFreed
  \/ Destroy

Spec == Init /\ [][Next]_vars

-----------------------------------------------------------------------------
TypeOK ==
  /\ sticky \in BOOLEAN /\ stray \in BOOLEAN /\ dead \in BOOLEAN
  /\ ~ dead => \A b \in live : b.node \in DOMAIN nodes

(***************************************************************************)
(* Free chunks and blocks tile every node of the chain, and a sticky arena *)
(* takes the node of no block away: a counter lowered by any words users   *)
(* wrote, to zero or below with blocks in use, or left too high, makes no  *)
(* memory be handed out twice or lost in a node of the chain, until a free *)
(* is put in the wrong place (ms_arena_malloc, ms_arena_free and           *)
(* ms_arena_clear).                                                        *)
(***************************************************************************)
ArenaIntact ==
  ~ dead =>
    /\ sticky => ~ stray
    /\ \A k \in DOMAIN nodes :
         \A a \in {x \in 0 .. nodes[k].total - 1 : x % Alignment = 0} :
           Cardinality({c \in ToSet(nodes[k].list) : c.at <= a /\ a < End(c)}) +
           Cardinality({b \in live : b.node = k /\ b.at <= a /\ a < b.at + b.size}) = 1

(***************************************************************************)
(* A node is freed when it has become empty and not before: no block in    *)
(* use loses its node, whatever its users write.                           *)
(***************************************************************************)
FreedWhenEmpty == ~ stray

(***************************************************************************)
(* The node a request makes the arena append holds that request, for every *)
(* chain the arena can have come to: ms_arena_malloc returns what          *)
(* allocate_from_node gives without looking at it.                         *)
(***************************************************************************)
ArenaServes ==
  ~ dead => \A count \in Counts : Serves(Node(NewNodeSize(count)), count)
=============================================================================
