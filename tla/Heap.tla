-------------------------------- MODULE Heap --------------------------------
(***************************************************************************)
(* ms_heap (src/src/memory/heap.c): a reserved address range, handed out   *)
(* through a free list and committed from its start as far as it was used. *)
(* Addresses are offsets from the base of the heap, in bytes.              *)
(***************************************************************************)
EXTENDS FreeList

CONSTANTS
  HeapSize,
  PageSize,     \* what the operating system commits at once
  Threshold,    \* MS_HEAP_DEALLOC_THR
  Counts,       \* the sizes callers ask for
  Alignments,   \* and the alignments, at least MS_DEFAULT_ALIGNMENT
  UserWords     \* what users leave in the first eight bytes of a block

ASSUME HeapAssumption ==
  /\ HeapSize \in Nat /\ Threshold \in Nat
  /\ PageSize \in Nat /\ PageSize >= NodeSize
  /\ HeapSize % PageSize = 0 /\ HeapSize >= NodeSize
  /\ Threshold >= NodeSize + PageSize
  /\ Counts \subseteq Nat \ {0}
  /\ Alignments \subseteq Nat \ {0} /\ \A a \in Alignments : a % 8 = 0
  /\ UserWords \subseteq Nat

VARIABLES
  chunks,       \* free_list
  committed,    \* committed_size
  mapped,       \* the pages that really are committed
  live,         \* the blocks callers hold, with what their headers say
  astray        \* history: TRUE once a call has left the heap's memory or order

vars == <<chunks, committed, mapped, live, astray>>

Larger(m, n) == IF m > n THEN m ELSE n

(* The pages that lie, if only in part, between two addresses of the heap. *)
Touched(from, to) == {a \div PageSize : a \in Larger(from, 0) .. to - 1}

(* ms_heap_construct *)
Init ==
  /\ chunks = <<Chunk(0, HeapSize)>>
  /\ committed = NodeSize
  /\ mapped = Touched(0, NodeSize)
  /\ live = {}
  /\ astray = FALSE

-----------------------------------------------------------------------------
(***************************************************************************)
(* commit_free_list_node_memory, for the block and for the node of what is *)
(* left of the chunk.                                                      *)
(***************************************************************************)
CommittedFor(chunk, total) ==
  Larger(committed,
         chunk.at + total + (IF IsSplit(chunk, total) THEN NodeSize ELSE 0))

Padding(at, alignment) ==
  AlignUp(at + HeaderSize, alignment) - (at + HeaderSize)

Block(chunk, total, count, alignment) ==
  [at |-> chunk.at,
   size |-> Taken(chunk, total),
   padding |-> Padding(chunk.at, alignment),
   alignment |-> alignment,
   count |-> count]

UserPtr(b) == b.at + b.padding + HeaderSize

(***************************************************************************)
(* ms_heap_malloc.  When no chunk fits it returns NULL and nothing         *)
(* changes.  A committed_size below zero puts the start of what is to be   *)
(* committed in front of the heap.                                         *)
(***************************************************************************)
Malloc(count, alignment) ==
  LET total == TotalSize(count, alignment)
      k == FindSmallest(chunks, total)
  IN /\ ~ astray
     /\ k # 0
     /\ chunks' = Take(chunks, k, total)
     /\ committed' = CommittedFor(chunks[k], total)
     /\ mapped' = mapped \cup Touched(committed, committed')
     /\ live' = live \cup {Block(chunks[k], total, count, alignment)}
     /\ astray' = (committed < 0)

(***************************************************************************)
(* What a freed block has where its node will keep the size: the user's    *)
(* first word, or, in a padded block, a part of its header.  The 32-bit    *)
(* alignment there makes a number beyond every heap.  With more padding it *)
(* is what an earlier user left.                                           *)
(***************************************************************************)
StaleSize(b, word) ==
  IF b.padding = 8 THEN 2 * HeapSize
  ELSE IF b.padding = 16 THEN b.size
  ELSE word

(* malloc_node leaves the size there, for users who do not write the word. *)
Words(b) == UserWords \cup {b.size}

(* Mutant: from the chunk on. *)
ExtraFromChunk(list, at, now) ==
  IF /\ Last(list).at <= at /\ End(Last(list)) - at > Threshold
     /\ now > at + Threshold
    THEN now - at
    ELSE 0

(***************************************************************************)
(* extra_mallocd_mem, what ms_heap_free decommits: when the chunk is the   *)
(* last one and large, all that it takes for committed from the threshold  *)
(* on; 0 for nothing.                                                      *)
(***************************************************************************)
Extra(list, at, now) ==
  IF /\ Last(list).at <= at /\ End(Last(list)) - at > Threshold
     /\ now > at + Threshold
    THEN now - at - Threshold
    ELSE 0

(***************************************************************************)
(* Whether that takes too much: the last free chunk has blocks behind it,  *)
(* or the page in which it begins is given back as a whole, and            *)
(* committed_size still counts a part of it.                               *)
(***************************************************************************)
ReturnsTooMuch(list, now, extra) ==
  /\ extra > 0
  /\ End(Last(list)) < HeapSize \/ (now - extra) % PageSize > extra

(***************************************************************************)
(* ms_heap_free of a block, given the list and what is committed: it       *)
(* commits the freed chunk's node where need be, and may decommit memory.  *)
(* committed_size is then lowered in decommit and once more by its caller; *)
(* it is a uint64_t, and below zero stands for an address in front of the  *)
(* heap.                                                                   *)
(*                                                                         *)
(* Three things lead the heap astray, and what follows on them is not      *)
(* modelled: a commit that begins in front of it, a chunk that is put      *)
(* where its stale size says and not its size, and a decommit that takes   *)
(* too much.                                                               *)
(***************************************************************************)
Release(list, upTo, pages, b, word) ==
  LET new == GiveBack(list, b.at, b.size, StaleSize(b, word))
      now == Larger(upTo, b.at + NodeSize)
      extra == Extra(new, b.at, now)
  IN /\ chunks' = new
     /\ committed' = now - 2 * extra
     /\ mapped' = (pages \cup Touched(upTo, now)) \ Touched(now - extra, now)
     /\ astray' = \/ committed < 0
                  \/ new # GiveBack(list, b.at, b.size, b.size)
                  \/ ReturnsTooMuch(new, now, extra)

(* ms_heap_free, and ms_heap_realloc with a size of zero. *)
Free(b, word) ==
  /\ ~ astray
  /\ live' = live \ {b}
  /\ Release(chunks, committed, mapped, b, word)

(* Mutant: the header counts as room for the user. *)
GenerousAvailable(b) == b.size - b.padding

Available(b) == b.size - b.padding - HeaderSize

(* ms_heap_realloc of a block that is large enough. *)
ReallocInPlace(b, count) ==
  /\ ~ astray
  /\ count <= Available(b)
  /\ live' = (live \ {b}) \cup {[b EXCEPT !.count = count]}
  /\ UNCHANGED <<chunks, committed, mapped, astray>>

(***************************************************************************)
(* Otherwise a new block with the same alignment, a copy, and the old one  *)
(* is freed.  Without room for a new one ms_fatal ends the program.        *)
(***************************************************************************)
ReallocMoved(b, count, word) ==
  LET total == TotalSize(count, b.alignment)
      k == FindSmallest(chunks, total)
      upTo == CommittedFor(chunks[k], total)
  IN /\ ~ astray
     /\ count > Available(b)
     /\ k # 0
     /\ live' = (live \ {b}) \cup {Block(chunks[k], total, count, b.alignment)}
     /\ Release(Take(chunks, k, total), upTo, mapped \cup Touched(committed, upTo), b, word)

Next ==
  \/ \E count \in Counts, alignment \in Alignments : Malloc(count, alignment)
  \/ \E b \in live : \E word \in Words(b) : Free(b, word)
  \/ \E b \in live, count \in Counts :
       \/ ReallocInPlace(b, count)
       \/ \E word \in Words(b) : ReallocMoved(b, count, word)

Spec == Init /\ [][Next]_vars

-----------------------------------------------------------------------------
Grains == {a \in 0 .. HeapSize - 1 : a % 8 = 0}

(* The types; every chunk can hold its node, every block lies in the heap. *)
TypeOK ==
  /\ committed \in Int
  /\ astray \in BOOLEAN
  /\ ~ astray => /\ \A k \in 1 .. Len(chunks) : /\ chunks[k].at \in Grains
                                                /\ chunks[k].size >= NodeSize
                                                /\ End(chunks[k]) <= HeapSize
                 /\ \A b \in live : /\ b.at \in Grains /\ b.size >= NodeSize
                                    /\ b.at + b.size <= HeapSize

(***************************************************************************)
(* The list is in address order, and neighbours that touch have been       *)
(* merged: what ms_free_list_create_node asserts of its neighbours and     *)
(* try_coalesce_neighbors is for.  Whatever users write into their blocks, *)
(* only a free whose stale size says another place than its size ends it.  *)
(***************************************************************************)
Ordered ==
  ~ astray => \A k \in 1 .. Len(chunks) - 1 : End(chunks[k]) < chunks[k + 1].at

(***************************************************************************)
(* Free chunks and blocks tile the heap: until it goes astray no address   *)
(* is handed out twice and none is lost, also when a block takes the whole *)
(* of a chunk, the last one too.                                           *)
(***************************************************************************)
HoldsFree(a) == {k \in 1 .. Len(chunks) : chunks[k].at <= a /\ a < End(chunks[k])}
HoldsLive(a) == {b \in live : b.at <= a /\ a < b.at + b.size}

Tiling ==
  ~ astray =>
    \A a \in Grains : Cardinality(HoldsFree(a)) + Cardinality(HoldsLive(a)) = 1

(***************************************************************************)
(* A block's header and as many bytes as the user asked for, aligned as    *)
(* asked, lie inside the memory taken for it, with any padding, also after *)
(* a realloc that grew it in place (ms_heap_malloc, realloc_from_free_list). *)
(***************************************************************************)
UserFits ==
  ~ astray =>
    \A b \in live :
      /\ UserPtr(b) % b.alignment = 0
      /\ b.at + HeaderSize <= UserPtr(b)
      /\ UserPtr(b) + b.count <= b.at + b.size

(***************************************************************************)
(* ms_heap_malloc returns NULL only when there really is no free memory of *)
(* that length in one piece: freeing never leaves a fragment behind that   *)
(* could have been joined, until the heap goes astray.                     *)
(***************************************************************************)
NoFalseRefusal ==
  ~ astray =>
    \A count \in Counts, alignment \in Alignments :
      LET total == TotalSize(count, alignment) IN
        FindSmallest(chunks, total) = 0 =>
          \A a \in {x \in Grains : x + total <= HeapSize} :
            \E x \in Grains : /\ a <= x /\ x < a + total
                             /\ HoldsFree(x) = {}

(***************************************************************************)
(* Whatever the program touches is committed: the blocks, and the nodes    *)
(* inside the free chunks (the callbacks of the free list in heap.c).      *)
(* committed_size may say less than there is, after it was lowered twice;  *)
(* nothing that is in use is given back, until the heap goes astray.       *)
(***************************************************************************)
Backed ==
  ~ astray =>
    /\ \A b \in live : Touched(b.at, b.at + b.size) \subseteq mapped
    /\ \A k \in 1 .. Len(chunks) :
         Touched(chunks[k].at, chunks[k].at + NodeSize) \subseteq mapped

(***************************************************************************)
(* What the assertions of ms_free_list_create_node say of the list,        *)
(* whatever has happened.                                                  *)
(***************************************************************************)
Ascending == \A k \in 1 .. Len(chunks) - 1 : chunks[k].at < chunks[k + 1].at

(***************************************************************************)
(* A block that ms_heap_malloc has returned can be used until it is freed: *)
(* its memory stays committed, whatever has happened.                      *)
(***************************************************************************)
HeldBacked == \A b \in live : Touched(b.at, b.at + b.size) \subseteq mapped
=============================================================================
