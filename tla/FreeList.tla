------------------------------ MODULE FreeList ------------------------------
(***************************************************************************)
(* The free list under ms_heap and ms_arena (src/src/memory/freelist.c): a *)
(* doubly linked list of the free chunks of a region, kept inside them.    *)
(* Here it is the sequence of chunks in list order; addresses and sizes    *)
(* are in bytes, from the start of the region.                             *)
(***************************************************************************)
EXTENDS Integers, Sequences, SequencesExt

NodeSize == 24     \* sizeof(ms_free_list_node)
HeaderSize == 16   \* sizeof(ms_header)

AlignUp(n, boundary) == ((n + boundary - 1) \div boundary) * boundary

Chunk(at, size) == [at |-> at, size |-> size]

(* NODE_END *)
End(chunk) == chunk.at + chunk.size

(* compute_free_list_node_size *)
TotalSize(count, alignment) ==
  AlignUp(count + HeaderSize + alignment - 1, alignment)

(* Mutant: a chunk of exactly the size asked for is passed over. *)
StrictFindSmallest(list, total) ==
  LET fits == {k \in 1 .. Len(list) : list[k].size > total}
  IN IF fits = {} THEN 0 ELSE Min(fits)

(***************************************************************************)
(* find_smallest_node.  From the first chunk that fits it goes on while    *)
(* chunks are smaller than the best so far, and so misses a better one     *)
(* behind a larger one.  The index of the chunk, 0 for none.               *)
(***************************************************************************)
FindSmallest(list, total) ==
  LET fits == {k \in 1 .. Len(list) : list[k].size >= total}
      better == {k \in fits : \A j, m \in fits :
                   j < m /\ m <= k => list[m].size < list[j].size}
  IN IF fits = {} THEN 0 ELSE Max(better)

(* malloc_node: the remainder stays in the list when a node fits in it. *)
IsSplit(chunk, total) == chunk.size - total >= NodeSize

(* Mutant: the header says what was asked for, not what was taken. *)
AskedTaken(chunk, total) == total

Taken(chunk, total) == IF IsSplit(chunk, total) THEN total ELSE chunk.size

Take(list, k, total) ==
  IF IsSplit(list[k], total)
    THEN ReplaceAt(list, k, Chunk(list[k].at + total, list[k].size - total))
    ELSE RemoveAt(list, k)

(***************************************************************************)
(* find_prev_node.  It needs the end of the chunk that is being freed and  *)
(* reads its size from where a node keeps it: there the user's data begin, *)
(* word is their first eight bytes.  0 for none.                           *)
(***************************************************************************)
FindPrev(list, at, word) ==
  LET before(k) == \A j \in 1 .. k : End(list[j]) <= at
      between(k) == k = Len(list) \/ list[k + 1].at >= at + word
      found == {k \in 1 .. Len(list) : before(k) /\ between(k)}
  IN IF found = {} THEN 0 ELSE Min(found)

(* Merges chunk k with its right neighbour when they touch. *)
CoalesceRight(list, k) ==
  IF k \in 1 .. Len(list) - 1 /\ End(list[k]) = list[k + 1].at
    THEN RemoveAt(ReplaceAt(list, k, Chunk(list[k].at, list[k].size + list[k + 1].size)), k + 1)
    ELSE list

(* Mutant: only the right neighbour is looked at. *)
CoalesceOne(list, k) == CoalesceRight(list, k)

(* try_coalesce_neighbors: right first, then left. *)
Coalesce(list, k) == CoalesceRight(CoalesceRight(list, k), k - 1)

(* ms_free_list_free.  Into an empty list it puts the stale size as well. *)
GiveBack(list, at, size, word) ==
  IF list = << >>
    THEN <<Chunk(at, word)>>
    ELSE LET p == FindPrev(list, at, word)
         IN Coalesce(InsertAt(list, p + 1, Chunk(at, size)), p + 1)
=============================================================================
