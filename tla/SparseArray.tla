---------------------------- MODULE SparseArray ----------------------------
(***************************************************************************)
(* ms_sparray (src/src/containers/sparse-paged-array.c): an array of page  *)
(* pointers that grows with the indices asked for, and pages of items that *)
(* are allocated when one of their items is first asked for.               *)
(***************************************************************************)
EXTENDS Naturals

CONSTANTS
  ItemsPerPage,   \* items_per_page
  MaxIndex,       \* bound on the indices callers use
  Null

Indices == 0 .. MaxIndex
Blocks == 0 .. MaxIndex \div ItemsPerPage   \* what ms_malloc returns, by its count
Pointers == Blocks \X (0 .. ItemsPerPage - 1)

VARIABLES
  pages,   \* pages[p]: the items of page p or Null; the domain is 0 .. page_count - 1
  lost,    \* TRUE when "pages" is NULL although page_count still counts pages
  used,    \* the blocks ms_malloc has returned
  given    \* history: the pointer callers were given for each index, or Null

vars == <<pages, lost, used, given>>

(* ms_sparray_construct *)
Init ==
  /\ pages = [p \in {} |-> Null]
  /\ lost = FALSE
  /\ used = {}
  /\ given = [i \in Indices |-> Null]

PageIndex(index) == index \div ItemsPerPage
PageCount(index) == PageIndex(index) + 1

(* Mutant: all the page pointers start anew. *)
ClearedPages(count) == [p \in 0 .. count - 1 |-> Null]

(* resize_pages, for an index beyond the pages there are. *)
Resized(count) ==
  [p \in DOMAIN pages \cup (0 .. count - 1) |->
     IF p \in DOMAIN pages THEN pages[p] ELSE Null]

(* The page pointers ms_sparray_get_ptr looks at. *)
Reaching(index) == Resized(PageCount(index))

Pointer(page, index) == <<page, index % ItemsPerPage>>

-----------------------------------------------------------------------------
(* ms_sparray_get_ptr, of a page that is there. *)
GetPtr(index) ==
  LET page == Reaching(index)[PageIndex(index)] IN
    /\ ~ lost
    /\ page # Null
    /\ given' = [given EXCEPT ![index] = Pointer(page, index)]
    /\ UNCHANGED <<pages, lost, used>>

(* With a new page, and more page pointers where need be. *)
GetNewPage(index) ==
  /\ ~ lost
  /\ Reaching(index)[PageIndex(index)] = Null
  /\ \E block \in Blocks \ used :
       /\ pages' = [Reaching(index) EXCEPT ![PageIndex(index)] = block]
       /\ used' = used \cup {block}
       /\ given' = [given EXCEPT ![index] = Pointer(block, index)]
  /\ UNCHANGED lost

(* No memory for the page: NULL, the page pointers have grown all the same. *)
GetNoPage(index) ==
  /\ ~ lost
  /\ Reaching(index)[PageIndex(index)] = Null
  /\ pages' = Reaching(index)
  /\ UNCHANGED <<lost, used, given>>

(***************************************************************************)
(* No memory to grow: NULL, and array->pages is NULL too, with it every    *)
(* page pointer there was.  An array without pages is as it was; one that  *)
(* had some still counts them, and is not followed any further: its next   *)
(* lookup goes through the null pointer, its next growth takes page        *)
(* pointers that were never written for pages, and so on.                  *)
(***************************************************************************)
GetNoGrowth(index) ==
  /\ ~ lost
  /\ PageIndex(index) \notin DOMAIN pages
  /\ pages' = [p \in {} |-> Null]
  /\ lost' = (DOMAIN pages # {})
  /\ UNCHANGED <<used, given>>

(* ms_sparray_destroy *)
Destroy ==
  /\ ~ lost
  /\ pages' = [p \in {} |-> Null]
  /\ used' = {}
  /\ given' = [i \in Indices |-> Null]
  /\ UNCHANGED lost

Next ==
  \/ \E index \in Indices :
       \/ GetPtr(index)
       \/ GetNewPage(index)
       \/ GetNoPage(index)
       \/ GetNoGrowth(index)
  \/ Destroy

Spec == Init /\ [][Next]_vars

-----------------------------------------------------------------------------
TypeOK ==
  /\ \E n \in 0 .. PageCount(MaxIndex) : pages \in [0 .. n - 1 -> Blocks \cup {Null}]
  /\ lost \in BOOLEAN
  /\ used \subseteq Blocks
  /\ given \in [Indices -> Pointers \cup {Null}]

(***************************************************************************)
(* The pointer of an item is for ever: what callers were given is where    *)
(* ms_sparray_get_ptr and its unsafe variant still find the item, however  *)
(* the array has grown, in whatever order the indices came, and after      *)
(* pages that could not be allocated, until a growth of the page pointers  *)
(* fails (from there the code finds nothing any more).  And no two items   *)
(* ever share a pointer, not even those the array has lost.                *)
(***************************************************************************)
Stable ==
  /\ ~ lost => \A i \in Indices :
       given[i] # Null => /\ PageIndex(i) \in DOMAIN pages
                          /\ given[i] = Pointer(pages[PageIndex(i)], i)
  /\ \A i, j \in Indices : i # j /\ given[i] # Null => given[i] # given[j]
=============================================================================
