----------------------------- MODULE PagedArray -----------------------------
(***************************************************************************)
(* ms_parray (src/src/containers/paged-array.c): an array in a chain of    *)
(* pages of equal capacity.  A page is the sequence of its items, the      *)
(* chain is the sequence of the pages.                                     *)
(***************************************************************************)
EXTENDS Naturals, Sequences, SequencesExt

CONSTANTS
  Vals,
  PageCapacity,   \* page_capacity
  MaxPages,       \* bound on the pages
  MayAppendEarly  \* callers append pages while there is room in the last

VARIABLES
  pages,   \* first, next and last; count is a page's length
  list     \* history: the values appended, with those set since

vars == <<pages, list>>

(* ms_parray_construct *)
Init ==
  /\ pages = << >>
  /\ list = << >>

HasRoom == pages # << >> /\ Len(Last(pages)) < PageCapacity

-----------------------------------------------------------------------------
(* ms_parray_append into the last page. *)
Append1(val) ==
  /\ HasRoom
  /\ pages' = [pages EXCEPT ![Len(pages)] = Append(@, val)]
  /\ list' = Append(list, val)

(* Mutant: the item goes to the page that was the last one. *)
AppendBehind(val) ==
  /\ ~ HasRoom
  /\ Len(pages) < MaxPages
  /\ pages' = Append([p \in DOMAIN pages |-> Append(pages[p], val)], << >>)
  /\ list' = Append(list, val)

(* ms_parray_append with a page of its own: ms_parray_append_page first. *)
AppendNewPage(val) ==
  /\ ~ HasRoom
  /\ Len(pages) < MaxPages
  /\ pages' = Append(pages, <<val>>)
  /\ list' = Append(list, val)

(* ms_parray_append_page, which callers use to reserve memory. *)
AppendPage ==
  /\ MayAppendEarly \/ ~ HasRoom
  /\ Len(pages) < MaxPages
  /\ pages' = Append(pages, << >>)
  /\ UNCHANGED list

(* No memory for the page: MS_RESULT_MEMORY, nothing changes. *)
AppendNoMemory ==
  /\ ~ HasRoom
  /\ UNCHANGED vars

PageOf(index) == index \div PageCapacity + 1
OffsetIn(index) == (index % PageCapacity) + 1

(* The bound check of ms_parray_get_ptr; every page but the last counts full. *)
Total ==
  IF pages = << >> THEN 0 ELSE (Len(pages) - 1) * PageCapacity + Len(Last(pages))

(* ms_parray_get_ptr of an index within bounds. *)
Get(index) == pages[PageOf(index)][OffsetIn(index)]

(* ms_parray_set; beyond the bound MS_RESULT_INVALID_ARGUMENT, nothing changes. *)
SetItem(index, val) ==
  /\ index < Total
  /\ pages' = [pages EXCEPT ![PageOf(index)][OffsetIn(index)] = val]
  /\ list' = [list EXCEPT ![index + 1] = val]

Next ==
  \/ \E val \in Vals : \/ Append1(val)
                       \/ AppendNewPage(val)
                       \/ \E index \in 0 .. MaxPages * PageCapacity - 1 : SetItem(index, val)
  \/ AppendPage
  \/ AppendNoMemory

Spec == Init /\ [][Next]_vars

-----------------------------------------------------------------------------
TypeOK ==
  /\ pages \in Seq(Seq(Vals))
  /\ list \in Seq(Vals)

(* MS_PVECTOR_FOREACH: page by page, as many items as each counts. *)
Walk == FlattenSeq(pages)

(***************************************************************************)
(* The array is the sequence of what was appended: the bound check knows   *)
(* its length, an index finds its item and a walk over the pages meets the *)
(* items in order, before and after pages were reserved.                   *)
(***************************************************************************)
Sequential ==
  /\ Total = Len(list)
  /\ \A index \in 0 .. Len(list) - 1 : Get(index) = list[index + 1]
  /\ Walk = list
=============================================================================
