-------------------------------- MODULE Pool --------------------------------
(***************************************************************************)
(* ms_pool (src/src/containers/pool.c): items of equal size in pages.  The *)
(* nodes nobody holds form a linked list through their next field.  Nodes  *)
(* are numbered by page and place.                                         *)
(***************************************************************************)
EXTENDS Naturals, Links

CONSTANTS
  ItemsPerPage,   \* items_per_page
  MaxPages,       \* bound on the pages
  Null

Nodes == 0 .. MaxPages * ItemsPerPage - 1

VARIABLES
  items,       \* the first node nobody holds, or Null
  next,        \* next of every node
  itemCount,   \* item_count
  held         \* history: the nodes callers hold

vars == <<items, next, itemCount, held>>

(* ms_pool_construct; zero sizes are MS_RESULT_INVALID_ARGUMENT. *)
Init ==
  /\ items = Null
  /\ next = [n \in Nodes |-> Null]
  /\ itemCount = 0
  /\ held = {}

-----------------------------------------------------------------------------
PageOf(n) == n \div ItemsPerPage

IsLastOfPage(n) == n % ItemsPerPage = ItemsPerPage - 1

(* Mutant: the last node of a page links to what follows it in memory. *)
UnendedLink(n) == IF n + 1 \in Nodes THEN n + 1 ELSE Null

(* The links append_page writes into a page. *)
PageLink(n) == IF IsLastOfPage(n) THEN Null ELSE n + 1

(* ms_pool_acquire with a free node. *)
Acquire ==
  /\ items # Null
  /\ held' = held \cup {items}
  /\ items' = next[items]
  /\ UNCHANGED <<next, itemCount>>

(* ms_pool_acquire through append_page, of the first node of a new page. *)
AcquireNewPage ==
  LET first == itemCount IN
    /\ items = Null
    /\ itemCount < MaxPages * ItemsPerPage
    /\ next' = [n \in Nodes |-> IF PageOf(n) = PageOf(first) THEN PageLink(n) ELSE next[n]]
    /\ itemCount' = itemCount + ItemsPerPage
    /\ held' = held \cup {first}
    /\ items' = PageLink(first)

(* ms_pool_release *)
Release(n) ==
  /\ n \in held
  /\ next' = [next EXCEPT ![n] = items]
  /\ items' = n
  /\ held' = held \ {n}
  /\ UNCHANGED itemCount

(* ms_pool_destroy *)
Destroy ==
  /\ items' = Null
  /\ itemCount' = 0
  /\ held' = {}
  /\ UNCHANGED next

Next ==
  \/ Acquire
  \/ AcquireNewPage
  \/ \E n \in Nodes : Release(n)
  \/ Destroy

Spec == Init /\ [][Next]_vars

-----------------------------------------------------------------------------
TypeOK ==
  /\ items \in Nodes \cup {Null}
  /\ next \in [Nodes -> Nodes \cup {Null}]
  /\ itemCount \in 0 .. MaxPages * ItemsPerPage
  /\ held \subseteq Nodes

(* The nodes on the list of those nobody holds. *)
Listed == Reached(next, items, Null) \ {Null}

(***************************************************************************)
(* The list ends, and it and the callers share the nodes of the pages      *)
(* between them: ms_pool_acquire never returns an item that is in use, and *)
(* every item released comes back before a new page is taken.              *)
(***************************************************************************)
Shared ==
  /\ IsList(next, items, Null)
  /\ Listed \cap held = {}
  /\ Listed \cup held = {n \in Nodes : n < itemCount}
=============================================================================
