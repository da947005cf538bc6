-------------------------------- MODULE Links --------------------------------
(***************************************************************************)
(* Singly linked lists kept in a function from nodes to links, as the free *)
(* lists of the file table and of ms_pool are: what a walk from a node     *)
(* comes past.  Said without a walk, by the sets that links do not leave.  *)
(***************************************************************************)

(* The links of next do not lead out of S. *)
Closed(next, S) == \A n \in S \cap DOMAIN next : next[n] \in S

(* Where the links lead from first on, first included: in every such set. *)
Reached(next, first, null) ==
  {n \in DOMAIN next \cup {null} :
     \A S \in SUBSET (DOMAIN next \cup {null}) :
       first \in S /\ Closed(next, S) => n \in S}

(* The list ends, and has no node twice. *)
IsList(next, first, null) ==
  /\ null \in Reached(next, first, null)
  /\ \A n \in Reached(next, first, null) \ {null} : n \notin Reached(next, next[n], null)
=============================================================================
