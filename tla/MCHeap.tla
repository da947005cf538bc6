------------------------------- MODULE MCHeap -------------------------------
(***************************************************************************)
(* The allocators, one at a time, as subject says.  A heap of five pages   *)
(* of 32 bytes: six of the smallest blocks, and a rest that is too small   *)
(* for a node.  An arena of two nodes, the second of a different size.     *)
(* Three threads on a stack of six bytes and three pages; there an         *)
(* alignment of 2 stands for one beyond the default.                       *)
(***************************************************************************)
EXTENDS Memory

VARIABLE subject

allVars == <<subject, vars, arenaVars, stackVars>>

MCInit ==
  /\ subject \in {"heap", "arena", "stack"}
  /\ Init
  /\ Arena!Init /\ (subject # "arena" => sticky)
  /\ Stack!Init

MCNext ==
  /\ UNCHANGED subject
  /\ \/ subject = "heap" /\ Next /\ UNCHANGED <<arenaVars, stackVars>>
     \/ subject = "arena" /\ Arena!Next /\ UNCHANGED <<vars, stackVars>>
     \/ subject = "stack" /\ Stack!Next /\ UNCHANGED <<vars, arenaVars>>

MCSpec == MCInit /\ [][MCNext]_allVars
=============================================================================
