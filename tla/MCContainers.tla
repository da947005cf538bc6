---------------------------- MODULE MCContainers ----------------------------
(***************************************************************************)
(* The containers, one at a time: a behaviour is that of the one that      *)
(* subject names, the others stay as constructed.  In the map k1 and k2    *)
(* have the same slice, k3's overlaps it around the end of the array.  The *)
(* ring has four slots and an index of 3 bits, which wraps after eight     *)
(* enqueues, at every fill level.                                          *)
(***************************************************************************)
EXTENDS Containers, TLC

CONSTANTS k1, k2, k3, v1, v2

MCHash == k1 :> 0 @@ k2 :> 4 @@ k3 :> 3

Subjects ==
  {"ring", "map", "paged", "sparse", "indexed", "pool", "bits", "auto"}

VARIABLE subject

mVars == <<mGrowth, mKeys, mVals, mBroken, mStored>>
gVars == <<gPages, gList>>
sVars == <<sPages, sLost, sUsed, sGiven>>
iVars == <<iBlocks, iState, iLastState, iHolders>>
pVars == <<pItems, pNext, pItemCount, pHeld>>
bVars == <<bResizable, bCapacity, bData, bLost, bOnes, bAsked>>
aVars == <<aCapacity, aBase, aCount, aBroken, aList>>

allVars == <<subject, ringVars, mVars, gVars, sVars, iVars, pVars, bVars, aVars>>

(* The others start in one state each: they do not take part. *)
MCInit ==
  /\ subject \in Subjects
  /\ Init
  /\ Map!Init /\ (subject # "map" => mGrowth = 0)
  /\ Paged!Init
  /\ Sparse!Init
  /\ Indexed!Init /\ (subject # "indexed" => iBlocks = 0)
  /\ Nodes!Init
  /\ Bits!Init /\ (subject # "bits" => bResizable /\ bCapacity = 0)
  /\ Growing!Init /\ (subject # "auto" => aCapacity = 0)

MCNext ==
  /\ UNCHANGED subject
  /\ subject = "ring" \/ UNCHANGED ringVars
  /\ subject = "map" \/ UNCHANGED mVars
  /\ subject = "paged" \/ UNCHANGED gVars
  /\ subject = "sparse" \/ UNCHANGED sVars
  /\ subject = "indexed" \/ UNCHANGED iVars
  /\ subject = "pool" \/ UNCHANGED pVars
  /\ subject = "bits" \/ UNCHANGED bVars
  /\ subject = "auto" \/ UNCHANGED aVars
  /\ \/ subject = "ring" /\ Next
     \/ subject = "map" /\ Map!Next
     \/ subject = "paged" /\ Paged!Next
     \/ subject = "sparse" /\ Sparse!Next
     \/ subject = "indexed" /\ Indexed!Next
     \/ subject = "pool" /\ Nodes!Next
     \/ subject = "bits" /\ Bits!Next
     \/ subject = "auto" /\ Growing!Next

MCSpec == MCInit /\ [][MCNext]_allVars
=============================================================================
