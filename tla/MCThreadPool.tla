---------------------------- MODULE MCThreadPool ----------------------------
(***************************************************************************)
(* A family, p1 above c1 and c2, and three tasks without relatives.  The   *)
(* run that looks for double execution gets by with p1 and c1.             *)
(***************************************************************************)
EXTENDS ThreadPool

CONSTANTS p1, c1, c2, s1, s2, s3

Family == [t \in {p1, c1, c2, s1, s2, s3} |-> IF t \in {c1, c2} THEN p1 ELSE NoTask]

Couple == [t \in {p1, c1} |-> IF t = c1 THEN p1 ELSE NoTask]
=============================================================================
