----------------------------- MODULE MCFileTable -----------------------------
(***************************************************************************)
(* The table of open files and, in behaviours of its own, one file that is *)
(* read, written and sought.                                               *)
(***************************************************************************)
EXTENDS Files

VARIABLE subject

ioVars == <<platform, async, size, pointer, offset, op, expected, led>>
allVars == <<subject, vars, ioVars>>

MCInit ==
  /\ subject \in {"table", "io"}
  /\ Init
  /\ IO!Init /\ (subject = "table" => platform = "posix" /\ async /\ size = 0)

MCNext ==
  /\ UNCHANGED subject
  /\ \/ subject = "table" /\ Next /\ UNCHANGED ioVars
     \/ subject = "io" /\ IO!Next /\ UNCHANGED vars

MCSpec == MCInit /\ [][MCNext]_allVars /\ Fairness
=============================================================================
