-------------------------------- MODULE Files --------------------------------
(***************************************************************************)
(* The table of open files and, beside it, one open file that is read,     *)
(* written and sought, with constants and variables of its own.            *)
(***************************************************************************)
EXTENDS FileTable

CONSTANTS MaxSize, MaxCount, Word

VARIABLES platform, async, size, pointer, offset, op, expected, led

IO == INSTANCE FileIO

ASSUME FilesAssumption ==
  /\ MaxSize \in Nat
  /\ MaxCount \in Nat
  /\ Word \in Nat \ {0}

(* Operations on a file follow one another: Continues of FileIO. *)
Continues == IO!TypeOK /\ IO!Continues
=============================================================================
