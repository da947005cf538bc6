------------------------------- MODULE MCStack -------------------------------
(***************************************************************************)
(* One thread on a stack of six bytes and three pages, on POSIX.  An       *)
(* alignment of 2 stands for one beyond the default.                       *)
(***************************************************************************)
EXTENDS Stack
=============================================================================
