---------------------------- MODULE MCCoroutine -----------------------------
(* Four coroutines for three slots. *)
EXTENDS Coroutine
=============================================================================
