------------------------------ MODULE MCRWLock ------------------------------
(* Two readers and two writers, at most two failed try_lock_write calls.   *)
EXTENDS RWLock
=============================================================================
