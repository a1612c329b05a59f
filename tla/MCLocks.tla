------------------------------ MODULE MCLocks ------------------------------
(* Locks on a small set of requests, for TLC. *)
EXTENDS Locks
=============================================================================
