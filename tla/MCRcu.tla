------------------------------- MODULE MCRcu -------------------------------
(* Rcu for TLC: three CPUs, so that a grace period can miss one of them, and *)
(* two objects, so that memory is used again.                                *)
EXTENDS Rcu
=============================================================================
