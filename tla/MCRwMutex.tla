----------------------------- MODULE MCRwMutex -----------------------------
(* RwMutex with three threads; no reader limit is reached. *)
EXTENDS RwMutex, TLC

Symmetry == Permutations(Threads)
=============================================================================
