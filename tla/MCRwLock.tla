------------------------------ MODULE MCRwLock ------------------------------
(* RwLock with four threads and a reader limit that three readers reach. *)
EXTENDS RwLock, TLC

Symmetry == Permutations(Threads)
=============================================================================
