------------------------------ MODULE MCMutex ------------------------------
(* Mutex with three threads, so that a woken thread can lose the race. *)
EXTENDS Mutex

CONSTANTS t1, t2, t3
=============================================================================
