---------------------------- MODULE MCScheduler ----------------------------
(* Instances of Scheduler for TLC. *)
EXTENDS Scheduler, TLC

CONSTANTS c1, c2, i1, i2, t1, t2

\* The kernel: every CPU runs its idle task first, the other tasks are normal.
Kernel ==
  [boot |-> [c \in CPUs |-> IF c = c1 THEN i1 ELSE i2],
   class |-> [t \in Tasks |-> IF t \in {i1, i2} THEN Idle ELSE 2],
   migrating |-> FALSE, spawns |-> {t1, t2} \cap Tasks]

\* A scheduler other than the kernel's is injected, which moves tasks.
Roaming == [Kernel EXCEPT !.migrating = TRUE]

\* Moreover, the first task of a CPU is no idle task and may sleep and exit.
Plain == [Roaming EXCEPT !.class = [t \in Tasks |-> 2], !.spawns = {}]

KernelAndOthers == {Kernel, Plain, Roaming}
KernelOnly == {Kernel}

\* The CPUs with their first tasks, and the tasks that are spawned, are alike.
Symmetry == Permutations({t1, t2}) \cup {(c1 :> c2) @@ (c2 :> c1) @@ (i1 :> i2) @@ (i2 :> i1)}
=============================================================================
