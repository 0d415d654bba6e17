------------------------------- MODULE Mutex -------------------------------
(***************************************************************************)
(* ostd/src/sync/mutex.rs: a sleeping lock made of an atomic flag and a    *)
(* wait queue.                                                             *)
(***************************************************************************)
EXTENDS WaitQueue

VARIABLES
  locked,   \* Mutex::lock
  guard     \* the threads that own a MutexGuard

mutexVars == <<wakers, numWakers, hasWoken, parked, pc, target, mode, locked, guard>>

MutexInit ==
  /\ QueueInit
  /\ pc = [t \in Threads |-> "run"]
  /\ locked = FALSE
  /\ guard = {}

\* Mutant: a store in place of acquire_lock's compare_exchange.
storeLock(t) ==
  /\ locked' = TRUE
  /\ guard' = guard \cup {t}

\* A successful try_lock: acquire_lock's compare_exchange and a new guard.
try_lock(t) ==
  /\ ~locked
  /\ locked' = TRUE
  /\ guard' = guard \cup {t}

\* lock: wait_until evaluates try_lock once before it makes a waiter.
lock(t) ==
  /\ At(t, "run") /\ t \notin guard
  /\ \/ try_lock(t) /\ UNCHANGED <<pc, queueVars>>
     \/ locked /\ NewPair(t) /\ UNCHANGED <<locked, guard>>

\* Mutant: the waiter sleeps without evaluating the condition after enqueue.
noRecheck(t) ==
  /\ At(t, "recheck")
  /\ Goto(t, "doWait")
  /\ UNCHANGED <<queueVars, locked, guard>>

\* try_lock again, now that the waker is in the queue.
tryAgain(t) ==
  /\ At(t, "recheck")
  /\ \/ try_lock(t) /\ Goto(t, "drop")
     \/ locked /\ Goto(t, "doWait") /\ UNCHANGED <<locked, guard>>
  /\ UNCHANGED queueVars

\* MutexGuard::drop: release_lock, then queue.wake_one().
unlock(t) ==
  /\ At(t, "run") /\ t \in guard
  /\ locked' = FALSE
  /\ guard' = guard \ {t}
  /\ EnterWake(t, "one")

MutexStep(t) ==
  \/ tryAgain(t)
  \/ unlock(t)
  \/ QueueStep(t) /\ UNCHANGED <<locked, guard>>

MutexNext == \E t \in Threads : lock(t) \/ MutexStep(t)

\* The scheduler runs every thread that is in a run queue, and an owner
\* eventually drops its guard; nobody has to ask for the lock.
MutexFairness == \A t \in Threads : WF_mutexVars(MutexStep(t))

MutexSpec == MutexInit /\ [][MutexNext]_mutexVars /\ MutexFairness

-----------------------------------------------------------------------------
MutexTypeOK ==
  /\ QueueTypeOK
  /\ pc \in [Threads -> {"run"} \cup WaitPC \cup WakePC]
  /\ locked \in BOOLEAN
  /\ guard \subseteq Threads

\* At most one thread owns a guard, and the flag is set exactly while one
\* does (lock / try_lock / MutexGuard::drop).
MutualExclusion ==
  /\ \A t, u \in guard : t = u
  /\ locked <=> guard # {}

\* No wakeup is lost: when the lock is free and a thread sleeps, some other
\* thread is still about to wake a sleeper or to try the lock itself, although
\* unlock's flag store, its is_empty test and its pop interleave freely with
\* the sleeper's enqueue, tryAgain and park.
NoLostMutexWakeup == ~locked => Attended

\* A thread that the wake side marked as woken does not stay out of the run
\* queues: the unpark that puts it back is still to come.
WokenIsUnparked ==
  \A t \in parked : hasWoken[t] => \E u \in Threads : pc[u] = "unpark" /\ target[u] = t

\* Progress of lock(): once nobody asks for the lock any more, every thread
\* that waits for it gets it.
NobodyStranded ==
  <>[][\A t \in Threads : ~lock(t)]_mutexVars
     => \A t \in Threads : []<>(pc[t] = "run")

-----------------------------------------------------------------------------
(* The inductive invariant behind the four properties above. *)

\* A guard is owned only outside the wait and wake functions, or between the
\* successful tryAgain and the drop of the waiter.
GuardInv ==
  /\ \A t \in guard : pc[t] \in {"run", "drop"}
  /\ \A t \in Threads : pc[t] = "drop" => t \in guard

\* The queue's invariant and the facts that make mutual exclusion and the
\* absence of lost wakeups inductive.
MutexInv == MutexTypeOK /\ QueueInv /\ MutualExclusion /\ GuardInv /\ NoLostMutexWakeup
=============================================================================
