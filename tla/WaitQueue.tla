----------------------------- MODULE WaitQueue -----------------------------
(***************************************************************************)
(* ostd/src/sync/wait.rs: the wait queue every sleeping lock is built on,  *)
(* together with the part of the scheduler it calls (park_current and      *)
(* unpark_target of ostd/src/task/scheduler/mod.rs).                       *)
(*                                                                         *)
(* This module holds the steps of WaitQueue, Waiter and Waker.  A client   *)
(* (Mutex, RwMutex) EXTENDS it, supplies the condition a thread waits for, *)
(* and owns the pc value "run", where a thread is outside these functions. *)
(*                                                                         *)
(* A waker is named by its thread, because a thread has at most one waker  *)
(* that is not closed.  wake_up on a closed waker returns false whichever  *)
(* wait it belonged to, so when a waiter is dropped every reference to its *)
(* waker becomes Dead.                                                     *)
(***************************************************************************)
EXTENDS Naturals, Sequences, FiniteSets

CONSTANTS Threads, Dead

ASSUME DeadAssumption == Dead \notin Threads

VARIABLES
  wakers,     \* WaitQueue::wakers, a sequence of wakers
  numWakers,  \* WaitQueue::num_wakers, read without the lock
  hasWoken,   \* Waker::has_woken of each thread's waker; TRUE when closed
  parked,     \* threads that are in no run queue
  pc,         \* the next step of each thread
  target,     \* the waker, then the task, that a wake call is working on
  mode        \* whether a thread's wake call is wake_one or wake_all
              \* ("one" outside such a call)

queueVars == <<wakers, numWakers, hasWoken, parked, target, mode>>

Waker == Threads \cup {Dead}

\* The points at which a thread is inside this module.
WaitPC == {"enqueue", "recheck", "drop", "doWait", "parkCheck", "parkDequeue"}
WakePC == {"wakeStart", "pop", "wake", "unpark"}

QueueInit ==
  /\ wakers = <<>>
  /\ numWakers = 0
  /\ hasWoken = [t \in Threads |-> TRUE]
  /\ parked = {}
  /\ target = [t \in Threads |-> Dead]
  /\ mode = [t \in Threads |-> "one"]

\* A thread takes steps only while the scheduler has it in a run queue.
At(t, label) == pc[t] = label /\ t \notin parked

Goto(t, label) == pc' = [pc EXCEPT ![t] = label]

\* The end of a wake call.
Return(t) == Goto(t, "run") /\ mode' = [mode EXCEPT ![t] = "one"]

-----------------------------------------------------------------------------
(* Waiting *)

\* The slow path of wait_until, after cond() has failed once: a new waiter.
NewPair(t) ==
  /\ hasWoken' = [hasWoken EXCEPT ![t] = FALSE]
  /\ Goto(t, "enqueue")
  /\ UNCHANGED <<wakers, numWakers, parked, target, mode>>

\* The push and the increment happen under the lock of wakers.
enqueue(t) ==
  /\ At(t, "enqueue")
  /\ wakers' = Append(wakers, t)
  /\ numWakers' = numWakers + 1
  /\ Goto(t, "recheck")
  /\ UNCHANGED <<hasWoken, parked, target, mode>>

\* cond() has succeeded; Waiter::drop closes the waker.
dropWaiter(t) ==
  /\ At(t, "drop")
  /\ hasWoken' = [hasWoken EXCEPT ![t] = TRUE]
  /\ wakers' = [i \in DOMAIN wakers |-> IF wakers[i] = t THEN Dead ELSE wakers[i]]
  /\ target' = [u \in Threads |-> IF pc[u] = "wake" /\ target[u] = t
                                  THEN Dead ELSE target[u]]
  /\ Goto(t, "run")
  /\ UNCHANGED <<numWakers, parked, mode>>

\* The loop test of do_wait.
do_wait(t) ==
  /\ At(t, "doWait")
  /\ \/ /\ hasWoken[t]
        /\ hasWoken' = [hasWoken EXCEPT ![t] = FALSE]
        /\ Goto(t, "enqueue")
     \/ /\ ~hasWoken[t]
        /\ Goto(t, "parkCheck")
        /\ UNCHANGED hasWoken
  /\ UNCHANGED <<wakers, numWakers, parked, target, mode>>

\* Mutant: park_current without the has_unparked() test.
parkUnchecked(t) ==
  /\ At(t, "parkCheck")
  /\ Goto(t, "parkDequeue")
  /\ UNCHANGED queueVars

\* park_current, under the run queue's lock: has_unparked() ...
parkCheck(t) ==
  /\ At(t, "parkCheck")
  /\ Goto(t, IF hasWoken[t] THEN "doWait" ELSE "parkDequeue")
  /\ UNCHANGED queueVars

\* ... and dequeue_current.  The thread resumes at do_wait's loop test.
parkDequeue(t) ==
  /\ At(t, "parkDequeue")
  /\ parked' = parked \cup {t}
  /\ Goto(t, "doWait")
  /\ UNCHANGED <<wakers, numWakers, hasWoken, target, mode>>

-----------------------------------------------------------------------------
(* Waking *)

\* A client step enters wake_one or wake_all.
EnterWake(t, m) ==
  /\ mode' = [mode EXCEPT ![t] = m]
  /\ Goto(t, "wakeStart")
  /\ UNCHANGED <<wakers, numWakers, hasWoken, parked, target>>

\* The lock-free test is_empty().
wakeStart(t) ==
  /\ At(t, "wakeStart")
  /\ \/ numWakers = 0 /\ Return(t)
     \/ numWakers # 0 /\ Goto(t, "pop") /\ UNCHANGED mode
  /\ UNCHANGED <<wakers, numWakers, hasWoken, parked, target>>

\* Mutant: the pop without num_wakers.fetch_sub.
popUncounted(t) ==
  /\ At(t, "pop")
  /\ \/ /\ wakers = <<>>
        /\ Return(t)
        /\ UNCHANGED <<wakers, target>>
     \/ /\ wakers # <<>>
        /\ target' = [target EXCEPT ![t] = Head(wakers)]
        /\ wakers' = Tail(wakers)
        /\ Goto(t, "wake")
        /\ UNCHANGED mode
  /\ UNCHANGED <<numWakers, hasWoken, parked>>

\* pop_front under the lock of wakers.
pop(t) ==
  /\ At(t, "pop")
  /\ \/ /\ wakers = <<>>
        /\ Return(t)
        /\ UNCHANGED <<wakers, numWakers, target>>
     \/ /\ wakers # <<>>
        /\ target' = [target EXCEPT ![t] = Head(wakers)]
        /\ wakers' = Tail(wakers)
        /\ numWakers' = numWakers - 1
        /\ Goto(t, "wake")
        /\ UNCHANGED mode
  /\ UNCHANGED <<hasWoken, parked>>

\* The wakers whose has_woken a swap finds FALSE.
Wakeable == {t \in Threads : ~hasWoken[t]}

\* Mutant: wake_one gives up after a waker that is closed or already woken.
wakeOnce(t) ==
  /\ At(t, "wake")
  /\ \/ /\ target[t] \notin Wakeable
        /\ target' = [target EXCEPT ![t] = Dead]
        /\ Return(t)
        /\ UNCHANGED hasWoken
     \/ /\ target[t] \in Wakeable
        /\ hasWoken' = [hasWoken EXCEPT ![target[t]] = TRUE]
        /\ Goto(t, "unpark")
        /\ UNCHANGED <<target, mode>>
  /\ UNCHANGED <<wakers, numWakers, parked>>

\* The swap in Waker::wake_up.  A false result continues the loop of both
\* wake_one and wake_all.
wake_up(t) ==
  /\ At(t, "wake")
  /\ \/ /\ target[t] \notin Wakeable
        /\ target' = [target EXCEPT ![t] = Dead]
        /\ Goto(t, "pop")
        /\ UNCHANGED hasWoken
     \/ /\ target[t] \in Wakeable
        /\ hasWoken' = [hasWoken EXCEPT ![target[t]] = TRUE]
        /\ Goto(t, "unpark")
        /\ UNCHANGED target
  /\ UNCHANGED <<wakers, numWakers, parked, mode>>

\* unpark_target: the enqueue needs the run queue's lock, which the target
\* holds from parkCheck to parkDequeue.  It has no effect on a thread that is
\* still in a run queue.
unpark(t) ==
  /\ At(t, "unpark")
  /\ pc[target[t]] # "parkDequeue"
  /\ parked' = parked \ {target[t]}
  /\ target' = [target EXCEPT ![t] = Dead]
  /\ \/ mode[t] = "one" /\ Return(t)
     \/ mode[t] = "all" /\ Goto(t, "pop") /\ UNCHANGED mode
  /\ UNCHANGED <<wakers, numWakers, hasWoken>>

\* The steps that do not depend on the client.
QueueStep(t) ==
  \/ enqueue(t)
  \/ dropWaiter(t)
  \/ do_wait(t)
  \/ parkCheck(t)
  \/ parkDequeue(t)
  \/ wakeStart(t)
  \/ pop(t)
  \/ wake_up(t)
  \/ unpark(t)

-----------------------------------------------------------------------------
QueueTypeOK ==
  /\ wakers \in Seq(Waker)
  /\ numWakers \in Nat
  /\ hasWoken \in [Threads -> BOOLEAN]
  /\ parked \subseteq Threads
  /\ target \in [Threads -> Waker]
  /\ mode \in [Threads -> {"one", "all"}]

\* A thread between its failed recheck and its next enqueue.
Waiting(t) == pc[t] \in {"doWait", "parkCheck", "parkDequeue"}

\* A waiting thread that no wake call has reached yet.
Asleep(t) == Waiting(t) /\ ~hasWoken[t]

\* A wake call that may still wake a thread it has not chosen yet.
Waking(t) ==
  \/ pc[t] \in {"wakeStart", "pop", "wake"}
  \/ pc[t] = "unpark" /\ mode[t] = "all"

\* A thread that will evaluate its condition again.
WillRecheck(t) == pc[t] \in {"enqueue", "recheck"} \/ (Waiting(t) /\ hasWoken[t])

-----------------------------------------------------------------------------
(* What holds of the queue whatever its client does. *)

\* The steps in which a client evaluates its condition once it is queued.
CondPC == {"recheck", "undoRecheck"}

InQueue(t) == \E i \in DOMAIN wakers : wakers[i] = t

\* The waker of t can still be reached by a wake call.
Reachable(t) == InQueue(t) \/ \E u \in Threads : pc[u] = "wake" /\ target[u] = t

\* A waker that nobody has swapped since it was queued is reachable, and a
\* reachable waker belongs to a thread that is still in wait_until.
SleeperInv ==
  \A t \in Threads :
    /\ (pc[t] \in CondPC \/ Waiting(t)) /\ ~hasWoken[t] => Reachable(t)
    /\ Reachable(t) => pc[t] \in WaitPC \cup CondPC

\* A thread that is parked, or certain to park, after it was marked as woken
\* still has its unpark to come.
ParkInv ==
  /\ \A t \in parked : pc[t] = "doWait"
  /\ \A t \in Threads :
       (t \in parked \/ pc[t] = "parkDequeue") /\ hasWoken[t]
          => \E u \in Threads : pc[u] = "unpark" /\ target[u] = t
  /\ \A u \in Threads : pc[u] = "unpark" => target[u] \in Threads

\* The lock-free counter is "a copy of wakers.len()".
QueueInv == QueueTypeOK /\ numWakers = Len(wakers) /\ SleeperInv /\ ParkInv

\* Where some thread sleeps, another is about to wake a sleeper or to evaluate
\* its condition.
Attended ==
  (\E t \in Threads : Asleep(t)) => \E u \in Threads : Waking(u) \/ WillRecheck(u)
=============================================================================
