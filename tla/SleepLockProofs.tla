-------------------------- MODULE SleepLockProofs --------------------------
(***************************************************************************)
(* The wait queue and the two locks whose threads sleep in it.             *)
(*                                                                         *)
(* What every step of the wait queue keeps, whatever its client: QueueInv, *)
(* and that somebody attends to the sleepers.                              *)
(*                                                                         *)
(* For every set of threads: the mutex is exclusive, loses no wakeup and   *)
(* leaves no woken thread parked.  MutexInv is inductive; the queue's      *)
(* share of it is kept by the queue's lemmas, and what remains has one     *)
(* step per action of the mutex.                                           *)
(*                                                                         *)
(* For every set of threads smaller than MAX_READER: RwMutex implements    *)
(* the abstract readers-writer lock, and no drop of a guard loses a        *)
(* wakeup.  The lock word counts guards and half-done attempts, as that of *)
(* RwLock does.                                                            *)
(***************************************************************************)
EXTENDS Mutex, RwMutex, FiniteSetTheorems, TLAPS

-----------------------------------------------------------------------------
(* The wait queue *)

\* pop_front keeps every other entry of the queue (WaitQueue::wake_one).
LEMMA TailKeeps ==
  ASSUME NEW S, NEW s \in Seq(S), s # <<>>, NEW x, x # Head(s),
         \E i \in DOMAIN s : s[i] = x
  PROVE  \E j \in DOMAIN Tail(s) : Tail(s)[j] = x
<1>1. PICK i \in DOMAIN s : s[i] = x
  OBVIOUS
<1>2. /\ i \in 1..Len(s) /\ i # 1 /\ Len(s) \in Nat
      /\ DOMAIN Tail(s) = 1..(Len(s) - 1)
      /\ \A k \in 1..(Len(s) - 1) : Tail(s)[k] = s[k + 1]
  BY <1>1
<1>3. i - 1 \in DOMAIN Tail(s) /\ Tail(s)[i - 1] = s[i]
  BY <1>2
<1> QED BY <1>1, <1>3

\* pop_front adds nothing to the queue (WaitQueue::wake_one).
LEMMA TailAdds ==
  ASSUME NEW S, NEW s \in Seq(S), s # <<>>, NEW x,
         \E j \in DOMAIN Tail(s) : Tail(s)[j] = x
  PROVE  \E i \in DOMAIN s : s[i] = x
<1>1. PICK j \in DOMAIN Tail(s) : Tail(s)[j] = x
  OBVIOUS
<1>2. /\ Len(s) \in Nat /\ DOMAIN s = 1..Len(s) /\ j \in 1..(Len(s) - 1)
      /\ \A k \in 1..(Len(s) - 1) : Tail(s)[k] = s[k + 1]
  BY <1>1
<1>3. j + 1 \in DOMAIN s /\ s[j + 1] = x
  BY <1>1, <1>2
<1> QED BY <1>3

\* push_back keeps the queue and adds its argument (WaitQueue::enqueue).
LEMMA AppendKeeps ==
  ASSUME NEW S, NEW s \in Seq(S), NEW y \in S, NEW x
  PROVE  (\E j \in DOMAIN Append(s, y) : Append(s, y)[j] = x)
            <=> (x = y \/ \E i \in DOMAIN s : s[i] = x)
<1>1. /\ Len(s) \in Nat /\ DOMAIN s = 1..Len(s)
      /\ DOMAIN Append(s, y) = 1..(Len(s) + 1)
      /\ \A k \in 1..Len(s) : Append(s, y)[k] = s[k]
      /\ Append(s, y)[Len(s) + 1] = y
  OBVIOUS
<1> QED BY <1>1

\* QueueInv is kept by every step of the queue itself.
LEMMA QueueStepKeeps ==
  ASSUME NEW S, pc \in [Threads -> S], QueueInv, NEW t \in Threads, QueueStep(t)
  PROVE  QueueInv'
<1> USE DeadAssumption DEF At, Goto, QueueInv
<1>1. CASE enqueue(t)
  <2>1. QueueTypeOK'
    BY <1>1 DEF QueueTypeOK, Waker, enqueue
  <2>2. (numWakers = Len(wakers))'
    BY <1>1 DEF QueueTypeOK, enqueue
  <2>3. SleeperInv'
    <3>1. \A x \in Threads : InQueue(x)' <=> (x = t \/ InQueue(x))
      BY <1>1, AppendKeeps DEF QueueTypeOK, Waker, InQueue, enqueue
    <3> QED BY <1>1, <3>1 DEF QueueTypeOK, SleeperInv, Waiting, Reachable, WaitPC, CondPC,
          enqueue
  <2>4. ParkInv'
    BY <1>1 DEF QueueTypeOK, ParkInv, Waker, enqueue
  <2> QED BY <2>1, <2>2, <2>3, <2>4
<1>2. CASE dropWaiter(t)
  <2>1. QueueTypeOK'
    <3>1. wakers' \in Seq(Waker)
      BY <1>2 DEF QueueTypeOK, Waker, dropWaiter
    <3>2. /\ target' \in [Threads -> Waker] /\ hasWoken' \in [Threads -> BOOLEAN]
          /\ UNCHANGED <<numWakers, parked, mode>>
      BY <1>2, Zenon DEF QueueTypeOK, Waker, dropWaiter
    <3> QED BY <3>1, <3>2 DEF QueueTypeOK
  <2>2. (numWakers = Len(wakers))'
    BY <1>2 DEF QueueTypeOK, dropWaiter
  <2>3. SleeperInv'
    BY <1>2 DEF QueueTypeOK, SleeperInv, Waiting, Reachable, InQueue, ParkInv, Waker, WaitPC,
       CondPC, dropWaiter
  <2>4. ParkInv'
    BY <1>2 DEF QueueTypeOK, ParkInv, Waker, dropWaiter
  <2> QED BY <2>1, <2>2, <2>3, <2>4
<1>3. CASE do_wait(t)
  <2>1. QueueTypeOK'
    BY <1>3, Zenon DEF QueueTypeOK, Waker, do_wait
  <2>2. (numWakers = Len(wakers))'
    BY <1>3 DEF QueueTypeOK, do_wait
  <2>3. SleeperInv'
    BY <1>3 DEF QueueTypeOK, SleeperInv, Waiting, Reachable, InQueue, ParkInv, Waker, WaitPC,
       CondPC, do_wait
  <2>4. ParkInv'
    BY <1>3 DEF QueueTypeOK, ParkInv, Waker, do_wait
  <2> QED BY <2>1, <2>2, <2>3, <2>4
<1>4. CASE parkCheck(t)
  <2>1. QueueTypeOK'
    BY <1>4 DEF QueueTypeOK, Waker, parkCheck, queueVars
  <2>2. (numWakers = Len(wakers))'
    BY <1>4 DEF QueueTypeOK, parkCheck, queueVars
  <2>3. SleeperInv'
    BY <1>4 DEF QueueTypeOK, SleeperInv, Waiting, Reachable, InQueue, ParkInv, Waker, WaitPC,
       CondPC, parkCheck, queueVars
  <2>4. ParkInv'
    BY <1>4 DEF QueueTypeOK, ParkInv, Waker, parkCheck, queueVars
  <2> QED BY <2>1, <2>2, <2>3, <2>4
<1>5. CASE parkDequeue(t)
  <2>1. QueueTypeOK'
    BY <1>5 DEF QueueTypeOK, Waker, parkDequeue
  <2>2. (numWakers = Len(wakers))'
    BY <1>5 DEF QueueTypeOK, parkDequeue
  <2>3. SleeperInv'
    BY <1>5 DEF QueueTypeOK, SleeperInv, Waiting, Reachable, InQueue, ParkInv, Waker, WaitPC,
       CondPC, parkDequeue
  <2>4. ParkInv'
    BY <1>5 DEF QueueTypeOK, ParkInv, Waker, parkDequeue
  <2> QED BY <2>1, <2>2, <2>3, <2>4
<1>6. CASE wakeStart(t)
  <2>1. QueueTypeOK'
    BY <1>6 DEF QueueTypeOK, Waker, wakeStart, Return
  <2>2. (numWakers = Len(wakers))'
    BY <1>6 DEF QueueTypeOK, wakeStart, Return
  <2>3. SleeperInv'
    BY <1>6 DEF QueueTypeOK, SleeperInv, Waiting, Reachable, InQueue, ParkInv, Waker, WaitPC,
       CondPC, wakeStart, Return
  <2>4. ParkInv'
    BY <1>6 DEF QueueTypeOK, ParkInv, Waker, wakeStart, Return
  <2> QED BY <2>1, <2>2, <2>3, <2>4
<1>7. CASE pop(t)
  <2>1. CASE wakers = <<>>
    <3>1. UNCHANGED <<wakers, numWakers, target, hasWoken, parked>> /\ Return(t) /\ pc[t] = "pop"
      BY <1>7, <2>1 DEF pop
    <3>2. QueueTypeOK'
      BY <3>1 DEF QueueTypeOK, Return
    <3>3. SleeperInv' /\ ParkInv'
      BY <3>1 DEF QueueTypeOK, SleeperInv, Waiting, Reachable, InQueue, ParkInv, WaitPC,
         CondPC, Return
    <3> QED BY <3>1, <3>2, <3>3
  <2>2. CASE wakers # <<>>
    <3>1. /\ UNCHANGED <<hasWoken, parked, mode>> /\ Goto(t, "wake") /\ pc[t] = "pop"
          /\ target' = [target EXCEPT ![t] = Head(wakers)]
          /\ wakers' = Tail(wakers) /\ numWakers' = numWakers - 1 /\ t \notin parked
      BY <1>7, <2>2 DEF pop
    <3>2. /\ Len(wakers) \in Nat /\ Len(wakers) # 0 /\ wakers \in Seq(Waker)
          /\ Head(wakers) \in Waker /\ Tail(wakers) \in Seq(Waker)
          /\ Len(Tail(wakers)) = Len(wakers) - 1
      BY <2>2 DEF QueueTypeOK
    <3>3. QueueTypeOK' /\ (numWakers = Len(wakers))'
      BY <3>1, <3>2 DEF QueueTypeOK
    <3>4. ASSUME NEW x \in Threads, InQueue(x), x # Head(wakers) PROVE InQueue(x)'
      <4>1. \E j \in DOMAIN Tail(wakers) : Tail(wakers)[j] = x
        BY <2>2, <3>2, <3>4, TailKeeps, Zenon DEF InQueue
      <4> QED BY <3>1, <4>1 DEF InQueue
    <3>5. ASSUME NEW x \in Threads, InQueue(x)' PROVE InQueue(x)
      <4>1. \E j \in DOMAIN Tail(wakers) : Tail(wakers)[j] = x
        BY <3>1, <3>5 DEF InQueue
      <4> QED BY <2>2, <3>2, <4>1, TailAdds, Zenon DEF InQueue
    <3>6. InQueue(Head(wakers))
      <4>1. 1 \in DOMAIN wakers /\ wakers[1] = Head(wakers)
        BY <2>2, <3>2
      <4> QED BY <4>1 DEF InQueue
    <3>7. \A x \in Threads : Reachable(x)' <=> Reachable(x)
      BY <3>1, <3>4, <3>5, <3>6 DEF QueueTypeOK, Reachable
    <3>8. SleeperInv'
      BY <3>1, <3>7 DEF SleeperInv, Waiting, WaitPC, CondPC
    <3>9. ParkInv'
      <4>1. \A u \in Threads : u # t => target'[u] = target[u]
        BY <3>1 DEF QueueTypeOK
      <4> QED BY <3>1, <4>1 DEF ParkInv
    <3> QED BY <3>3, <3>8, <3>9
  <2> QED BY <2>1, <2>2
<1>8. CASE wake_up(t)
  <2>1. QueueTypeOK'
    BY <1>8, Zenon DEF QueueTypeOK, Waker, wake_up, Wakeable
  <2>2. (numWakers = Len(wakers))'
    BY <1>8 DEF QueueTypeOK, wake_up, Wakeable
  <2>3. SleeperInv'
    BY <1>8 DEF QueueTypeOK, SleeperInv, Waiting, Reachable, InQueue, ParkInv, Waker, WaitPC,
       CondPC, wake_up, Wakeable
  <2>4. ParkInv'
    BY <1>8 DEF QueueTypeOK, ParkInv, Waker, wake_up, Wakeable
  <2> QED BY <2>1, <2>2, <2>3, <2>4
<1>9. CASE unpark(t)
  <2>1. QueueTypeOK'
    BY <1>9 DEF QueueTypeOK, Waker, unpark, Return
  <2>2. (numWakers = Len(wakers))'
    BY <1>9 DEF QueueTypeOK, unpark, Return
  <2>3. SleeperInv'
    BY <1>9 DEF QueueTypeOK, SleeperInv, Waiting, Reachable, InQueue, ParkInv, Waker, WaitPC,
       CondPC, unpark, Return
  <2>4. ParkInv'
    BY <1>9 DEF QueueTypeOK, ParkInv, Waker, unpark, Return
  <2> QED BY <2>1, <2>2, <2>3, <2>4
<1> QED BY <1>1, <1>2, <1>3, <1>4, <1>5, <1>6, <1>7, <1>8, <1>9 DEF QueueStep

\* A step of the queue leaves nobody asleep unattended, as long as no thread
\* could swallow a wakeup: at "drop" it no longer needs it, at "undoRecheck" it
\* has not finished its attempt.
LEMMA QueueStepAttends ==
  ASSUME NEW S, pc \in [Threads -> S], QueueInv, Attended, NEW t \in Threads, QueueStep(t),
         \A u \in Threads : pc[u] \notin {"drop", "undoRecheck"}
  PROVE  Attended'
<1> USE DeadAssumption DEF At, Goto, QueueInv
<1>1. CASE enqueue(t)
  BY <1>1 DEF QueueTypeOK, Attended, SleeperInv, ParkInv, Reachable, InQueue, Asleep, Waiting, Waking,
     WillRecheck, Waker, WaitPC, CondPC, enqueue
<1>2. CASE dropWaiter(t)
  BY <1>2 DEF QueueTypeOK, Attended, SleeperInv, ParkInv, Reachable, InQueue, Asleep, Waiting, Waking,
     WillRecheck, Waker, WaitPC, CondPC, dropWaiter
<1>3. CASE do_wait(t)
  BY <1>3 DEF QueueTypeOK, Attended, SleeperInv, ParkInv, Reachable, InQueue, Asleep, Waiting, Waking,
     WillRecheck, Waker, WaitPC, CondPC, do_wait
<1>4. CASE parkCheck(t)
  BY <1>4 DEF QueueTypeOK, Attended, SleeperInv, ParkInv, Reachable, InQueue, Asleep, Waiting, Waking,
     WillRecheck, Waker, WaitPC, CondPC, parkCheck, queueVars
<1>5. CASE parkDequeue(t)
  BY <1>5 DEF QueueTypeOK, Attended, SleeperInv, ParkInv, Reachable, InQueue, Asleep, Waiting, Waking,
     WillRecheck, Waker, WaitPC, CondPC, parkDequeue
<1>6. CASE wakeStart(t)
  BY <1>6 DEF QueueTypeOK, Attended, SleeperInv, ParkInv, Reachable, InQueue, Asleep, Waiting, Waking,
     WillRecheck, Waker, WaitPC, CondPC, wakeStart, Return
<1>7. CASE pop(t)
  BY <1>7 DEF QueueTypeOK, Attended, SleeperInv, ParkInv, Reachable, InQueue, Asleep, Waiting, Waking,
     WillRecheck, Waker, WaitPC, CondPC, pop, Return
<1>8. CASE wake_up(t)
  BY <1>8 DEF QueueTypeOK, Attended, SleeperInv, ParkInv, Reachable, InQueue, Asleep, Waiting, Waking,
     WillRecheck, Waker, WaitPC, CondPC, wake_up, Wakeable
<1>9. CASE unpark(t)
  BY <1>9 DEF QueueTypeOK, Attended, SleeperInv, ParkInv, Reachable, InQueue, Asleep, Waiting, Waking,
     WillRecheck, Waker, WaitPC, CondPC, unpark, Return
<1> QED BY <1>1, <1>2, <1>3, <1>4, <1>5, <1>6, <1>7, <1>8, <1>9 DEF QueueStep

\* A step of the client outside the queue.
LEMMA ClientKeeps ==
  ASSUME NEW S, pc \in [Threads -> S], QueueInv, NEW t \in Threads, t \notin parked,
         NEW l, pc' = [pc EXCEPT ![t] = l], UNCHANGED queueVars,
         pc[t] \notin WaitPC \cup CondPC \cup WakePC, l \notin WaitPC \cup CondPC \cup WakePC
  PROVE  QueueInv'
<1> USE DEF QueueInv
<1>1. QueueTypeOK' /\ (numWakers = Len(wakers))'
  BY DEF QueueTypeOK, queueVars
<1>2. SleeperInv'
  BY DEF QueueTypeOK, SleeperInv, Waiting, Reachable, InQueue, WaitPC, WakePC, CondPC, queueVars
<1>3. ParkInv'
  BY DEF QueueTypeOK, ParkInv, WaitPC, WakePC, CondPC, queueVars
<1> QED BY <1>1, <1>2, <1>3

\* A step in which the client evaluates its condition.
LEMMA ConditionKeeps ==
  ASSUME NEW S, pc \in [Threads -> S], QueueInv, NEW t \in Threads, t \notin parked,
         NEW l \in {"undoRecheck", "drop", "doWait"}, pc' = [pc EXCEPT ![t] = l],
         UNCHANGED queueVars, pc[t] \in CondPC
  PROVE  QueueInv'
<1> USE DEF QueueInv
<1>1. QueueTypeOK' /\ (numWakers = Len(wakers))'
  BY DEF QueueTypeOK, queueVars
<1>2. SleeperInv'
  BY DEF QueueTypeOK, SleeperInv, Waiting, Reachable, InQueue, WaitPC, WakePC, CondPC, queueVars
<1>3. ParkInv'
  BY DEF QueueTypeOK, ParkInv, WaitPC, WakePC, CondPC, queueVars
<1> QED BY <1>1, <1>2, <1>3

\* The client begins to wait.
LEMMA NewPairKeeps ==
  ASSUME NEW S, pc \in [Threads -> S], QueueInv, NEW t \in Threads, t \notin parked,
         NewPair(t), pc[t] \notin WaitPC \cup CondPC \cup WakePC
  PROVE  QueueInv'
<1> USE DEF QueueInv, NewPair, Goto
<1>1. QueueTypeOK' /\ (numWakers = Len(wakers))'
  BY DEF QueueTypeOK
<1>2. SleeperInv'
  BY DEF QueueTypeOK, SleeperInv, Waiting, Reachable, InQueue, WaitPC, WakePC, CondPC
<1>3. ParkInv'
  BY DEF QueueTypeOK, ParkInv, WaitPC, WakePC
<1> QED BY <1>1, <1>2, <1>3

\* The client calls wake_one or wake_all.
LEMMA EnterWakeKeeps ==
  ASSUME NEW S, pc \in [Threads -> S], QueueInv, NEW t \in Threads, t \notin parked,
         NEW m \in {"one", "all"}, EnterWake(t, m), pc[t] \notin WaitPC \cup CondPC \cup WakePC
  PROVE  QueueInv'
<1> USE DEF QueueInv, EnterWake, Goto
<1>1. QueueTypeOK' /\ (numWakers = Len(wakers))'
  BY DEF QueueTypeOK
<1>2. SleeperInv'
  BY DEF QueueTypeOK, SleeperInv, Waiting, Reachable, InQueue, WaitPC, WakePC, CondPC
<1>3. ParkInv'
  BY DEF QueueTypeOK, ParkInv, WaitPC, WakePC
<1> QED BY <1>1, <1>2, <1>3

-----------------------------------------------------------------------------
(* Mutex *)

\* The steps of the wait queue keep the mutex's part of the invariant: no
\* thread comes to or leaves "run" or "drop" with the wrong guard.
LEMMA MutexQueueKeeps ==
  ASSUME MutexInv, NEW t \in Threads, QueueStep(t), UNCHANGED <<locked, guard>>
  PROVE  MutexInv'
<1> USE DEF MutexInv
<1>1. pc \in [Threads -> {"run"} \cup WaitPC \cup WakePC] /\ QueueInv
  BY DEF MutexTypeOK
<1>2. QueueInv'
  BY <1>1, QueueStepKeeps, Zenon
<1>3. /\ pc[t] \in (WaitPC \ {"recheck"}) \cup WakePC
      /\ \E l \in ({"run"} \cup WaitPC \cup WakePC) \ {"drop"} : pc' = [pc EXCEPT ![t] = l]
      /\ pc[t] = "drop" => pc' = [pc EXCEPT ![t] = "run"]
  BY DEF QueueStep, enqueue, dropWaiter, do_wait, parkCheck, parkDequeue, wakeStart, pop,
     wake_up, unpark, Return, At, Goto, WaitPC, WakePC
<1>4. MutexTypeOK' /\ MutualExclusion'
  BY <1>2, <1>3 DEF MutexTypeOK, QueueInv, MutualExclusion
<1>5. GuardInv'
  BY <1>1, <1>3 DEF GuardInv, WaitPC, WakePC
<1>6. NoLostMutexWakeup'
  <2>1. SUFFICES ASSUME ~locked PROVE Attended'
    BY DEF NoLostMutexWakeup
  <2>2. \A u \in Threads : pc[u] \notin {"drop", "undoRecheck"}
    BY <1>1, <2>1 DEF MutualExclusion, GuardInv, WaitPC, WakePC
  <2> QED BY <1>1, <2>1, <2>2, QueueStepAttends, Zenon DEF NoLostMutexWakeup
<1> QED BY <1>2, <1>4, <1>5, <1>6

\* MutexInv is an inductive invariant of Mutex, whatever the set of threads.
LEMMA MutexInductive == MutexInv /\ [MutexNext]_mutexVars => MutexInv'
<1> SUFFICES ASSUME MutexInv, [MutexNext]_mutexVars PROVE MutexInv'
  OBVIOUS
<1> USE DEF At, Goto, MutexInv
<1>1. pc \in [Threads -> {"run"} \cup WaitPC \cup WakePC] /\ QueueInv
  BY DEF MutexTypeOK
<1>2. ASSUME NEW t \in Threads, lock(t) PROVE MutexInv'
  <2>1. CASE try_lock(t) /\ UNCHANGED <<pc, queueVars>>
    <3>1. QueueInv' /\ MutexTypeOK'
      BY <2>1 DEF MutexTypeOK, try_lock, QueueInv, QueueTypeOK, SleeperInv, ParkInv, Waiting,
         Reachable, InQueue, queueVars
    <3>2. MutualExclusion' /\ GuardInv' /\ NoLostMutexWakeup'
      BY <1>2, <2>1 DEF lock, try_lock, MutualExclusion, GuardInv, NoLostMutexWakeup
    <3> QED BY <3>1, <3>2
  <2>2. CASE locked /\ NewPair(t) /\ UNCHANGED <<locked, guard>>
    <3>1. QueueInv'
      BY <1>1, <1>2, <2>2, NewPairKeeps, Zenon DEF lock, WaitPC, WakePC, CondPC
    <3>2. MutexTypeOK' /\ MutualExclusion' /\ GuardInv' /\ NoLostMutexWakeup'
      BY <1>1, <1>2, <2>2, <3>1 DEF lock, NewPair, MutexTypeOK, QueueInv, MutualExclusion, GuardInv,
         NoLostMutexWakeup, WaitPC
    <3> QED BY <3>1, <3>2
  <2> QED BY <1>2, <2>1, <2>2 DEF lock
<1>3. ASSUME NEW t \in Threads, tryAgain(t) PROVE MutexInv'
  <2>1. PICK l \in {"drop", "doWait"} : pc' = [pc EXCEPT ![t] = l]
    BY <1>3 DEF tryAgain
  <2>2. QueueInv'
    BY <1>1, <1>3, <2>1, ConditionKeeps, Zenon DEF tryAgain, CondPC
  <2>3. MutexTypeOK'
    BY <1>1, <1>3, <2>1, <2>2, Zenon DEF tryAgain, try_lock, MutexTypeOK, QueueInv, WaitPC
  <2>4. locked' /\ MutualExclusion' /\ GuardInv'
    BY <1>1, <1>3 DEF tryAgain, try_lock, MutexTypeOK, MutualExclusion, GuardInv
  <2> QED BY <2>2, <2>3, <2>4 DEF NoLostMutexWakeup
<1>4. ASSUME NEW t \in Threads, unlock(t) PROVE MutexInv'
  <2>1. QueueInv'
    BY <1>1, <1>4, EnterWakeKeeps, Zenon DEF unlock, WaitPC, WakePC, CondPC
  <2>2. MutexTypeOK' /\ MutualExclusion' /\ GuardInv'
    BY <1>1, <1>4, <2>1, Zenon DEF unlock, EnterWake, MutexTypeOK, QueueInv, MutualExclusion, GuardInv,
       WakePC
  <2>3. NoLostMutexWakeup'
    <3>1. Waking(t)'
      BY <1>1, <1>4 DEF unlock, EnterWake, Waking
    <3> QED BY <3>1 DEF NoLostMutexWakeup, Attended
  <2> QED BY <2>1, <2>2, <2>3
<1>5. CASE UNCHANGED mutexVars
  BY <1>5 DEF mutexVars, MutexTypeOK, QueueInv, QueueTypeOK, MutualExclusion, GuardInv, SleeperInv,
     Reachable, InQueue, ParkInv, NoLostMutexWakeup, Attended, Asleep, Waiting, Waking, WillRecheck
<1> QED BY <1>2, <1>3, <1>4, <1>5, MutexQueueKeeps DEF MutexNext, MutexStep

\* The freshly created mutex satisfies the invariant.
LEMMA MutexInitial == MutexInit => MutexInv
<1> SUFFICES ASSUME MutexInit PROVE MutexInv
  OBVIOUS
<1> USE DEF MutexInit, QueueInit
<1>1. wakers \in Seq(Waker) /\ Len(wakers) = 0 /\ DOMAIN wakers = {}
  BY SMT DEF Waker
<1>2. MutexTypeOK
  BY <1>1, Zenon DEF MutexTypeOK, QueueTypeOK, Waker, WaitPC, WakePC
<1>3. MutualExclusion /\ GuardInv /\ ParkInv
  BY DEF MutualExclusion, GuardInv, ParkInv
<1>4. SleeperInv /\ NoLostMutexWakeup
  BY <1>1 DEF SleeperInv, Reachable, InQueue, NoLostMutexWakeup, Attended, Asleep, Waiting, CondPC
<1> QED BY <1>1, <1>2, <1>3, <1>4 DEF MutexInv, QueueInv, MutexTypeOK

\* MutexInv holds in every reachable state.
THEOREM MutexInvariance == MutexSpec => []MutexInv
BY MutexInitial, MutexInductive, PTL DEF MutexSpec

\* MutexTypeOK holds in every reachable state of the mutex, and num_wakers is a
\* faithful copy of the queue's length (the fast path of wake_one reads it).
THEOREM MutexTypeCorrect == MutexSpec => [](MutexTypeOK /\ numWakers = Len(wakers))
<1>1. MutexInv => MutexTypeOK /\ numWakers = Len(wakers)
  BY DEF MutexInv, QueueInv
<1> QED BY <1>1, MutexInvariance, PTL

\* At most one thread owns the guard, and the flag is set exactly while one
\* does: lock, try_lock and MutexGuard::drop keep the mutex exclusive.
THEOREM MutexExclusive == MutexSpec => []MutualExclusion
<1>1. MutexInv => MutualExclusion
  BY DEF MutexInv
<1> QED BY <1>1, MutexInvariance, PTL

\* However unlock interleaves with lock, a free mutex with a sleeper always
\* has a thread that is about to wake one or to try the lock.
THEOREM MutexWakeupsKept == MutexSpec => []NoLostMutexWakeup
<1>1. MutexInv => NoLostMutexWakeup
  BY DEF MutexInv
<1> QED BY <1>1, MutexInvariance, PTL

\* wake_up racing with park_current: a parked thread whose has_woken is set
\* still has its unpark_target to come.
THEOREM WokenReturns == MutexSpec => []WokenIsUnparked
<1>1. MutexInv => WokenIsUnparked
  BY DEF MutexInv, QueueInv, QueueTypeOK, ParkInv, WokenIsUnparked
<1> QED BY <1>1, MutexInvariance, PTL

-----------------------------------------------------------------------------
(* RwMutex *)

PCs == RwPC \cup WaitPC \cup WakePC

\* Zenon proves most leaves below; those it does not reach name SMT.
USE Zenon

\* Two words with the same fields are the same.
LEMMA SameWord ==
  ASSUME NEW x \in Word, NEW y \in Word, x.r = y.r, x.u = y.u, x.w = y.w, x.b = y.b
  PROVE  x = y
BY SMT DEF Word

\* The threads that word.r counts are finitely many, and no more than MAX_READER.
LEMMA Finite ==
  /\ IsFiniteSet(Counted) /\ Cardinality(Counted) \in Nat
  /\ Cardinality(Counted) = 0 => Counted = {}
  /\ \A t \in Threads : t \notin Counted => Cardinality(Counted) < MaxReader
<1>1. Counted \in SUBSET Threads
  BY DEF Counted
<1>2. IsFiniteSet(Counted) /\ Cardinality(Counted) \in Nat
  BY <1>1, ThreadsAssumption, FS_Subset, FS_CardinalityType
<1>3. ASSUME NEW t \in Threads, t \notin Counted PROVE Cardinality(Counted) < MaxReader
  <2>1. Cardinality(Counted \cup {t}) = Cardinality(Counted) + 1
    BY <1>2, <1>3, FS_AddElement
  <2>2. Cardinality(Counted \cup {t}) <= Cardinality(Threads)
    <3>1. Counted \cup {t} \in SUBSET Threads
      BY <1>1
    <3> QED BY <3>1, ThreadsAssumption, FS_Subset
  <2>3. Cardinality(Threads) \in Nat
    BY ThreadsAssumption, FS_CardinalityType
  <2> QED BY <1>2, <2>1, <2>2, <2>3, ThreadsAssumption, MaxReaderAssumption, SMT
<1> QED BY <1>2, <1>3, FS_EmptySet

\* Beside a zero word nobody has a guard and no attempt is half done.
LEMMA FreeIsIdle ==
  ASSUME TypeOK, Accounts, word = Free, NEW t \in Threads
  PROVE  owns[t] = "none" /\ pc[t] \notin UndoPC \cup {"drop", "upgraded"}
<1>1. Counted = {}
  BY Finite DEF Accounts, CountInv, Free
<1>2. ~word.u /\ ~word.w
  BY DEF Free
<1>3. owns[t] = "none"
  BY <1>1, <1>2 DEF TypeOK, Kinds, Accounts, BitInv, HoldsUpread, Counted
<1>4. pc[t] \notin UndoPC
  BY <1>1, <1>2 DEF Accounts, PcInv, BitInv, HoldsUpread, Counted, Undoing
<1> QED BY <1>2, <1>3, <1>4 DEF Accounts, PcInv, BitInv, HoldsUpread

\* While one thread alone is in the way of a writer, nobody undoes an attempt.
LEMMA UpgradableIsIdle ==
  ASSUME TypeOK, Accounts, word.r = 0, NEW v \in Threads, owns[v] = "upread",
         NEW t \in Threads
  PROVE  pc[t] \notin UndoPC /\ owns[t] # "read"
<1>1. Counted = {}
  BY Finite DEF Accounts, CountInv
<1> QED BY <1>1 DEF Accounts, PcInv, BitInv, HoldsUpread, Counted, Undoing

-----------------------------------------------------------------------------
(* What the operations on the word keep of its meaning *)

\* A guard is granted.
LEMMA TakeStep ==
  ASSUME TypeOK, Accounts, NEW t \in Threads, NEW k \in Kinds, granted(t, k),
         owns[t] = "none", pc[t] \in {"run", "recheck"},
         NEW l \in {"run", "drop"}, pc' = [pc EXCEPT ![t] = l], l = "drop" \/ pc[t] = "run"
  PROVE  Accounts' /\ word' \in Word /\ word' # Free
<1> USE DEF Accounts
<1>1. owns' = [owns EXCEPT ![t] = k] /\ want' = [want EXCEPT ![t] = "none"]
  BY DEF granted, Become, Ask
<1>2. PcInv'
  BY <1>1, ZenonT(30) DEF TypeOK, PcInv, Kinds, UndoPC, AskPC, WaitPC
<1>3. \A u \in Threads : Undoing(u, "read")' <=> Undoing(u, "read")
  BY <1>1 DEF TypeOK, Undoing, UndoPC
<1>4. \A u \in Threads : Undoing(u, "upread")' <=> Undoing(u, "upread")
  BY <1>1 DEF TypeOK, Undoing, UndoPC
<1>5. CASE k = "read"
  <2>1. word' = [word EXCEPT !.r = @ + 1] /\ ~word.w /\ ~word.b
    BY <1>5 DEF granted, Grants, After
  <2>2. Counted' = Counted \cup {t} /\ t \notin Counted
    BY <1>1, <1>3, <1>5, SMT DEF TypeOK, Counted, Undoing, UndoPC
  <2>3. Cardinality(Counted') = Cardinality(Counted) + 1
    BY <2>2, Finite, FS_AddElement
  <2>4. word'.r = word.r + 1 /\ word' \in Word /\ word' # Free
    BY <2>1, SMT DEF TypeOK, Word, Free
  <2>5. \A u \in Threads : HoldsUpread(u)' <=> HoldsUpread(u)
    BY <1>1, <1>4, <1>5 DEF TypeOK, HoldsUpread
  <2>6. BitInv' /\ Abstract!Exclusion'
    BY <1>1, <1>5, <2>1, <2>5 DEF TypeOK, Word, BitInv, Abstract!Exclusion
  <2> QED BY <1>2, <2>3, <2>4, <2>6 DEF CountInv
<1>6. CASE k = "upread"
  <2>1. word' = [word EXCEPT !.u = TRUE] /\ ~word.w /\ ~word.u
    BY <1>6 DEF granted, Grants, After
  <2>2. Counted' = Counted
    BY <1>1, <1>3, <1>6 DEF TypeOK, Counted
  <2>3. \A u \in Threads : HoldsUpread(u)' <=> (HoldsUpread(u) \/ u = t)
    BY <1>1, <1>4, <1>6 DEF TypeOK, HoldsUpread
  <2>4. BitInv'
    BY <1>1, <1>6, <2>1, <2>3 DEF TypeOK, Word, BitInv
  <2>5. Abstract!Exclusion'
    BY <1>1, <1>6, <2>1 DEF TypeOK, BitInv, HoldsUpread, Abstract!Exclusion
  <2>6. word' \in Word /\ word' # Free /\ word'.r = word.r
    BY <2>1 DEF TypeOK, Word, Free
  <2> QED BY <1>2, <2>2, <2>4, <2>5, <2>6 DEF CountInv
<1>7. CASE k = "write"
  <2>1. word = Free /\ word' = [word EXCEPT !.w = TRUE]
    BY <1>7 DEF granted, Grants, After
  <2>2. Counted' = Counted
    BY <1>1, <1>3, <1>7 DEF TypeOK, Counted
  <2>3. \A u \in Threads : owns[u] = "none" /\ ~HoldsUpread(u)
    BY <2>1, FreeIsIdle DEF HoldsUpread, Undoing
  <2>4. \A u \in Threads : ~HoldsUpread(u)'
    BY <1>1, <1>4, <1>7, <2>3 DEF TypeOK, HoldsUpread
  <2>5. BitInv'
    BY <1>1, <1>7, <2>1, <2>3, <2>4 DEF TypeOK, Word, Free, BitInv
  <2>6. Abstract!Exclusion'
    BY <1>1, <1>7, <2>3 DEF TypeOK, Abstract!Exclusion
  <2>7. word' \in Word /\ word' # Free /\ word'.r = word.r
    BY <2>1 DEF TypeOK, Word, Free
  <2> QED BY <1>2, <2>2, <2>5, <2>6, <2>7 DEF CountInv
<1> QED BY <1>5, <1>6, <1>7 DEF Kinds

\* An attempt is refused.
LEMMA RefuseStep ==
  ASSUME TypeOK, Accounts, NEW t \in Threads, NEW k \in Kinds, refused(t, k),
         owns[t] = "none", pc[t] \in {"run", "recheck"},
         NEW l \in UndoPC \cup AskPC, pc' = [pc EXCEPT ![t] = l], l \in UndoPC <=> Undoes(word, k)
  PROVE  /\ Accounts' /\ word' \in Word /\ word' # Free
         /\ word'.w = word.w /\ word'.b = word.b
         /\ Undoes(word, k) => word.w \/ word.b
<1> USE DEF Accounts
<1>1. owns' = owns /\ want' = [want EXCEPT ![t] = k]
  BY DEF refused, Ask
<1>2. PcInv'
  BY <1>1 DEF TypeOK, PcInv, Kinds, Undoes, UndoPC, AskPC, WaitPC
<1>3. t \notin Counted /\ ~HoldsUpread(t)
  BY DEF TypeOK, Counted, HoldsUpread, Undoing, UndoPC
<1>4. CASE k = "read"
  <2>1. word' = [word EXCEPT !.r = @ + 1] /\ l \in UndoPC
    BY <1>4 DEF refused, After, Undoes
  <2>2. word.w \/ word.b
    <3>1. word.r < MaxReader
      BY <1>3, Finite DEF CountInv
    <3> QED BY <1>4, <3>1 DEF refused, Grants
  <2>3. Counted' = Counted \cup {t}
    BY <1>1, <1>4, <2>1 DEF TypeOK, Counted, Undoing
  <2>4. Cardinality(Counted') = Cardinality(Counted) + 1
    BY <1>3, <2>3, Finite, FS_AddElement
  <2>5. /\ word' \in Word /\ word' # Free /\ word'.r = word.r + 1
        /\ word'.u = word.u /\ word'.w = word.w /\ word'.b = word.b
    BY <2>1, SMT DEF TypeOK, Word, Free
  <2>6. \A u \in Threads : HoldsUpread(u)' <=> HoldsUpread(u)
    BY <1>1, <1>4, <2>1 DEF TypeOK, HoldsUpread, Undoing, UndoPC
  <2>7. BitInv' /\ Abstract!Exclusion'
    BY <1>1, <2>1, <2>5, <2>6 DEF TypeOK, BitInv, UndoPC, Abstract!Exclusion
  <2> QED BY <1>2, <2>2, <2>4, <2>5, <2>7 DEF CountInv
<1>5. CASE k = "upread"
  <2>1. word' = [word EXCEPT !.u = TRUE] /\ (word.w \/ word.u)
    BY <1>5 DEF refused, Grants, After
  <2>2. /\ word' \in Word /\ word' # Free /\ word'.r = word.r
        /\ word'.u /\ word'.w = word.w /\ word'.b = word.b
    BY <2>1 DEF TypeOK, Word, Free
  <2>3. Counted' = Counted
    BY <1>1, <1>3, <1>5 DEF TypeOK, Counted, Undoing
  <2>4. l \in UndoPC <=> word.w /\ ~word.u
    BY <1>5 DEF Undoes
  <2>5. \A u \in Threads : HoldsUpread(u)' <=> (HoldsUpread(u) \/ (u = t /\ l \in UndoPC))
    BY <1>1, <1>3, <1>5 DEF TypeOK, HoldsUpread, Undoing, UndoPC, AskPC, WaitPC
  <2>6. BitInv' /\ Abstract!Exclusion'
    <3>1. BitInv'
      BY <1>1, <2>1, <2>2, <2>4, <2>5 DEF TypeOK, BitInv, UndoPC, AskPC, WaitPC
    <3>2. Abstract!Exclusion'
      BY <1>1 DEF Abstract!Exclusion
    <3> QED BY <3>1, <3>2
  <2> QED BY <1>2, <1>5, <2>2, <2>3, <2>6 DEF CountInv, Undoes
<1>6. CASE k = "write"
  <2>1. word' = word /\ word # Free /\ l \in AskPC
    BY <1>6 DEF refused, Grants, After, Undoes
  <2>2. Counted' = Counted /\ \A u \in Threads : HoldsUpread(u)' <=> HoldsUpread(u)
    BY <1>1, <1>3, <1>6, <2>1 DEF TypeOK, Counted, HoldsUpread, Undoing, UndoPC, AskPC, WaitPC
  <2>3. BitInv' /\ Abstract!Exclusion'
    BY <1>1, <2>1, <2>2 DEF TypeOK, BitInv, AskPC, WaitPC, Abstract!Exclusion
  <2> QED BY <1>2, <1>6, <2>1, <2>2, <2>3 DEF CountInv, TypeOK, Undoes
<1> QED BY <1>4, <1>5, <1>6 DEF Kinds

\* One reader less: the drop of a read guard, or the fetch_sub of a refused
\* try_read.
LEMMA LessOneReader ==
  ASSUME CountInv, TypeOK, NEW t \in Threads, t \in Counted, Counted' = Counted \ {t},
         word' = SubReader(word)
  PROVE  /\ CountInv' /\ word' \in Word
         /\ word'.u = word.u /\ word'.w = word.w /\ word'.b = word.b
<1>1. Cardinality(Counted') = Cardinality(Counted) - 1
  BY Finite, FS_RemoveElement
<1>2. Cardinality(Counted) # 0 /\ Cardinality(Counted) \in Nat
  BY Finite
<1>3. word.r - 1 \in Nat /\ word'.r = word.r - 1
  BY <1>2, SMT DEF CountInv, SubReader, TypeOK, Word
<1>4. word' \in Word /\ word'.u = word.u /\ word'.w = word.w /\ word'.b = word.b
  BY <1>3 DEF SubReader, TypeOK, Word
<1> QED BY <1>1, <1>3, <1>4 DEF CountInv

\* The upgradeable bit is taken back by the one thread it stands for, so the
\* subtraction never borrows from the writer's bit.
LEMMA LessUpread ==
  ASSUME TypeOK, Accounts, NEW t \in Threads, HoldsUpread(t), word' = SubUpread(word)
  PROVE  /\ word' = [word EXCEPT !.u = FALSE] /\ word' \in Word
         /\ ~word'.u /\ word'.w = word.w /\ word'.b = word.b /\ word'.r = word.r
<1>1. word.u
  BY DEF Accounts, BitInv
<1>2. word' = [word EXCEPT !.u = FALSE]
  BY <1>1 DEF SubUpread, TypeOK, Word
<1> QED BY <1>2 DEF TypeOK, Word

\* The fetch_sub after a refused attempt.
LEMMA UndoStep ==
  ASSUME TypeOK, Accounts, NEW t \in Threads, pc[t] \in UndoPC, word' = Undo(word, want[t]),
         NEW l \in {"run", "enqueue", "doWait"}, pc' = [pc EXCEPT ![t] = l], owns' = owns,
         \A u \in Threads : want'[u] = want[u] \/ (u = t /\ l = "run")
  PROVE  Accounts' /\ word' \in Word /\ word'.w = word.w /\ word'.b = word.b
<1> USE DEF Accounts
<1>1. owns[t] = "none" /\ want[t] \in {"read", "upread"} /\ Abstract!Exclusion'
  BY DEF PcInv, Abstract!Exclusion
<1>2. PcInv'
  BY <1>1, ZenonT(30) DEF TypeOK, PcInv, Kinds, UndoPC, AskPC, WaitPC
<1>3. CASE want[t] = "read"
  <2>1. word' = SubReader(word) /\ t \in Counted
    BY <1>3 DEF Undo, Counted, Undoing
  <2>2. Counted' = Counted \ {t}
    BY <1>1 DEF TypeOK, Counted, Undoing, UndoPC
  <2>3. CountInv' /\ word' \in Word /\ word'.u = word.u /\ word'.w = word.w /\ word'.b = word.b
    BY <2>1, <2>2, LessOneReader
  <2>4. \A u \in Threads : HoldsUpread(u)' <=> HoldsUpread(u)
    BY <1>1, <1>3 DEF TypeOK, HoldsUpread, Undoing, UndoPC
  <2>5. BitInv'
    BY <2>3, <2>4 DEF TypeOK, BitInv, UndoPC
  <2> QED BY <1>1, <1>2, <2>3, <2>5
<1>4. CASE want[t] = "upread"
  <2>1. word' = SubUpread(word) /\ HoldsUpread(t)
    BY <1>4 DEF Undo, HoldsUpread, Undoing
  <2>2. /\ word' \in Word /\ ~word'.u /\ word'.w = word.w /\ word'.b = word.b /\ word'.r = word.r
    BY <2>1, LessUpread
  <2>3. Counted' = Counted
    BY <1>1, <1>4 DEF TypeOK, Counted, Undoing, UndoPC
  <2>4. \A u \in Threads : HoldsUpread(u)' <=> (HoldsUpread(u) /\ u # t)
    BY <1>1, <1>4 DEF TypeOK, HoldsUpread, Undoing, UndoPC
  <2>5. BitInv'
    BY <2>1, <2>2, <2>4 DEF TypeOK, BitInv, UndoPC
  <2> QED BY <1>1, <1>2, <2>2, <2>3, <2>5 DEF CountInv
<1> QED BY <1>1, <1>3, <1>4

\* A step that leaves the word and the guards alone.
LEMMA QuietStep ==
  ASSUME TypeOK, Accounts, NEW t \in Threads, UNCHANGED <<word, want, owns>>,
         NEW l \in {"run", "downgrade"} \cup AskPC \cup WakePC, pc' = [pc EXCEPT ![t] = l],
         l \in AskPC => pc[t] \in AskPC, l = "downgrade" => owns[t] = "write",
         pc[t] \in {"run"} \cup WaitPC \cup WakePC
  PROVE  Accounts'
<1> USE DEF Accounts
<1>1. PcInv' /\ Abstract!Exclusion'
  BY SMT DEF TypeOK, PcInv, UndoPC, AskPC, WaitPC, WakePC, Abstract!Exclusion
<1>2. \A u \in Threads, k \in Kinds : Undoing(u, k)' <=> Undoing(u, k)
  BY DEF TypeOK, Undoing, UndoPC, AskPC, WaitPC, WakePC
<1>3. Counted' = Counted /\ \A u \in Threads : HoldsUpread(u)' <=> HoldsUpread(u)
  BY <1>2 DEF TypeOK, Kinds, Counted, HoldsUpread, AskPC, WaitPC, WakePC
<1>4. BitInv' /\ CountInv'
  BY <1>3 DEF TypeOK, BitInv, CountInv, AskPC, WaitPC, WakePC
<1> QED BY <1>1, <1>4

\* A guard is dropped: the thread owned it at "run" and owns nothing after.
LEMMA DropPcs ==
  ASSUME TypeOK, Accounts, NEW t \in Threads, pc[t] = "run",
         NEW l \in {"run", "wakeStart"}, pc' = [pc EXCEPT ![t] = l],
         owns' = [owns EXCEPT ![t] = "none"], want' = want
  PROVE  /\ PcInv' /\ Abstract!Exclusion'
         /\ \A u \in Threads, k \in Kinds : Undoing(u, k)' <=> Undoing(u, k)
         /\ \A u \in Threads : pc'[u] = "upgraded" <=> pc[u] = "upgraded"
         /\ \A u \in Threads : pc'[u] = "upgrade" <=> pc[u] = "upgrade"
<1>1. PcInv'
  BY DEF TypeOK, Accounts, PcInv, UndoPC, AskPC, WaitPC
<1>2. Abstract!Exclusion'
  BY DEF TypeOK, Accounts, Abstract!Exclusion
<1>3. \A u \in Threads, k \in Kinds : Undoing(u, k)' <=> Undoing(u, k)
  BY DEF TypeOK, Undoing, UndoPC
<1> QED BY <1>1, <1>2, <1>3 DEF TypeOK

\* RwMutexReadGuard::drop.
LEMMA DropReadStep ==
  ASSUME TypeOK, Accounts, NEW t \in Threads, pc[t] = "run", owns[t] = "read",
         NEW l \in {"run", "wakeStart"}, pc' = [pc EXCEPT ![t] = l],
         owns' = [owns EXCEPT ![t] = "none"], want' = want, word' = SubReader(word)
  PROVE  Accounts' /\ word' \in Word /\ word'.w = word.w /\ word'.b = word.b
<1> USE DEF Accounts
<1>1. /\ PcInv' /\ Abstract!Exclusion'
      /\ \A u \in Threads, k \in Kinds : Undoing(u, k)' <=> Undoing(u, k)
      /\ \A u \in Threads : pc'[u] = "upgraded" <=> pc[u] = "upgraded"
      /\ \A u \in Threads : pc'[u] = "upgrade" <=> pc[u] = "upgrade"
  BY DropPcs
<1>2. t \in Counted /\ Counted' = Counted \ {t}
  <2>1. owns'[t] = "none" /\ \A u \in Threads : u # t => owns'[u] = owns[u]
    BY DEF TypeOK
  <2>2. \A u \in Threads : Undoing(u, "read")' <=> Undoing(u, "read")
    BY <1>1 DEF Kinds
  <2>3. ~Undoing(t, "read")
    BY DEF Undoing, UndoPC
  <2>4. ASSUME NEW u \in Threads PROVE u \in Counted' <=> u \in Counted /\ u # t
    <3>1. CASE u = t
      BY <2>1, <2>2, <2>3, <3>1 DEF Counted
    <3>2. CASE u # t
      BY <2>1, <2>2, <3>2 DEF Counted
    <3> QED BY <3>1, <3>2
  <2> QED BY <2>4 DEF Counted
<1>3. /\ CountInv' /\ word' \in Word
      /\ word'.u = word.u /\ word'.w = word.w /\ word'.b = word.b
  BY <1>2, LessOneReader
<1>4. \A u \in Threads : HoldsUpread(u)' <=> HoldsUpread(u)
  BY <1>1 DEF TypeOK, Kinds, HoldsUpread
<1>5. BitInv'
  BY <1>1, <1>3, <1>4, SMT DEF TypeOK, BitInv
<1> QED BY <1>1, <1>3, <1>5

\* RwMutexWriteGuard::drop.
LEMMA DropWriteStep ==
  ASSUME TypeOK, Accounts, NEW t \in Threads, pc[t] = "run", owns[t] = "write",
         NEW l \in {"run", "wakeStart"}, pc' = [pc EXCEPT ![t] = l],
         owns' = [owns EXCEPT ![t] = "none"], want' = want, word' = ClearWriter(word)
  PROVE  Accounts' /\ word' \in Word
<1> USE DEF Accounts
<1>1. /\ PcInv' /\ Abstract!Exclusion'
      /\ \A u \in Threads, k \in Kinds : Undoing(u, k)' <=> Undoing(u, k)
      /\ \A u \in Threads : pc'[u] = "upgraded" <=> pc[u] = "upgraded"
      /\ \A u \in Threads : pc'[u] = "upgrade" <=> pc[u] = "upgrade"
  BY DropPcs
<1>2. /\ word' \in Word /\ ~word'.w
      /\ word'.u = word.u /\ word'.b = word.b /\ word'.r = word.r
  BY DEF ClearWriter, TypeOK, Word
<1>3. Counted' = Counted /\ \A u \in Threads : HoldsUpread(u)' <=> HoldsUpread(u)
  BY <1>1 DEF TypeOK, Kinds, Counted, HoldsUpread
<1>4. \A u \in Threads : owns'[u] # "write"
  BY DEF TypeOK, Abstract!Exclusion
<1>5. BitInv' /\ CountInv'
  BY <1>1, <1>2, <1>3, <1>4 DEF BitInv, CountInv
<1> QED BY <1>1, <1>2, <1>5

\* RwMutexUpgradeableGuard::drop.
LEMMA DropUpreadStep ==
  ASSUME TypeOK, Accounts, NEW t \in Threads, pc[t] = "run", owns[t] = "upread",
         NEW l \in {"run", "wakeStart"}, pc' = [pc EXCEPT ![t] = l],
         owns' = [owns EXCEPT ![t] = "none"], want' = want, word' = SubUpread(word)
  PROVE  /\ Accounts' /\ word' \in Word /\ word'.w = word.w /\ word'.b = word.b
         /\ word' = Free => word = Downgraded
<1> USE DEF Accounts
<1>1. /\ PcInv' /\ Abstract!Exclusion'
      /\ \A u \in Threads, k \in Kinds : Undoing(u, k)' <=> Undoing(u, k)
      /\ \A u \in Threads : pc'[u] = "upgraded" <=> pc[u] = "upgraded"
      /\ \A u \in Threads : pc'[u] = "upgrade" <=> pc[u] = "upgrade"
  BY DropPcs
<1>2. HoldsUpread(t) /\ word.u
  BY DEF HoldsUpread, BitInv
<1>3. /\ word' = [word EXCEPT !.u = FALSE] /\ word' \in Word
      /\ ~word'.u /\ word'.w = word.w /\ word'.b = word.b /\ word'.r = word.r
  BY <1>2, LessUpread
<1>4. Counted' = Counted
  BY <1>1 DEF TypeOK, Kinds, Counted
<1>5. \A u \in Threads : HoldsUpread(u)' <=> (HoldsUpread(u) /\ u # t)
  <2>1. owns'[t] = "none" /\ \A u \in Threads : u # t => owns'[u] = owns[u]
    BY DEF TypeOK
  <2>2. \A u \in Threads : Undoing(u, "upread")' <=> Undoing(u, "upread")
    BY <1>1 DEF Kinds
  <2>3. pc[t] # "upgraded" /\ ~Undoing(t, "upread")
    BY DEF Undoing, UndoPC
  <2>4. ~HoldsUpread(t)'
    BY <1>1, <2>1, <2>2, <2>3 DEF HoldsUpread
  <2>5. \A u \in Threads : u # t => (HoldsUpread(u)' <=> HoldsUpread(u))
    BY <1>1, <2>1, <2>2 DEF HoldsUpread
  <2> QED BY <2>4, <2>5
<1>6. BitInv' /\ CountInv'
  BY <1>1, <1>2, <1>3, <1>4, <1>5, SMT DEF TypeOK, BitInv, CountInv
<1>7. word' = Free => word = Downgraded
  <2>1. Downgraded \in Word /\ Downgraded.u = TRUE
    BY DEF Downgraded, Free, Word
  <2>2. Downgraded.w = Free.w /\ Downgraded.b = Free.b /\ Downgraded.r = Free.r
    BY DEF Downgraded, Free
  <2>3. word \in Word /\ word.u = TRUE
    BY <1>2 DEF TypeOK, Word
  <2>4. ASSUME word' = Free
        PROVE  word.w = Downgraded.w /\ word.b = Downgraded.b /\ word.r = Downgraded.r
    BY <1>3, <2>2, <2>4
  <2> QED BY <2>1, <2>3, <2>4, SameWord
<1> QED BY <1>1, <1>3, <1>6, <1>7

\* upgrade announces itself with BEING_UPGRADED.
LEMMA UpgradeStep ==
  ASSUME TypeOK, Accounts, NEW t \in Threads, upgrade(t)
  PROVE  Accounts' /\ word' \in Word /\ word' # Free /\ word'.b
<1> USE DEF Accounts
<1>1. /\ pc[t] = "run" /\ owns[t] = "upread" /\ pc' = [pc EXCEPT ![t] = "upgrade"]
      /\ UNCHANGED <<want, owns>> /\ word' = [word EXCEPT !.b = TRUE]
  BY DEF upgrade, At, Goto, SetBeing
<1>2. /\ word' \in Word /\ word'.b /\ word' # Free
      /\ word'.u = word.u /\ word'.w = word.w /\ word'.r = word.r
  BY <1>1 DEF TypeOK, Word, Free
<1>3. PcInv' /\ Abstract!Exclusion'
  BY <1>1 DEF TypeOK, PcInv, UndoPC, AskPC, WaitPC, Abstract!Exclusion
<1>4. Counted' = Counted /\ \A u \in Threads : HoldsUpread(u)' <=> HoldsUpread(u)
  BY <1>1 DEF TypeOK, Counted, HoldsUpread, Undoing, UndoPC
<1>5. BitInv' /\ CountInv'
  BY <1>1, <1>2, <1>4 DEF TypeOK, BitInv, CountInv
<1> QED BY <1>2, <1>3, <1>5

\* try_upgrade succeeds only once every reader has left.
LEMMA TryUpgradeStep ==
  ASSUME TypeOK, Accounts, NEW t \in Threads, try_upgrade(t)
  PROVE  Accounts' /\ word' \in Word /\ word' # Free /\ word'.w /\ Abstract!Upgrade(t)
<1> USE DEF Accounts
<1>1. /\ pc[t] = "upgrade" /\ pc' = [pc EXCEPT ![t] = "upgraded"] /\ UNCHANGED want
      /\ owns' = [owns EXCEPT ![t] = "write"] /\ word = Upgrading /\ word' = Upgraded
  BY DEF try_upgrade, At, Goto, Become
<1>2. owns[t] = "upread"
  BY <1>1 DEF PcInv
<1>3. /\ word' \in Word /\ word' # Free /\ word'.w /\ word'.u /\ ~word'.b
      /\ word'.r = 0 /\ word.r = 0 /\ ~word.w /\ word.u
  BY <1>1 DEF Upgrading, Upgraded, Free, Word
<1>4. \A u \in Threads : owns[u] # "read" /\ owns[u] # "write"
  BY <1>2, <1>3, UpgradableIsIdle DEF BitInv
<1>5. \A u \in Threads : u # t => owns[u] = "none" /\ pc[u] # "upgrade"
  BY <1>2, <1>4 DEF TypeOK, Kinds, PcInv, Abstract!Exclusion
<1>6. PcInv' /\ Abstract!Exclusion'
  <2>1. PcInv'
    BY <1>1 DEF TypeOK, PcInv, UndoPC, AskPC, WaitPC
  <2>2. Abstract!Exclusion'
    BY <1>1, <1>5 DEF TypeOK, Abstract!Exclusion
  <2> QED BY <2>1, <2>2
<1>7. Counted' = Counted
  BY <1>1, <1>2 DEF TypeOK, Counted, Undoing, UndoPC
<1>8. \A u \in Threads : HoldsUpread(u)' <=> HoldsUpread(u)
  BY <1>1, <1>2 DEF TypeOK, HoldsUpread, Undoing, UndoPC
<1>9. BitInv' /\ CountInv'
  BY <1>1, <1>3, <1>5, <1>7, <1>8 DEF TypeOK, BitInv, CountInv
<1>10. Abstract!Upgrade(t)
  BY <1>1, <1>2, <1>4 DEF Abstract!Upgrade, Abstract!Nobody, Abstract!Become
<1> QED BY <1>3, <1>6, <1>9, <1>10

\* The drop of the upgradeable guard inside try_upgrade: the writer's bit stays.
LEMMA DropUpgradedStep ==
  ASSUME TypeOK, Accounts, NEW t \in Threads, pc[t] = "upgraded",
         NEW l \in {"run", "wakeStart"}, pc' = [pc EXCEPT ![t] = l],
         UNCHANGED <<owns, want>>, word' = SubUpread(word)
  PROVE  Accounts' /\ word' \in Word /\ word' # Free /\ word'.w
<1> USE DEF Accounts
<1>1. HoldsUpread(t) /\ owns[t] = "write" /\ word.w
  BY DEF HoldsUpread, PcInv, BitInv
<1>2. /\ word' \in Word /\ ~word'.u /\ word'.w = word.w /\ word'.b = word.b /\ word'.r = word.r
  BY <1>1, LessUpread
<1>3. PcInv' /\ Abstract!Exclusion'
  BY DEF TypeOK, PcInv, UndoPC, AskPC, WaitPC, Abstract!Exclusion
<1>4. Counted' = Counted
  BY DEF TypeOK, Counted, Undoing, UndoPC
<1>5. \A u \in Threads : HoldsUpread(u)' <=> (HoldsUpread(u) /\ u # t)
  BY <1>1 DEF TypeOK, HoldsUpread, Undoing, UndoPC
<1>6. BitInv' /\ CountInv'
  BY <1>1, <1>2, <1>4, <1>5 DEF TypeOK, BitInv, CountInv
<1>7. word'.w
  BY <1>1, <1>2
<1>8. word' # Free
  <2>1. ~Free.w
    BY DEF Free
  <2> QED BY <1>7, <2>1
<1> QED BY <1>2, <1>3, <1>6, <1>7, <1>8

\* try_downgrade succeeds only while no attempt is half done.
LEMMA TryDowngradeStep ==
  ASSUME TypeOK, Accounts, NEW t \in Threads, try_downgrade(t)
  PROVE  /\ Accounts' /\ word' \in Word /\ word' # Free
         /\ \A u \in Threads : pc[u] \notin UndoPC
<1> USE DEF Accounts
<1>1. /\ pc[t] = "downgrade" /\ pc' = [pc EXCEPT ![t] = "downgraded"] /\ UNCHANGED want
      /\ owns' = [owns EXCEPT ![t] = "upread"] /\ word = Written /\ word' = Downgraded
  BY DEF try_downgrade, At, Goto, Become
<1>2. owns[t] = "write"
  BY <1>1 DEF PcInv
<1>3. /\ word' \in Word /\ word' # Free /\ ~word'.w /\ word'.u /\ ~word'.b
      /\ word'.r = 0 /\ word.r = 0 /\ ~word.b /\ ~word.u
  BY <1>1 DEF Written, Downgraded, Free, Word
<1>4. Counted = {}
  BY <1>3, Finite DEF CountInv
<1>5. \A u \in Threads : u # t => owns[u] = "none" /\ ~HoldsUpread(u)
  BY <1>2, <1>3 DEF BitInv, Abstract!Exclusion
<1>6. PcInv' /\ Abstract!Exclusion'
  <2>1. PcInv'
    BY <1>1 DEF TypeOK, PcInv, UndoPC, AskPC, WaitPC
  <2>2. Abstract!Exclusion'
    BY <1>1, <1>5 DEF TypeOK, Abstract!Exclusion
  <2> QED BY <2>1, <2>2
<1>7. Counted' = Counted
  BY <1>1, <1>2 DEF TypeOK, Counted, Undoing, UndoPC
<1>8. \A u \in Threads : HoldsUpread(u)' <=> u = t
  BY <1>1, <1>5 DEF TypeOK, HoldsUpread, Undoing, UndoPC
<1>9. BitInv' /\ CountInv'
  BY <1>1, <1>3, <1>5, <1>7, <1>8 DEF TypeOK, BitInv, CountInv
<1>10. \A u \in Threads : pc[u] \notin UndoPC
  BY <1>3, <1>4 DEF PcInv, BitInv, HoldsUpread, Counted, Undoing
<1> QED BY <1>3, <1>6, <1>9, <1>10

\* The drop of the write guard inside try_downgrade finds its bit clear.
LEMMA DropDowngradedStep ==
  ASSUME TypeOK, Accounts, NEW t \in Threads, pc[t] = "downgraded",
         pc' = [pc EXCEPT ![t] = "wakeStart"],
         UNCHANGED <<owns, want>>, word' = ClearWriter(word)
  PROVE  Accounts' /\ word' = word
<1> USE DEF Accounts
<1>1. owns[t] = "upread" /\ ~word.w
  BY DEF PcInv, BitInv, Abstract!Exclusion
<1>2. word' = word
  BY <1>1 DEF ClearWriter, TypeOK, Word
<1>3. PcInv' /\ Abstract!Exclusion'
  BY DEF TypeOK, PcInv, UndoPC, AskPC, WaitPC, Abstract!Exclusion
<1>4. Counted' = Counted /\ \A u \in Threads : HoldsUpread(u)' <=> HoldsUpread(u)
  BY DEF TypeOK, Counted, HoldsUpread, Undoing, UndoPC
<1>5. BitInv' /\ CountInv'
  BY <1>2, <1>4 DEF TypeOK, BitInv, CountInv
<1> QED BY <1>2, <1>3, <1>5

-----------------------------------------------------------------------------
(* Sleepers *)

\* A step of the lock that neither refuses a recheck nor is a step of the queue.
LEMMA UndoKept ==
  ASSUME TypeOK, UndoInv, NEW t \in Threads, NEW l \in PCs \ {"undoRecheck"},
         pc' = [pc EXCEPT ![t] = l], pc[t] \notin WakePC,
         \A u \in Threads \ {t} : /\ hasWoken'[u] = hasWoken[u] /\ mode'[u] = mode[u]
                                  /\ target'[u] = target[u],
         word.w \/ word.b => word'.w \/ word'.b \/ (l \in WakePC /\ mode'[t] = "all")
  PROVE  UndoInv'
<1> SUFFICES ASSUME NEW x \in Threads, pc'[x] = "undoRecheck", ~hasWoken'[x]
             PROVE  \/ word'.w \/ word'.b
                    \/ \E u \in Threads : pc'[u] \in WakePC /\ mode'[u] = "all"
                    \/ \E u \in Threads : pc'[u] = "wake" /\ target'[u] = x
  BY DEF UndoInv
<1>1. x # t /\ pc[x] = "undoRecheck" /\ ~hasWoken[x]
  BY DEF TypeOK
<1>2. CASE word.w \/ word.b
  BY <1>2 DEF TypeOK
<1>3. ASSUME NEW u \in Threads, pc[u] \in WakePC, mode[u] = "all"
      PROVE  pc'[u] \in WakePC /\ mode'[u] = "all"
  BY <1>3 DEF TypeOK
<1>4. ASSUME NEW u \in Threads, pc[u] = "wake", target[u] = x
      PROVE  pc'[u] = "wake" /\ target'[u] = x
  BY <1>4 DEF TypeOK, WakePC
<1> QED BY <1>1, <1>2, <1>3, <1>4, SMT DEF UndoInv

\* A wake call that ends has reached the waker of every refused attempt.
LEMMA QueueKeepsUndo ==
  ASSUME TypeOK, QueueInv, UndoInv, NEW t \in Threads, QueueStep(t), UNCHANGED word
  PROVE  UndoInv'
<1> SUFFICES ASSUME NEW x \in Threads, pc'[x] = "undoRecheck", ~hasWoken'[x]
             PROVE  \/ word.w \/ word.b
                    \/ \E u \in Threads : pc'[u] \in WakePC /\ mode'[u] = "all"
                    \/ \E u \in Threads : pc'[u] = "wake" /\ target'[u] = x
  BY DEF UndoInv
<1> USE DEF At, Goto
<1>1. PICK l \in {"run", "enqueue", "recheck", "doWait", "parkCheck", "parkDequeue"} \cup WakePC :
        pc' = [pc EXCEPT ![t] = l]
  BY DEF QueueStep, enqueue, dropWaiter, do_wait, parkCheck, parkDequeue, wakeStart, pop,
     wake_up, unpark, Return, WakePC
<1>2. x # t /\ pc[x] = "undoRecheck"
  BY <1>1 DEF TypeOK, WakePC
<1>3. ~hasWoken[x] /\ (hasWoken'[x] = hasWoken[x])
  BY <1>2 DEF QueueStep, enqueue, dropWaiter, do_wait, parkCheck, parkDequeue, wakeStart, pop,
     wake_up, unpark, TypeOK, QueueTypeOK, queueVars
<1>4. Reachable(x)
  BY <1>2, <1>3 DEF QueueInv, SleeperInv, CondPC
<1>5. \A u \in Threads \ {t} : pc'[u] = pc[u] /\ mode'[u] = mode[u]
  BY <1>1 DEF QueueStep, enqueue, dropWaiter, do_wait, parkCheck, parkDequeue, wakeStart, pop,
     wake_up, unpark, Return, TypeOK, QueueTypeOK, queueVars
<1>6. ASSUME NEW u \in Threads \ {t}, pc[u] = "wake", target[u] = x
      PROVE  pc'[u] = "wake" /\ target'[u] = x
  <2>1. target'[u] = x
    BY <1>2, <1>6, SMT DEF QueueStep, enqueue, dropWaiter, do_wait, parkCheck, parkDequeue, wakeStart,
       pop, wake_up, unpark, TypeOK, QueueTypeOK, queueVars
  <2> QED BY <1>5, <1>6, <2>1
<1>7. ASSUME pc[t] \in WakePC, mode[t] = "all"
      PROVE  \/ pc'[t] \in WakePC /\ mode'[t] = "all"
             \/ \E u \in Threads : pc'[u] = "wake" /\ target'[u] = x
  <2>1. CASE pc'[t] \in WakePC
    BY <1>7, <2>1 DEF QueueStep, enqueue, dropWaiter, do_wait, parkCheck, parkDequeue, wakeStart,
       pop, wake_up, unpark, Return, WakePC, TypeOK, QueueTypeOK, queueVars
  <2>2. CASE pc'[t] \notin WakePC
    <3>1. (wakeStart(t) /\ numWakers = 0) \/ (pop(t) /\ wakers = <<>>)
      BY <1>7, <2>2 DEF QueueStep, enqueue, dropWaiter, do_wait, parkCheck, parkDequeue,
         wakeStart, pop, wake_up, unpark, Return, WakePC, TypeOK, QueueTypeOK, queueVars
    <3>2. ~InQueue(x)
      <4>1. Len(wakers) = 0 /\ wakers \in Seq(Waker)
        BY <3>1 DEF QueueInv, QueueTypeOK
      <4> QED BY <4>1, SMT DEF InQueue
    <3>3. PICK u \in Threads : pc[u] = "wake" /\ target[u] = x
      BY <1>4, <3>2 DEF Reachable
    <3>4. u # t
      BY <3>1, <3>3 DEF wakeStart, pop
    <3> QED BY <1>6, <3>3, <3>4
  <2> QED BY <2>1, <2>2
<1>8. ASSUME pc[t] = "wake", target[t] = x PROVE hasWoken'[x]
  BY <1>3, <1>8 DEF QueueStep, enqueue, dropWaiter, do_wait, parkCheck, parkDequeue,
     wakeStart, pop, wake_up, unpark, Wakeable, TypeOK, QueueTypeOK
<1> QED BY <1>2, <1>3, <1>5, <1>6, <1>7, <1>8, SMT DEF UndoInv

-----------------------------------------------------------------------------
(* The actions, one by one *)

\* Where the parts of the invariant come from after a step of one thread.
LEMMA Assemble ==
  ASSUME TypeOK, QueueInv', Accounts', UndoInv', word' \in Word, NEW t \in Threads, NEW l \in PCs,
         pc' = [pc EXCEPT ![t] = l], silent' \in BOOLEAN,
         want' = want \/ \E k \in Kinds \cup {"none"} : want' = [want EXCEPT ![t] = k],
         owns' = owns \/ \E k \in Kinds \cup {"none"} : owns' = [owns EXCEPT ![t] = k],
         ~silent' /\ word' = Free => Attended'
  PROVE  IInv'
<1>1. pc' \in [Threads -> PCs]
  BY DEF TypeOK, PCs
<1>2. want' \in [Threads -> Kinds \cup {"none"}] /\ owns' \in [Threads -> Kinds \cup {"none"}]
  BY DEF TypeOK
<1>3. TypeOK'
  BY <1>1, <1>2 DEF TypeOK, QueueInv, PCs
<1> QED BY <1>3 DEF IInv, NoLostWakeup

\* The queue is left alone and the thread stays outside it.
LEMMA OutsideStep ==
  ASSUME IInv, Accounts', word' \in Word, NEW t \in Threads, t \notin parked, pc[t] \in RwPC \ CondPC,
         NEW l \in RwPC \ CondPC, pc' = [pc EXCEPT ![t] = l], UNCHANGED queueVars,
         silent' \in BOOLEAN, silent' \/ word' # Free,
         want' = want \/ \E k \in Kinds \cup {"none"} : want' = [want EXCEPT ![t] = k],
         owns' = owns \/ \E k \in Kinds \cup {"none"} : owns' = [owns EXCEPT ![t] = k],
         word.w \/ word.b => word'.w \/ word'.b
  PROVE  IInv'
<1>1. TypeOK /\ QueueInv /\ UndoInv /\ pc \in [Threads -> PCs] /\ l \in PCs \ {"undoRecheck"}
  BY DEF IInv, TypeOK, PCs, RwPC, CondPC
<1>2. /\ pc[t] \notin WaitPC \cup CondPC \cup WakePC
      /\ l \notin WaitPC \cup CondPC \cup WakePC
  BY DEF RwPC, CondPC, WaitPC, WakePC
<1>3. QueueInv'
  BY <1>1, <1>2, ClientKeeps
<1>4. UndoInv'
  BY <1>1, <1>2, UndoKept DEF queueVars
<1> QED BY <1>1, <1>3, <1>4, Assemble

\* A call of wake_one or wake_all begins.
LEMMA WakeStep ==
  ASSUME IInv, Accounts', word' \in Word, NEW t \in Threads, t \notin parked, pc[t] \in RwPC \ CondPC,
         NEW m \in {"one", "all"}, EnterWake(t, m), UNCHANGED <<silent, want>>,
         owns' = owns \/ \E k \in Kinds \cup {"none"} : owns' = [owns EXCEPT ![t] = k],
         m = "all" \/ (word.w \/ word.b => word'.w \/ word'.b)
  PROVE  IInv'
<1>1. TypeOK /\ QueueInv /\ UndoInv /\ pc \in [Threads -> PCs] /\ silent \in BOOLEAN
  BY DEF IInv, TypeOK, PCs
<1>2. pc[t] \notin WaitPC \cup CondPC \cup WakePC
  BY DEF RwPC, CondPC, WaitPC, WakePC
<1>3. QueueInv'
  BY <1>1, <1>2, EnterWakeKeeps
<1>4. /\ pc' = [pc EXCEPT ![t] = "wakeStart"] /\ "wakeStart" \in PCs \ {"undoRecheck"}
      /\ "wakeStart" \in WakePC
  BY DEF EnterWake, Goto, PCs, WakePC
<1>5. UndoInv'
  <2>1. /\ \A u \in Threads \ {t} : /\ hasWoken'[u] = hasWoken[u] /\ mode'[u] = mode[u]
                                    /\ target'[u] = target[u]
        /\ mode'[t] = m
    BY <1>1 DEF EnterWake, TypeOK, QueueTypeOK
  <2> QED BY <1>1, <1>2, <1>4, <2>1, UndoKept
<1>6. Waking(t)'
  BY <1>1, <1>4 DEF Waking
<1> QED BY <1>1, <1>3, <1>4, <1>5, <1>6, Assemble DEF Attended

\* A wait begins.
LEMMA NewPairStep ==
  ASSUME IInv, Accounts', word' \in Word, NEW t \in Threads, t \notin parked, pc[t] \in RwPC \ CondPC,
         NewPair(t), UNCHANGED <<silent, owns>>,
         want' = want \/ \E k \in Kinds \cup {"none"} : want' = [want EXCEPT ![t] = k],
         word.w \/ word.b => word'.w \/ word'.b
  PROVE  IInv'
<1>1. TypeOK /\ QueueInv /\ UndoInv /\ pc \in [Threads -> PCs] /\ silent \in BOOLEAN
  BY DEF IInv, TypeOK, PCs
<1>2. pc[t] \notin WaitPC \cup CondPC \cup WakePC
  BY DEF RwPC, CondPC, WaitPC, WakePC
<1>3. QueueInv'
  BY <1>1, <1>2, NewPairKeeps
<1>4. pc' = [pc EXCEPT ![t] = "enqueue"] /\ "enqueue" \in PCs \ {"undoRecheck"}
  BY DEF NewPair, Goto, PCs, WaitPC
<1>5. UndoInv'
  <2>1. \A u \in Threads \ {t} : /\ hasWoken'[u] = hasWoken[u] /\ mode'[u] = mode[u]
                                 /\ target'[u] = target[u]
    BY <1>1 DEF NewPair, TypeOK, QueueTypeOK
  <2> QED BY <1>1, <1>2, <1>4, <2>1, UndoKept
<1>6. WillRecheck(t)'
  BY <1>1, <1>4 DEF WillRecheck
<1> QED BY <1>1, <1>3, <1>4, <1>5, <1>6, Assemble DEF Attended

\* read, write and upread, and the non-blocking calls, up to the first operation
\* on the word.
LEMMA AcquireStep ==
  ASSUME IInv, NEW t \in Threads, NEW k \in Kinds, UNCHANGED silent, acquire(t, k) \/ tryAcquire(t, k)
  PROVE  IInv'
<1>1. /\ TypeOK /\ Accounts /\ pc \in [Threads -> PCs] /\ silent \in BOOLEAN
      /\ pc[t] = "run" /\ t \notin parked /\ owns[t] = "none"
      /\ "run" \in RwPC \ CondPC /\ pc[t] \in RwPC \ CondPC
  BY DEF IInv, TypeOK, PCs, acquire, tryAcquire, At, RwPC, CondPC
<1>2. CASE granted(t, k) /\ UNCHANGED <<pc, queueVars>>
  <2>1. pc' = [pc EXCEPT ![t] = "run"]
    BY <1>1, <1>2
  <2>2. Accounts' /\ word' \in Word /\ word' # Free
    BY <1>1, <1>2, <2>1, TakeStep
  <2>3. /\ \E j \in Kinds \cup {"none"} : want' = [want EXCEPT ![t] = j]
        /\ \E j \in Kinds \cup {"none"} : owns' = [owns EXCEPT ![t] = j]
    BY <1>2 DEF granted, Become, Ask
  <2>4. word.w \/ word.b => word'.w \/ word'.b
    BY <1>1, <1>2 DEF granted, Grants, After, Kinds, Free, TypeOK, Word
  <2> QED BY <1>1, <1>2, <2>1, <2>2, <2>3, <2>4, OutsideStep
<1>3. ASSUME NEW l \in {"undoFirst", "undoTry"}, refused(t, k), Undoes(word, k), Goto(t, l),
             UNCHANGED queueVars
      PROVE  IInv'
  <2>1. pc' = [pc EXCEPT ![t] = l] /\ l \in UndoPC /\ l \in RwPC \ CondPC
    BY <1>3 DEF Goto, UndoPC, RwPC, CondPC
  <2>2. /\ Accounts' /\ word' \in Word /\ word' # Free
        /\ word'.w = word.w /\ word'.b = word.b
    BY <1>1, <1>3, <2>1, RefuseStep
  <2>3. /\ \E j \in Kinds \cup {"none"} : want' = [want EXCEPT ![t] = j]
        /\ owns' = owns
    BY <1>3 DEF refused, Ask
  <2> QED BY <1>1, <1>3, <2>1, <2>2, <2>3, OutsideStep
<1>4. CASE refused(t, k) /\ ~Undoes(word, k) /\ NewPair(t)
  <2>1. pc' = [pc EXCEPT ![t] = "enqueue"] /\ "enqueue" \in AskPC /\ "enqueue" \notin UndoPC
    BY <1>4 DEF NewPair, Goto, UndoPC, AskPC, WaitPC
  <2>2. /\ Accounts' /\ word' \in Word /\ word' # Free
        /\ word'.w = word.w /\ word'.b = word.b
    BY <1>1, <1>4, <2>1, RefuseStep
  <2>3. /\ \E j \in Kinds \cup {"none"} : want' = [want EXCEPT ![t] = j]
        /\ owns' = owns
    BY <1>4 DEF refused, Ask
  <2> QED BY <1>1, <1>4, <2>1, <2>2, <2>3, NewPairStep
<1> QED BY <1>2, <1>3, <1>4 DEF acquire, tryAcquire

\* The fetch_sub that a refused attempt of undoFirst or undoTry still owes.
LEMMA UndoneStep ==
  ASSUME IInv, NEW t \in Threads, (undoFirst(t) /\ UNCHANGED silent) \/ undoTry(t)
  PROVE  IInv'
<1>1. /\ TypeOK /\ Accounts /\ pc \in [Threads -> PCs] /\ silent \in BOOLEAN
      /\ pc[t] \in {"undoFirst", "undoTry"} /\ t \notin parked
      /\ word' = Undo(word, want[t]) /\ owns' = owns
  BY DEF IInv, TypeOK, PCs, undoFirst, undoTry, At
<1>2. pc[t] \in UndoPC /\ pc[t] \in RwPC \ CondPC
  BY <1>1 DEF UndoPC, RwPC, CondPC
<1>3. CASE undoFirst(t) /\ UNCHANGED silent
  <2>1. pc' = [pc EXCEPT ![t] = "enqueue"] /\ want' = want /\ NewPair(t)
    BY <1>3 DEF undoFirst, NewPair, Goto
  <2>2. Accounts' /\ word' \in Word /\ word'.w = word.w /\ word'.b = word.b
    BY <1>1, <1>2, <2>1, UndoStep
  <2> QED BY <1>1, <1>2, <1>3, <2>1, <2>2, NewPairStep
<1>4. CASE undoTry(t)
  <2>1. /\ pc' = [pc EXCEPT ![t] = "run"] /\ want' = [want EXCEPT ![t] = "none"]
        /\ UNCHANGED queueVars /\ silent' = (silent \/ word' = Free) /\ "run" \in RwPC \ CondPC
    BY <1>4 DEF undoTry, Goto, Ask, RwPC, CondPC
  <2>2. Accounts' /\ word' \in Word /\ word'.w = word.w /\ word'.b = word.b
    <3>1. \A u \in Threads : want'[u] = want[u] \/ u = t
      BY <1>1, <2>1 DEF TypeOK
    <3> QED BY <1>1, <1>2, <2>1, <3>1, UndoStep
  <2>3. \E j \in Kinds \cup {"none"} : want' = [want EXCEPT ![t] = j]
    BY <2>1
  <2>4. silent' \in BOOLEAN /\ (silent' \/ word' # Free)
    BY <1>1, <2>1
  <2> QED BY <1>1, <1>2, <2>1, <2>2, <2>3, <2>4, OutsideStep
<1> QED BY <1>3, <1>4

\* The second attempt, once the waker is in the queue.
LEMMA RecheckStep ==
  ASSUME IInv, NEW t \in Threads, recheck(t), UNCHANGED silent
  PROVE  IInv'
<1>1. /\ TypeOK /\ Accounts /\ QueueInv /\ UndoInv /\ pc \in [Threads -> PCs] /\ silent \in BOOLEAN
      /\ pc[t] = "recheck" /\ t \notin parked /\ UNCHANGED queueVars
  BY DEF IInv, TypeOK, PCs, recheck, At
<1>2. owns[t] = "none" /\ want[t] \in Kinds /\ pc[t] \in CondPC /\ pc[t] \notin WakePC
  BY <1>1 DEF Accounts, PcInv, AskPC, WaitPC, WakePC, CondPC
<1>3. \A u \in Threads \ {t} : /\ hasWoken'[u] = hasWoken[u] /\ mode'[u] = mode[u]
                               /\ target'[u] = target[u]
  BY <1>1 DEF queueVars
<1>4. CASE granted(t, want[t]) /\ Goto(t, "drop")
  <2>1. pc' = [pc EXCEPT ![t] = "drop"] /\ "drop" \in PCs \ {"undoRecheck"}
    BY <1>4 DEF Goto, PCs, WaitPC
  <2>2. Accounts' /\ word' \in Word /\ word' # Free
    BY <1>1, <1>2, <1>4, <2>1, TakeStep
  <2>3. /\ \E j \in Kinds \cup {"none"} : want' = [want EXCEPT ![t] = j]
        /\ \E j \in Kinds \cup {"none"} : owns' = [owns EXCEPT ![t] = j]
    BY <1>2, <1>4 DEF granted, Become, Ask
  <2>4. word.w \/ word.b => word'.w \/ word'.b
    BY <1>1, <1>2, <1>4 DEF granted, Grants, After, Kinds, Free, TypeOK, Word
  <2>5. QueueInv'
    BY <1>1, <1>2, <2>1, ConditionKeeps
  <2>6. UndoInv'
    BY <1>1, <1>2, <1>3, <2>1, <2>4, UndoKept
  <2> QED BY <1>1, <2>1, <2>2, <2>3, <2>5, <2>6, Assemble
<1>5. CASE /\ refused(t, want[t])
           /\ Goto(t, IF Undoes(word, want[t]) THEN "undoRecheck" ELSE "doWait")
  <2>1. PICK l \in {"undoRecheck", "doWait"} :
          pc' = [pc EXCEPT ![t] = l] /\ (l = "undoRecheck" <=> Undoes(word, want[t]))
    BY <1>5 DEF Goto
  <2>2. /\ l \in UndoPC <=> Undoes(word, want[t])
        /\ l \in UndoPC \cup AskPC /\ l \in PCs
    BY <2>1 DEF UndoPC, AskPC, WaitPC, RwPC, PCs
  <2>3. /\ Accounts' /\ word' \in Word /\ word' # Free
        /\ word'.w = word.w /\ word'.b = word.b
        /\ Undoes(word, want[t]) => word.w \/ word.b
    BY <1>1, <1>2, <1>5, <2>1, <2>2, RefuseStep
  <2>4. /\ \E j \in Kinds \cup {"none"} : want' = [want EXCEPT ![t] = j]
        /\ owns' = owns
    BY <1>2, <1>5 DEF refused, Ask
  <2>5. QueueInv'
    BY <1>1, <1>2, <2>1, ConditionKeeps
  <2>6. UndoInv'
    <3>1. CASE l = "undoRecheck"
      BY <2>1, <2>3, <3>1 DEF UndoInv
    <3>2. CASE l # "undoRecheck"
      BY <1>1, <1>2, <1>3, <2>1, <2>2, <2>3, <3>2, UndoKept
    <3> QED BY <3>1, <3>2
  <2> QED BY <1>1, <2>1, <2>2, <2>3, <2>4, <2>5, <2>6, Assemble
<1> QED BY <1>4, <1>5 DEF recheck

\* The fetch_sub of a refused recheck may leave the word zero.  The thread was
\* refused because of a writer, who has since begun to wake every sleeper.
LEMMA UndoRecheckStep ==
  ASSUME IInv, NEW t \in Threads, undoRecheck(t), UNCHANGED silent
  PROVE  IInv'
<1>1. /\ TypeOK /\ Accounts /\ QueueInv /\ UndoInv /\ pc \in [Threads -> PCs] /\ silent \in BOOLEAN
      /\ pc[t] = "undoRecheck" /\ t \notin parked /\ UNCHANGED queueVars
      /\ word' = Undo(word, want[t]) /\ owns' = owns /\ want' = want
      /\ pc' = [pc EXCEPT ![t] = "doWait"]
  BY DEF IInv, TypeOK, PCs, undoRecheck, At, Goto
<1>2. /\ pc[t] \in CondPC /\ pc[t] \notin WakePC /\ pc[t] \in UndoPC
      /\ "doWait" \in PCs \ {"undoRecheck"}
  BY <1>1 DEF CondPC, WakePC, WaitPC, PCs, UndoPC
<1>3. Accounts' /\ word' \in Word /\ word'.w = word.w /\ word'.b = word.b
  BY <1>1, <1>2, UndoStep
<1>4. QueueInv'
  BY <1>1, <1>2, ConditionKeeps
<1>5. UndoInv'
  <2>1. \A u \in Threads \ {t} : /\ hasWoken'[u] = hasWoken[u] /\ mode'[u] = mode[u]
                                 /\ target'[u] = target[u]
    BY <1>1 DEF queueVars
  <2> QED BY <1>1, <1>2, <1>3, <2>1, UndoKept
<1>6. ASSUME word' = Free PROVE Attended'
  <2>1. ~word.w /\ ~word.b
    BY <1>3, <1>6 DEF Free
  <2>2. UNCHANGED <<hasWoken, mode, target>>
    BY <1>1 DEF queueVars
  <2>3. CASE hasWoken[t]
    <3>1. WillRecheck(t)'
      BY <1>1, <2>2, <2>3 DEF WillRecheck, Waiting
    <3> QED BY <3>1 DEF Attended
  <2>4. CASE ~hasWoken[t]
    <3>1. PICK u \in Threads : /\ pc[u] \in WakePC
                               /\ mode[u] = "all" \/ pc[u] = "wake"
      BY <1>1, <2>1, <2>4 DEF UndoInv, WakePC
    <3>2. u # t /\ pc'[u] = pc[u] /\ mode'[u] = mode[u]
      BY <1>1, <1>2, <2>2, <3>1
    <3>3. Waking(u)'
      BY <3>1, <3>2 DEF Waking, WakePC
    <3> QED BY <3>3 DEF Attended
  <2> QED BY <2>3, <2>4
<1> QED BY <1>1, <1>2, <1>3, <1>4, <1>5, <1>6, Assemble

\* The drops of the read and the write guard.
LEMMA DropStep ==
  ASSUME IInv, NEW t \in Threads, dropRead(t) \/ dropWrite(t), UNCHANGED silent
  PROVE  IInv'
<1>1. /\ TypeOK /\ Accounts /\ pc \in [Threads -> PCs] /\ silent \in BOOLEAN
      /\ pc[t] = "run" /\ t \notin parked /\ "run" \in RwPC \ CondPC /\ pc[t] \in RwPC \ CondPC
      /\ owns' = [owns EXCEPT ![t] = "none"] /\ want' = want
  BY DEF IInv, TypeOK, PCs, dropRead, dropWrite, At, Become, RwPC, CondPC
<1>2. \E k \in Kinds \cup {"none"} : owns' = [owns EXCEPT ![t] = k]
  BY <1>1
<1>3. CASE dropRead(t) /\ word = [Free EXCEPT !.r = 1] /\ EnterWake(t, "one")
  <2>1. owns[t] = "read" /\ word' = SubReader(word) /\ pc' = [pc EXCEPT ![t] = "wakeStart"]
    BY <1>3 DEF dropRead, EnterWake, Goto
  <2>2. Accounts' /\ word' \in Word /\ word'.w = word.w /\ word'.b = word.b
    BY <1>1, <2>1, DropReadStep
  <2> QED BY <1>1, <1>2, <1>3, <2>2, WakeStep
<1>4. CASE dropRead(t) /\ word # [Free EXCEPT !.r = 1] /\ UNCHANGED <<pc, queueVars>>
  <2>1. owns[t] = "read" /\ word' = SubReader(word) /\ pc' = [pc EXCEPT ![t] = "run"]
    BY <1>1, <1>4 DEF dropRead
  <2>2. Accounts' /\ word' \in Word /\ word'.w = word.w /\ word'.b = word.b
    BY <1>1, <2>1, DropReadStep
  <2>3. word' # Free
    <3>1. ASSUME word' = Free PROVE word = [Free EXCEPT !.r = 1]
      <4>1. Free \in Word /\ Free.r = 0
        BY SMT DEF Free, Word
      <4>2. word'.r = word.r - 1 /\ word'.w = word.w /\ word'.u = word.u /\ word'.b = word.b
        BY <1>1, <2>1 DEF SubReader, TypeOK, Word
      <4>3. word.r = 1
        BY <1>1, <3>1, <4>1, <4>2, SMT DEF TypeOK, Word
      <4>4. LET one == [Free EXCEPT !.r = 1]
            IN  one \in Word /\ one.r = 1 /\ one.u = Free.u /\ one.w = Free.w /\ one.b = Free.b
        BY <4>1 DEF Word
      <4> QED BY <1>1, <3>1, <4>2, <4>3, <4>4, SameWord DEF TypeOK
    <3> QED BY <1>4, <3>1
  <2> QED BY <1>1, <1>2, <1>4, <2>1, <2>2, <2>3, OutsideStep
<1>5. CASE dropWrite(t)
  <2>1. /\ owns[t] = "write" /\ word' = ClearWriter(word) /\ pc' = [pc EXCEPT ![t] = "wakeStart"]
        /\ EnterWake(t, "all")
    BY <1>5 DEF dropWrite, EnterWake, Goto
  <2>2. Accounts' /\ word' \in Word
    BY <1>1, <2>1, DropWriteStep
  <2> QED BY <1>1, <1>2, <2>1, <2>2, WakeStep
<1> QED BY <1>3, <1>4, <1>5 DEF dropRead

\* The drops of the upgradeable guard, by itself and inside try_upgrade.
LEMMA DropUpStep ==
  ASSUME IInv, NEW t \in Threads, dropUpread(t) \/ dropUpgraded(t), UNCHANGED silent
  PROVE  IInv'
<1>1. /\ TypeOK /\ Accounts /\ pc \in [Threads -> PCs] /\ silent \in BOOLEAN
      /\ pc[t] \in {"run", "upgraded"} /\ t \notin parked /\ "run" \in RwPC \ CondPC
      /\ pc[t] \in RwPC \ CondPC
      /\ want' = want /\ word' = SubUpread(word)
  BY DEF IInv, TypeOK, PCs, dropUpread, dropUpgraded, subUpread, At, RwPC, CondPC
<1>2. owns' = owns \/ \E k \in Kinds \cup {"none"} : owns' = [owns EXCEPT ![t] = k]
  BY DEF dropUpread, dropUpgraded, Become
<1>3. \/ word = Downgraded /\ EnterWake(t, "all")
      \/ word # Downgraded /\ Goto(t, "run") /\ UNCHANGED queueVars
  BY DEF dropUpread, dropUpgraded, subUpread
<1>4. PICK l \in {"run", "wakeStart"} : /\ pc' = [pc EXCEPT ![t] = l]
                                        /\ l = "wakeStart" => EnterWake(t, "all")
                                        /\ l = "run" => word # Downgraded /\ UNCHANGED queueVars
  <2>1. CASE word = Downgraded /\ EnterWake(t, "all")
    BY <2>1 DEF EnterWake, Goto
  <2>2. CASE word # Downgraded /\ Goto(t, "run") /\ UNCHANGED queueVars
    BY <2>2 DEF Goto
  <2> QED BY <1>3, <2>1, <2>2
<1>5. /\ Accounts' /\ word' \in Word /\ (word' = Free => word = Downgraded)
      /\ word.w \/ word.b => word'.w \/ word'.b
  <2>1. CASE dropUpread(t)
    <3>1. pc[t] = "run" /\ owns[t] = "upread" /\ owns' = [owns EXCEPT ![t] = "none"]
      BY <2>1 DEF dropUpread, At, Become
    <3> QED BY <1>1, <1>4, <3>1, DropUpreadStep
  <2>2. CASE dropUpgraded(t)
    <3>1. pc[t] = "upgraded" /\ owns' = owns
      BY <2>2 DEF dropUpgraded, At
    <3> QED BY <1>1, <1>4, <3>1, DropUpgradedStep
  <2> QED BY <2>1, <2>2
<1>6. CASE l = "wakeStart"
  BY <1>1, <1>2, <1>4, <1>5, <1>6, WakeStep
<1>7. CASE l = "run"
  BY <1>1, <1>2, <1>4, <1>5, <1>7, OutsideStep
<1> QED BY <1>6, <1>7

\* upgrade and downgrade.
LEMMA ConvertStep ==
  ASSUME IInv, NEW t \in Threads, UNCHANGED silent,
         upgrade(t) \/ try_upgrade(t) \/ downgrade(t) \/ try_downgrade(t) \/ dropDowngraded(t)
  PROVE  IInv'
<1>1. /\ TypeOK /\ Accounts /\ pc \in [Threads -> PCs] /\ silent \in BOOLEAN /\ UndoInv /\ QueueInv
      /\ t \notin parked /\ pc[t] \in RwPC \ CondPC
  BY DEF IInv, TypeOK, PCs, upgrade, try_upgrade, downgrade, try_downgrade, dropDowngraded, At,
     RwPC, CondPC
<1>2. CASE upgrade(t)
  <2>1. /\ pc' = [pc EXCEPT ![t] = "upgrade"] /\ "upgrade" \in RwPC \ CondPC
        /\ UNCHANGED <<want, owns, queueVars>>
    BY <1>2 DEF upgrade, Goto, RwPC, CondPC
  <2>2. Accounts' /\ word' \in Word /\ word' # Free /\ word'.b
    BY <1>1, <1>2, UpgradeStep
  <2> QED BY <1>1, <2>1, <2>2, OutsideStep
<1>3. CASE try_upgrade(t)
  <2>1. /\ pc' = [pc EXCEPT ![t] = "upgraded"] /\ "upgraded" \in RwPC \ CondPC
        /\ UNCHANGED <<want, queueVars>>
        /\ \E k \in Kinds \cup {"none"} : owns' = [owns EXCEPT ![t] = k]
    BY <1>3 DEF try_upgrade, Goto, RwPC, CondPC, Become, Kinds
  <2>2. Accounts' /\ word' \in Word /\ word' # Free /\ word'.w
    BY <1>1, <1>3, TryUpgradeStep
  <2> QED BY <1>1, <2>1, <2>2, OutsideStep
<1>4. CASE downgrade(t)
  <2>1. /\ pc' = [pc EXCEPT ![t] = "downgrade"] /\ "downgrade" \in RwPC \ CondPC
        /\ UNCHANGED <<word, want, owns, queueVars>> /\ owns[t] = "write" /\ pc[t] = "run"
    BY <1>4 DEF downgrade, At, Goto, RwPC, CondPC, rwVars
  <2>2. Accounts'
    <3>1. "downgrade" \notin AskPC
      BY DEF AskPC, WaitPC
    <3> QED BY <1>1, <2>1, <3>1, QuietStep
  <2>3. word' \in Word /\ word' # Free
    BY <1>1, <2>1, FreeIsIdle DEF TypeOK
  <2> QED BY <1>1, <2>1, <2>2, <2>3, OutsideStep
<1>5. CASE try_downgrade(t)
  <2>1. /\ pc' = [pc EXCEPT ![t] = "downgraded"] /\ "downgraded" \in RwPC \ CondPC
        /\ UNCHANGED <<want, queueVars>>
        /\ \E k \in Kinds \cup {"none"} : owns' = [owns EXCEPT ![t] = k]
    BY <1>5 DEF try_downgrade, Goto, RwPC, CondPC, Become, Kinds
  <2>2. /\ Accounts' /\ word' \in Word /\ word' # Free
        /\ \A u \in Threads : pc[u] \notin UndoPC
    BY <1>1, <1>5, TryDowngradeStep
  <2>3. UndoInv'
    <3>1. \A u \in Threads : pc'[u] # "undoRecheck"
      BY <1>1, <2>1, <2>2 DEF UndoPC
    <3> QED BY <3>1 DEF UndoInv
  <2>4. QueueInv'
    <3>1. /\ pc[t] \notin WaitPC \cup CondPC \cup WakePC
          /\ "downgraded" \notin WaitPC \cup CondPC \cup WakePC
      BY <1>1 DEF RwPC, CondPC, WaitPC, WakePC
    <3> QED BY <1>1, <2>1, <3>1, ClientKeeps
  <2>5. "downgraded" \in PCs
    BY <2>1 DEF PCs
  <2> QED BY <1>1, <2>1, <2>2, <2>3, <2>4, <2>5, Assemble
<1>6. CASE dropDowngraded(t)
  <2>1. /\ pc[t] = "downgraded" /\ pc' = [pc EXCEPT ![t] = "wakeStart"] /\ EnterWake(t, "all")
        /\ UNCHANGED <<want, owns>> /\ word' = ClearWriter(word)
    BY <1>6 DEF dropDowngraded, At, EnterWake, Goto
  <2>2. Accounts' /\ word' = word
    BY <1>1, <2>1, DropDowngradedStep
  <2>3. word' \in Word
    BY <1>1, <2>2 DEF TypeOK
  <2> QED BY <1>1, <2>1, <2>2, <2>3, WakeStep
<1> QED BY <1>2, <1>3, <1>4, <1>5, <1>6

\* The steps of the wait queue.
LEMMA QueueKeeps ==
  ASSUME IInv, NEW t \in Threads, QueueStep(t), UNCHANGED <<word, want, owns, silent>>
  PROVE  IInv'
<1>1. TypeOK /\ Accounts /\ QueueInv /\ UndoInv /\ pc \in [Threads -> PCs] /\ silent \in BOOLEAN
  BY DEF IInv, TypeOK, PCs
<1>2. QueueInv'
  BY <1>1, QueueStepKeeps
<1>3. UndoInv'
  BY <1>1, QueueKeepsUndo
<1>4. /\ pc[t] \in WaitPC \cup WakePC
      /\ \E l \in {"run"} \cup AskPC \cup WakePC :
           pc' = [pc EXCEPT ![t] = l] /\ (l \in AskPC => pc[t] \in AskPC)
  BY SMT DEF QueueStep, enqueue, dropWaiter, do_wait, parkCheck, parkDequeue, wakeStart, pop,
     wake_up, unpark, Return, At, Goto, AskPC, WaitPC, WakePC
<1>5. PICK l \in {"run"} \cup AskPC \cup WakePC :
        pc' = [pc EXCEPT ![t] = l] /\ (l \in AskPC => pc[t] \in AskPC)
  BY <1>4
<1>6. Accounts' /\ word' \in Word
  <2>1. "downgrade" \notin {"run"} \cup AskPC \cup WakePC
    BY DEF AskPC, WaitPC, WakePC
  <2>2. Accounts'
    BY <1>1, <1>4, <1>5, <2>1, QuietStep
  <2> QED BY <1>1, <2>2 DEF TypeOK
<1>7. ASSUME ~silent', word' = Free PROVE Attended'
  <2>1. Attended /\ \A u \in Threads : pc[u] \notin {"drop", "undoRecheck"}
    BY <1>1, <1>7, FreeIsIdle DEF IInv, NoLostWakeup, UndoPC
  <2> QED BY <1>1, <2>1, QueueStepAttends
<1>8. l \in PCs
  BY <1>5 DEF PCs, RwPC, AskPC
<1> QED BY <1>1, <1>2, <1>3, <1>5, <1>6, <1>7, <1>8, Assemble

-----------------------------------------------------------------------------
(* The theorems *)

\* A new lock satisfies the invariant.
LEMMA Initial == Init => IInv
<1> SUFFICES ASSUME Init PROVE IInv
  OBVIOUS
<1> USE DEF Init, QueueInit
<1>1. wakers \in Seq(Waker) /\ Len(wakers) = 0 /\ DOMAIN wakers = {}
  BY SMT DEF Waker
<1>2. TypeOK
  <2>1. word \in Word
    BY SMT DEF Free, Word
  <2>2. QueueTypeOK
    BY <1>1 DEF QueueTypeOK, Waker
  <2> QED BY <2>1, <2>2 DEF TypeOK, RwPC
<1>3. Counted = {} /\ word.r = 0
  BY DEF Counted, Undoing, UndoPC, Free
<1>4. CountInv
  BY <1>3, FS_EmptySet DEF CountInv
<1>5. BitInv /\ PcInv /\ Abstract!Exclusion
  BY DEF Free, BitInv, HoldsUpread, Undoing, PcInv, UndoPC, AskPC, WaitPC, Abstract!Exclusion
<1>6. SleeperInv /\ ParkInv
  BY <1>1 DEF SleeperInv, ParkInv, Reachable, InQueue, Waiting, CondPC
<1>7. Attended /\ UndoInv
  BY DEF Attended, Asleep, Waiting, UndoInv
<1> QED BY <1>1, <1>2, <1>4, <1>5, <1>6, <1>7 DEF IInv, QueueInv, TypeOK, Accounts, NoLostWakeup

\* IInv is an inductive invariant of RwMutex.
LEMMA Inductive == IInv /\ [Next]_vars => IInv'
<1> SUFFICES ASSUME IInv, [Next]_vars PROVE IInv'
  OBVIOUS
<1>1. CASE UNCHANGED vars
  <2>1. TypeOK'
    BY <1>1 DEF vars, IInv, TypeOK, QueueTypeOK
  <2>2. QueueInv'
    <3>1. QueueTypeOK' /\ (numWakers = Len(wakers))'
      BY <1>1 DEF vars, IInv, QueueInv, QueueTypeOK
    <3>2. SleeperInv'
      BY <1>1 DEF vars, IInv, QueueInv, SleeperInv, Reachable, InQueue, Waiting
    <3>3. ParkInv'
      BY <1>1 DEF vars, IInv, QueueInv, ParkInv
    <3> QED BY <3>1, <3>2, <3>3 DEF QueueInv
  <2>3. CountInv' /\ BitInv'
    <3>1. CountInv'
      BY <1>1 DEF vars, IInv, Accounts, CountInv, Counted, Undoing
    <3>2. BitInv'
      BY <1>1 DEF vars, IInv, Accounts, BitInv, HoldsUpread, Undoing
    <3> QED BY <3>1, <3>2
  <2>4. PcInv' /\ Abstract!Exclusion'
    BY <1>1 DEF vars, IInv, Accounts, PcInv, Undoing, HoldsUpread, Abstract!Exclusion
  <2>5. UndoInv'
    BY <1>1 DEF vars, IInv, UndoInv
  <2>6. NoLostWakeup'
    BY <1>1, <2>1 DEF vars, IInv, NoLostWakeup, Attended, Asleep, Waiting, Waking, WillRecheck
  <2> QED BY <2>1, <2>2, <2>3, <2>4, <2>5, <2>6 DEF IInv, Accounts
<1>2. CASE Next
  <2>1. PICK t \in Threads : TryStep(t) \/ ((Begin(t) \/ Step(t)) /\ UNCHANGED silent)
    BY <1>2 DEF Next
  <2>2. ASSUME TryStep(t) PROVE IInv'
    <3>1. ASSUME NEW k \in Kinds, tryAcquire(t, k) PROVE IInv'
      BY <3>1, AcquireStep DEF tryAcquire
    <3> QED BY <2>2, <3>1, UndoneStep DEF TryStep
  <2>3. ASSUME Begin(t), UNCHANGED silent PROVE IInv'
    BY <2>3, AcquireStep, ConvertStep DEF Begin
  <2>4. ASSUME Step(t), UNCHANGED silent PROVE IInv'
    <3>1. ASSUME QueueStep(t), UNCHANGED rwVars PROVE IInv'
      BY <2>4, <3>1, QueueKeeps DEF rwVars
    <3> QED BY <2>4, <3>1, UndoneStep, RecheckStep, UndoRecheckStep, DropStep, DropUpStep,
          ConvertStep DEF Step
  <2> QED BY <2>1, <2>2, <2>3, <2>4
<1> QED BY <1>1, <1>2

\* Every reachable state satisfies the invariant: the word counts the guards
\* and the half-done attempts, and every sleeper can be reached.
THEOREM Invariance == Spec => []IInv
BY Initial, Inductive, PTL DEF Spec

\* A sleeper beside a zero word, which no refused try has left so, is attended
\* to: however the drops interleave with waits, no wakeup is lost.
THEOREM WakeupsKept == Spec => []NoLostWakeup
<1>1. IInv => NoLostWakeup
  BY DEF IInv
<1> QED BY <1>1, Invariance, PTL

\* A writer is alone, and there is at most one upgradeable reader.
THEOREM Exclusive == Spec => []Abstract!Exclusion
<1>1. IInv => Abstract!Exclusion
  BY DEF IInv, Accounts
<1> QED BY <1>1, Invariance, PTL

\* A granted attempt is a step of the abstract lock.
LEMMA GrantImplements ==
  ASSUME TypeOK, Accounts, NEW t \in Threads, NEW k \in Kinds, owns[t] = "none", granted(t, k)
  PROVE  Abstract!Next
<1> USE DEF Abstract!Nobody, Abstract!Become
<1>1. owns' = [owns EXCEPT ![t] = k]
  BY DEF granted, Become
<1>2. CASE k = "read"
  <2>1. \A u \in Threads : owns[u] # "write"
    BY <1>2 DEF granted, Grants, Accounts, BitInv
  <2>2. Abstract!Read(t)
    BY <1>1, <1>2, <2>1 DEF Abstract!Read
  <2> QED BY <2>2 DEF Abstract!Next
<1>3. CASE k = "upread"
  <2>1. \A u \in Threads : owns[u] \notin {"write", "upread"}
    BY <1>3 DEF granted, Grants, Accounts, BitInv, HoldsUpread
  <2>2. Abstract!Upread(t)
    BY <1>1, <1>3, <2>1 DEF Abstract!Upread
  <2> QED BY <2>2 DEF Abstract!Next
<1>4. CASE k = "write"
  <2>1. \A u \in Threads : owns[u] = "none"
    BY <1>4, FreeIsIdle DEF granted, Grants
  <2>2. Abstract!Write(t)
    BY <1>1, <1>4, <2>1 DEF Abstract!Write, Abstract!Guards
  <2> QED BY <2>2 DEF Abstract!Next
<1> QED BY <1>2, <1>3, <1>4 DEF Kinds

\* The sleeping lock implements the abstract one: every step takes, releases,
\* upgrades or downgrades a guard as the abstract lock allows, or leaves the
\* guards alone.
THEOREM Implements == Spec => Refines
<1>1. Init => Abstract!Init
  BY DEF Init, Abstract!Init
<1>2. IInv /\ [Next]_vars => [Abstract!Next]_owns
  <2> SUFFICES ASSUME IInv, Next PROVE Abstract!Next \/ UNCHANGED owns
    BY DEF vars
  <2>0. TypeOK /\ Accounts
    BY DEF IInv
  <2>1. ASSUME NEW t \in Threads, NEW k \in Kinds, acquire(t, k) \/ tryAcquire(t, k)
        PROVE  Abstract!Next \/ UNCHANGED owns
    BY <2>0, <2>1, GrantImplements DEF acquire, tryAcquire, refused
  <2>2. ASSUME NEW t \in Threads, recheck(t) PROVE Abstract!Next \/ UNCHANGED owns
    <3>1. owns[t] = "none" /\ want[t] \in Kinds
      BY <2>0, <2>2 DEF recheck, At, Accounts, PcInv, AskPC, WaitPC
    <3> QED BY <2>0, <2>2, <3>1, GrantImplements DEF recheck, refused
  <2>3. ASSUME NEW t \in Threads, dropRead(t) \/ dropWrite(t) \/ dropUpread(t)
        PROVE  Abstract!Next
    <3>1. Abstract!Release(t)
      BY <2>3 DEF dropRead, dropWrite, dropUpread, Become, Abstract!Release, Abstract!Become
    <3> QED BY <3>1 DEF Abstract!Next
  <2>4. ASSUME NEW t \in Threads, try_upgrade(t) PROVE Abstract!Next
    BY <2>0, <2>4, TryUpgradeStep DEF Abstract!Next
  <2>5. ASSUME NEW t \in Threads, try_downgrade(t) PROVE Abstract!Next
    <3>1. owns[t] = "write"
      BY <2>0, <2>5 DEF try_downgrade, At, Accounts, PcInv
    <3>2. Abstract!Downgrade(t)
      BY <2>5, <3>1 DEF try_downgrade, Become, Abstract!Downgrade, Abstract!Become
    <3> QED BY <3>2 DEF Abstract!Next
  <2>6. ASSUME NEW t \in Threads,
               \/ undoFirst(t) \/ undoRecheck(t) \/ undoTry(t) \/ upgrade(t) \/ downgrade(t)
               \/ dropUpgraded(t) \/ dropDowngraded(t) \/ UNCHANGED rwVars
        PROVE  UNCHANGED owns
    BY <2>6 DEF undoFirst, undoRecheck, undoTry, upgrade, downgrade, dropUpgraded,
       dropDowngraded, rwVars
  <2> QED BY <2>1, <2>2, <2>3, <2>4, <2>5, <2>6 DEF Next, TryStep, Begin, Step
<1> QED BY <1>1, <1>2, Invariance, PTL DEF Spec, Refines, Abstract!Spec
=============================================================================
