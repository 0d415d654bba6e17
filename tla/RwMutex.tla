------------------------------ MODULE RwMutex ------------------------------
(***************************************************************************)
(* ostd/src/sync/rwmutex.rs: the sleeping readers-writer lock.  It has the *)
(* lock word of RwLock and a wait queue for the threads that fail.         *)
(***************************************************************************)
EXTENDS WaitQueue, RwWord

\* Closed wakers stay in the queue until a wake call pops them, so the queue
\* has no bound of its own.  No call begins while it holds MaxQueue entries.
CONSTANT MaxQueue

\* MAX_READER is out of reach: there are never so many threads.
ASSUME ThreadsAssumption == IsFiniteSet(Threads) /\ Cardinality(Threads) <= MaxReader

VARIABLES
  word,   \* RwMutex::lock
  want,   \* the guard that a call in progress asks for, else "none"
  owns,   \* the guard each thread owns
  silent  \* history: a refused try has left the word free and woken nobody

rwVars == <<word, want, owns>>
vars == <<wakers, numWakers, hasWoken, parked, pc, target, mode, word, want, owns, silent>>

Init ==
  /\ QueueInit
  /\ pc = [t \in Threads |-> "run"]
  /\ word = Free
  /\ want = [t \in Threads |-> "none"]
  /\ owns = [t \in Threads |-> "none"]
  /\ silent = FALSE

Become(t, k) == owns' = [owns EXCEPT ![t] = k]

Ask(t, k) == want' = [want EXCEPT ![t] = k]

\* The first atomic operation of try_read, try_write or try_upread.
granted(t, k) ==
  Grants(word, k) /\ word' = After(word, k) /\ Become(t, k) /\ Ask(t, "none")

refused(t, k) ==
  ~Grants(word, k) /\ word' = After(word, k) /\ UNCHANGED owns /\ Ask(t, k)

\* read, write and upread: wait_until tries once before it makes a waiter.
acquire(t, k) ==
  /\ At(t, "run") /\ owns[t] = "none" /\ Len(wakers) < MaxQueue
  /\ \/ granted(t, k) /\ UNCHANGED <<pc, queueVars>>
     \/ refused(t, k) /\ Undoes(word, k) /\ Goto(t, "undoFirst") /\ UNCHANGED queueVars
     \/ refused(t, k) /\ ~Undoes(word, k) /\ NewPair(t)

undoFirst(t) ==
  /\ At(t, "undoFirst")
  /\ word' = Undo(word, want[t])
  /\ NewPair(t)
  /\ UNCHANGED <<want, owns>>

\* The same attempt, now that the waker is in the queue.
recheck(t) ==
  /\ At(t, "recheck")
  /\ \/ granted(t, want[t]) /\ Goto(t, "drop")
     \/ /\ refused(t, want[t])
        /\ Goto(t, IF Undoes(word, want[t]) THEN "undoRecheck" ELSE "doWait")
  /\ UNCHANGED queueVars

undoRecheck(t) ==
  /\ At(t, "undoRecheck")
  /\ word' = Undo(word, want[t])
  /\ Goto(t, "doWait")
  /\ UNCHANGED <<want, owns, queueVars>>

\* Mutant: only a writer's release wakes the queue.
dropReadSilently(t) ==
  /\ At(t, "run") /\ owns[t] = "read"
  /\ word' = SubReader(word)
  /\ Become(t, "none")
  /\ UNCHANGED <<pc, queueVars, want>>

\* RwMutexReadGuard::drop: the last reader wakes one thread.
dropRead(t) ==
  /\ At(t, "run") /\ owns[t] = "read"
  /\ word' = SubReader(word)
  /\ Become(t, "none")
  /\ \/ word = [Free EXCEPT !.r = 1] /\ EnterWake(t, "one")
     \/ word # [Free EXCEPT !.r = 1] /\ UNCHANGED <<pc, queueVars>>
  /\ UNCHANGED want

\* RwMutexWriteGuard::drop.
dropWrite(t) ==
  /\ At(t, "run") /\ owns[t] = "write"
  /\ word' = ClearWriter(word)
  /\ Become(t, "none")
  /\ EnterWake(t, "all")
  /\ UNCHANGED want

\* The fetch_sub of RwMutexUpgradeableGuard::drop and its conditional wake_all.
subUpread(t, next) ==
  /\ word' = SubUpread(word)
  /\ \/ word = Downgraded /\ EnterWake(t, "all")
     \/ word # Downgraded /\ Goto(t, next) /\ UNCHANGED queueVars
  /\ UNCHANGED want

dropUpread(t) ==
  /\ At(t, "run") /\ owns[t] = "upread"
  /\ subUpread(t, "run")
  /\ Become(t, "none")

\* upgrade: fetch_or(BEING_UPGRADED), then the loop of try_upgrade, which
\* drops the upgradeable guard once its compare_exchange has succeeded.
upgrade(t) ==
  /\ At(t, "run") /\ owns[t] = "upread"
  /\ word' = SetBeing(word)
  /\ Goto(t, "upgrade")
  /\ UNCHANGED <<want, owns, queueVars>>

try_upgrade(t) ==
  /\ At(t, "upgrade")
  /\ word = Upgrading
  /\ word' = Upgraded
  /\ Become(t, "write")
  /\ Goto(t, "upgraded")
  /\ UNCHANGED <<want, queueVars>>

dropUpgraded(t) ==
  /\ At(t, "upgraded")
  /\ subUpread(t, "run")
  /\ UNCHANGED owns

\* downgrade: the loop of try_downgrade, which then drops the write guard.
downgrade(t) ==
  /\ At(t, "run") /\ owns[t] = "write"
  /\ Goto(t, "downgrade")
  /\ UNCHANGED <<rwVars, queueVars>>

\* Mutant: downgrade releases the writer bit and asks for the other bit anew.
try_downgradeSplit(t) ==
  /\ At(t, "downgrade")
  /\ word' = ClearWriter(word)
  /\ Become(t, "upread")
  /\ Goto(t, "downgraded")
  /\ UNCHANGED <<want, queueVars>>

try_downgrade(t) ==
  /\ At(t, "downgrade")
  /\ word = Written
  /\ word' = Downgraded
  /\ Become(t, "upread")
  /\ Goto(t, "downgraded")
  /\ UNCHANGED <<want, queueVars>>

dropDowngraded(t) ==
  /\ At(t, "downgraded")
  /\ word' = ClearWriter(word)
  /\ EnterWake(t, "all")
  /\ UNCHANGED <<want, owns>>

Step(t) ==
  \/ undoFirst(t) \/ recheck(t) \/ undoRecheck(t)
  \/ dropRead(t) \/ dropWrite(t) \/ dropUpread(t)
  \/ try_upgrade(t) \/ dropUpgraded(t)
  \/ try_downgrade(t) \/ dropDowngraded(t)
  \/ QueueStep(t) /\ UNCHANGED rwVars

Begin(t) == (\E k \in Kinds : acquire(t, k)) \/ upgrade(t) \/ downgrade(t)

-----------------------------------------------------------------------------
(* The non-blocking calls.  A refused try_read or try_upread takes its change *)
(* back and returns None.                                                     *)

tryAcquire(t, k) ==
  /\ At(t, "run") /\ owns[t] = "none"
  /\ \/ granted(t, k) /\ UNCHANGED pc
     \/ refused(t, k) /\ Undoes(word, k) /\ Goto(t, "undoTry")
  /\ UNCHANGED <<silent, queueVars>>

undoTry(t) ==
  /\ At(t, "undoTry")
  /\ word' = Undo(word, want[t])
  /\ silent' = (silent \/ word' = Free)
  /\ Goto(t, "run")
  /\ Ask(t, "none")
  /\ UNCHANGED <<owns, queueVars>>

TryStep(t) == (\E k \in Kinds : tryAcquire(t, k)) \/ undoTry(t)

Next == \E t \in Threads : TryStep(t) \/ ((Begin(t) \/ Step(t)) /\ UNCHANGED silent)

Spec == Init /\ [][Next]_vars

-----------------------------------------------------------------------------
RwPC == {"run", "undoFirst", "undoRecheck", "undoTry", "upgrade", "upgraded",
         "downgrade", "downgraded"}

TypeOK ==
  /\ QueueTypeOK
  /\ pc \in [Threads -> RwPC \cup WaitPC \cup WakePC]
  /\ word \in Word
  /\ want \in [Threads -> Kinds \cup {"none"}]
  /\ owns \in [Threads -> Kinds \cup {"none"}]
  /\ silent \in BOOLEAN

Abstract == INSTANCE AbstractRwLock WITH Threads <- Threads, owns <- owns

\* The sleeping lock implements the abstract one; in particular upgrade and
\* downgrade are atomic.
Refines == Abstract!Spec

\* No guard's drop loses a wakeup when the lock becomes free: a thread that
\* sleeps beside a zero lock word has somebody who will wake a sleeper or try
\* again.  (What a refused try_read or try_upread does is another matter: see
\* SleepsOnlyWhileHeld.  Nor does it speak of a lock that has readers: a drop of
\* the upgradeable guard beside them wakes nobody, not even a sleeping upread.
\* The types are checked along with it.)
NoLostWakeup ==
  /\ TypeOK
  /\ ~silent /\ word = Free => Attended

\* What write() documents: "The calling thread will sleep until there are no
\* writers, upreaders, or readers present."  So a thread that sleeps beside a
\* zero lock word has somebody who is doing something about it.
SleepsOnlyWhileHeld ==
  (word = Free /\ \E t \in Threads : Asleep(t))
     => \E u \in Threads : pc[u] # "run" /\ ~Asleep(u)

-----------------------------------------------------------------------------
(* The inductive invariant: the word counts guards and half-done attempts, *)
(* and a refused attempt that is still to be taken back leaves nobody      *)
(* asleep.                                                                 *)

\* A refused try_read or try_upread before its fetch_sub.
UndoPC == {"undoFirst", "undoRecheck", "undoTry"}

\* A thread that waits for a guard it does not have.
AskPC == WaitPC \ {"drop"}

Undoing(t, k) == pc[t] \in UndoPC /\ want[t] = k

\* The threads counted in word.r.
Counted == {t \in Threads : owns[t] = "read" \/ Undoing(t, "read")}

\* The thread that UPGRADEABLE_READER stands for.
HoldsUpread(t) == owns[t] = "upread" \/ pc[t] = "upgraded" \/ Undoing(t, "upread")

CountInv == word.r = Cardinality(Counted)

BitInv ==
  /\ word.u <=> \E t \in Threads : HoldsUpread(t)
  /\ \A t, u \in Threads : HoldsUpread(t) /\ HoldsUpread(u) => t = u
  /\ word.w <=> \E t \in Threads : owns[t] = "write"
  /\ word.b <=> \E t \in Threads : pc[t] = "upgrade"

\* The guard and the wish of a thread at each point.
PcInv ==
  \A t \in Threads :
    /\ pc[t] \in UndoPC => want[t] \in {"read", "upread"}
    /\ pc[t] \in AskPC => want[t] \in Kinds
    /\ pc[t] \in UndoPC \cup AskPC => owns[t] = "none"
    /\ pc[t] = "drop" => owns[t] # "none"
    /\ pc[t] \in {"upgrade", "downgraded"} => owns[t] = "upread"
    /\ pc[t] \in {"upgraded", "downgrade"} => owns[t] = "write"

\* A thread whose recheck was refused, and which has yet to take its attempt
\* back, has been woken, will be woken, or is kept out by a writer, present or
\* to be, that will wake every sleeper.
UndoInv ==
  \A t \in Threads :
    pc[t] = "undoRecheck" /\ ~hasWoken[t] =>
      \/ word.w \/ word.b
      \/ \E u \in Threads : pc[u] \in WakePC /\ mode[u] = "all"
      \/ \E u \in Threads : pc[u] = "wake" /\ target[u] = t

Accounts == CountInv /\ BitInv /\ PcInv /\ Abstract!Exclusion

IInv == TypeOK /\ QueueInv /\ Accounts /\ UndoInv /\ NoLostWakeup
=============================================================================
