------------------------------- MODULE RwLock -------------------------------
(***************************************************************************)
(* ostd/src/sync/rwlock.rs: the spinning readers-writer lock with          *)
(* upgradeable readers.  Each atomic operation on the lock word is a step. *)
(***************************************************************************)
EXTENDS RwWord, FiniteSets

CONSTANT Threads

\* The reader count never grows into the bits above it: there are fewer
\* attempts at a time than the count has room for beyond MAX_READER.
ASSUME ThreadsAssumption ==
  IsFiniteSet(Threads) /\ Cardinality(Threads) < 2 * MaxReader

VARIABLES
  word,   \* RwLock::lock
  pc,     \* the next step of each thread
  want,   \* the guard a thread in read, write or upread asks for
  owns    \* the guard each thread owns

vars == <<word, pc, want, owns>>

Init ==
  /\ word = Free
  /\ pc = [t \in Threads |-> "run"]
  /\ want = [t \in Threads |-> "read"]
  /\ owns = [t \in Threads |-> "none"]

Goto(t, label) == pc' = [pc EXCEPT ![t] = label]

Become(t, k) == owns' = [owns EXCEPT ![t] = k]

\* The first atomic operation of try_read, try_write or try_upread.
attempt(t, k) ==
  /\ word' = After(word, k)
  /\ want' = [want EXCEPT ![t] = k]
  /\ \/ Grants(word, k) /\ Become(t, k) /\ Goto(t, "run")
     \/ /\ ~Grants(word, k)
        /\ Goto(t, IF Undoes(word, k) THEN "undo" ELSE "spin")
        /\ UNCHANGED owns

\* read, write and upread.
acquire(t, k) == pc[t] = "run" /\ owns[t] = "none" /\ attempt(t, k)

\* The loop of read, write and upread tries again ...
retry(t) == pc[t] = "spin" /\ attempt(t, want[t])

\* ... and the caller of try_read, try_write or try_upread gets None.
giveUp(t) == pc[t] = "spin" /\ Goto(t, "run") /\ UNCHANGED <<word, want, owns>>

\* fetch_sub after a failed try_read or try_upread.
undo(t) ==
  /\ pc[t] = "undo"
  /\ word' = Undo(word, want[t])
  /\ Goto(t, "spin")
  /\ UNCHANGED <<want, owns>>

\* The drops of the three guards.
dropRead(t) ==
  /\ pc[t] = "run" /\ owns[t] = "read"
  /\ word' = SubReader(word)
  /\ Become(t, "none")
  /\ UNCHANGED <<pc, want>>

dropWrite(t) ==
  /\ pc[t] = "run" /\ owns[t] = "write"
  /\ word' = ClearWriter(word)
  /\ Become(t, "none")
  /\ UNCHANGED <<pc, want>>

dropUpread(t) ==
  /\ pc[t] = "run" /\ owns[t] = "upread"
  /\ word' = SubUpread(word)
  /\ Become(t, "none")
  /\ UNCHANGED <<pc, want>>

\* upgrade: fetch_or(BEING_UPGRADED), then the loop of try_upgrade.
upgrade(t) ==
  /\ pc[t] = "run" /\ owns[t] = "upread"
  /\ word' = SetBeing(word)
  /\ Goto(t, "upgrade")
  /\ UNCHANGED <<want, owns>>

\* Mutant: try_upgrade does not wait for the readers to leave.
upgradeOverReaders(t) ==
  /\ pc[t] = "upgrade"
  /\ word' = [word EXCEPT !.w = TRUE, !.b = FALSE]
  /\ Become(t, "write")
  /\ Goto(t, "upgraded")
  /\ UNCHANGED want

try_upgrade(t) ==
  /\ pc[t] = "upgrade"
  /\ word = Upgrading
  /\ word' = Upgraded
  /\ Become(t, "write")
  /\ Goto(t, "upgraded")
  /\ UNCHANGED want

\* Mutant: the upgradeable guard is forgotten rather than dropped.
forgetUpread(t) ==
  /\ pc[t] = "upgraded"
  /\ Goto(t, "run")
  /\ UNCHANGED <<word, want, owns>>

\* drop(self) of the upgradeable guard inside try_upgrade.
dropUpgraded(t) ==
  /\ pc[t] = "upgraded"
  /\ word' = SubUpread(word)
  /\ Goto(t, "run")
  /\ UNCHANGED <<want, owns>>

Next == \E t \in Threads :
  \/ \E k \in Kinds : acquire(t, k)
  \/ retry(t) \/ giveUp(t) \/ undo(t)
  \/ dropRead(t) \/ dropWrite(t) \/ dropUpread(t)
  \/ upgrade(t) \/ try_upgrade(t) \/ dropUpgraded(t)

Spec == Init /\ [][Next]_vars

-----------------------------------------------------------------------------
TypeOK ==
  /\ word \in Word
  /\ pc \in [Threads -> {"run", "spin", "undo", "upgrade", "upgraded"}]
  /\ want \in [Threads -> Kinds]
  /\ owns \in [Threads -> Kinds \cup {"none"}]

Readers == {t \in Threads : owns[t] = "read"}

\* A writer is alone and there is at most one upgradeable reader, although the
\* word also holds the traces of failed attempts (try_read, try_upread) and of
\* a guard that is being upgraded.
Exclusion ==
  \A t, u \in Threads :
    t # u => /\ owns[t] = "write" => owns[u] = "none"
             /\ ~(owns[t] = "upread" /\ owns[u] = "upread")

\* No bit leaks: when nobody owns a guard and no attempt is half done, the
\* word is zero again (the drops and the fetch_sub of failed attempts).
QuiescentFree ==
  (\A t \in Threads : owns[t] = "none" /\ pc[t] \in {"run", "spin"}) => word = Free

\* MAX_READER caps the read guards ("we intentionally cap read guards before
\* counter growth can affect" the other bits), although attempts that will be
\* refused are counted too.
ReadersCapped == Cardinality(Readers) <= MaxReader

\* While a guard is being upgraded, no thread becomes a reader ("subsequent readers will be blocked").
UpgradeBlocksReaders ==
  [][(\E t \in Threads : pc[t] = "upgrade")
        => \A u \in Threads : owns'[u] = "read" => owns[u] = "read"]_vars

Abstract == INSTANCE AbstractRwLock WITH Threads <- Threads, owns <- owns

\* The spinning lock implements the abstract one.
Refines == Abstract!Spec

-----------------------------------------------------------------------------
(* The inductive invariant: the word counts guards and half-done attempts. *)

\* The threads counted in word.r.
Counted == {t \in Threads : owns[t] = "read" \/ (pc[t] = "undo" /\ want[t] = "read")}

\* The thread that UPGRADEABLE_READER stands for.
HoldsUpread(t) ==
  owns[t] = "upread" \/ pc[t] = "upgraded" \/ (pc[t] = "undo" /\ want[t] = "upread")

CountInv == word.r = Cardinality(Counted)

BitInv ==
  /\ word.u <=> \E t \in Threads : HoldsUpread(t)
  /\ \A t, u \in Threads : HoldsUpread(t) /\ HoldsUpread(u) => t = u
  /\ word.w <=> \E t \in Threads : owns[t] = "write"
  /\ word.b <=> \E t \in Threads : pc[t] = "upgrade"

PcInv ==
  \A t \in Threads :
    /\ pc[t] \in {"spin", "undo"} => owns[t] = "none"
    /\ pc[t] = "undo" => want[t] # "write"
    /\ pc[t] = "upgrade" => owns[t] = "upread"
    /\ pc[t] = "upgraded" => owns[t] = "write"

\* What makes Exclusion inductive.
IInv == TypeOK /\ CountInv /\ BitInv /\ PcInv /\ Exclusion /\ ReadersCapped
=============================================================================
