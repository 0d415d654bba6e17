---------------------------- MODULE RwLockProofs ----------------------------
(***************************************************************************)
(* For every finite set of threads and every reader limit: RwLock is       *)
(* exclusive, leaks no bit, caps its readers and implements the abstract   *)
(* lock.  The lock word is a count of guards and of half-done attempts.    *)
(***************************************************************************)
EXTENDS RwLock, FiniteSetTheorems, TLAPS

\* Zenon proves most leaves below; those it does not reach name SMT.
USE Zenon

\* The two sets of threads the proofs count are finite.
LEMMA Finite ==
  /\ IsFiniteSet(Counted) /\ Cardinality(Counted) \in Nat
  /\ IsFiniteSet(Readers) /\ Cardinality(Readers) \in Nat
  /\ Cardinality(Readers) <= Cardinality(Counted)
  /\ Cardinality(Counted) = 0 => Counted = {}
<1>1. Counted \in SUBSET Threads /\ Readers \in SUBSET Counted
  BY DEF Counted, Readers
<1>2. IsFiniteSet(Counted)
  BY <1>1, ThreadsAssumption, FS_Subset
<1>3. IsFiniteSet(Readers) /\ Cardinality(Readers) <= Cardinality(Counted)
  BY <1>1, <1>2, FS_Subset
<1> QED BY <1>2, <1>3, FS_CardinalityType, FS_EmptySet

\* The freshly created lock satisfies the invariant.
LEMMA Initial == Init => IInv
<1> SUFFICES ASSUME Init PROVE IInv
  OBVIOUS
<1>1. Counted = {} /\ Readers = {}
  BY DEF Init, Counted, Readers
<1>2. Cardinality(Counted) = 0 /\ Cardinality(Readers) = 0
  BY <1>1, FS_EmptySet
<1>3. TypeOK /\ BitInv /\ PcInv /\ Exclusion
  BY DEF Init, Free, Word, Kinds, TypeOK, BitInv, HoldsUpread, PcInv, Exclusion
<1>4. CountInv /\ ReadersCapped
  BY <1>2, MaxReaderAssumption, SMT DEF Init, Free, CountInv, ReadersCapped
<1> QED BY <1>3, <1>4 DEF IInv

\* try_read, try_write and try_upread: granted or refused, the word keeps
\* counting the guards and the attempts that still have to be taken back.
LEMMA AttemptStep ==
  ASSUME IInv, NEW t \in Threads, NEW k \in Kinds, attempt(t, k),
         pc[t] \in {"run", "spin"}, owns[t] = "none"
  PROVE  IInv'
<1> USE DEF IInv
<1>1. TypeOK'
  <2>1. word' \in Word
    <3>1. CASE k = "read"
      BY <3>1, SMT DEF TypeOK, Word, attempt, After
    <3>2. CASE k = "write"
      BY <3>2 DEF TypeOK, Word, attempt, After
    <3>3. CASE k = "upread"
      BY <3>3 DEF TypeOK, Word, attempt, After
    <3> QED BY <3>1, <3>2, <3>3 DEF Kinds
  <2>2. owns' \in [Threads -> Kinds \cup {"none"}] /\ want' \in [Threads -> Kinds]
    BY DEF TypeOK, attempt, Become
  <2>3. pc' \in [Threads -> {"run", "spin", "undo", "upgrade", "upgraded"}]
    BY DEF TypeOK, attempt, Goto
  <2> QED BY <2>1, <2>2, <2>3 DEF TypeOK
<1>2. PcInv'
  BY SMT DEF TypeOK, PcInv, Kinds, attempt, Goto, Become, Undoes
<1>3. CASE k = "read"
  <2>1. word' = [word EXCEPT !.r = @ + 1]
    BY <1>3 DEF attempt, After
  <2>2. Counted' = Counted \cup {t} /\ t \notin Counted
    BY <1>3 DEF TypeOK, PcInv, Counted, attempt, Goto, Become, Undoes
  <2>3. CountInv'
    <3>1. Cardinality(Counted') = Cardinality(Counted) + 1
      BY <2>2, Finite, FS_AddElement
    <3>2. word'.r = word.r + 1
      BY <2>1 DEF TypeOK, Word
    <3> QED BY <3>1, <3>2 DEF CountInv
  <2>4. BitInv' /\ Exclusion'
    BY <1>3, <2>1, SMT DEF TypeOK, Word, BitInv, HoldsUpread, Exclusion, PcInv, attempt, Goto,
       Become, Undoes, Grants
  <2>5. ReadersCapped'
    <3>1. CASE Grants(word, k)
      <4>1. Readers' = Readers \cup {t} /\ t \notin Readers /\ word.r < MaxReader
        BY <1>3, <3>1 DEF TypeOK, Readers, attempt, Become, Grants
      <4>2. Cardinality(Readers') = Cardinality(Readers) + 1
        BY <4>1, Finite, FS_AddElement
      <4> QED BY <4>1, <4>2, Finite, MaxReaderAssumption, SMT DEF CountInv, ReadersCapped
    <3>2. CASE ~Grants(word, k)
      BY <3>2 DEF Readers, ReadersCapped, attempt
    <3> QED BY <3>1, <3>2
  <2> QED BY <1>1, <1>2, <2>3, <2>4, <2>5
<1>4. CASE k # "read"
  <2>1. Counted' = Counted /\ Readers' = Readers
    BY <1>4, SMT DEF TypeOK, Counted, Readers, Kinds, attempt, Goto, Become, Undoes
  <2>2. word'.r = word.r
    BY <1>4 DEF TypeOK, Word, Kinds, attempt, After
  <2>3. CountInv' /\ ReadersCapped'
    BY <2>1, <2>2 DEF CountInv, ReadersCapped
  <2>4. word = Free => \A u \in Threads : owns[u] = "none" /\ ~HoldsUpread(u)
    <3>1. word = Free => Counted = {}
      BY Finite, SMT DEF CountInv, Free
    <3> QED BY <3>1, SMT DEF TypeOK, Kinds, Free, BitInv, HoldsUpread, Counted
  <2>5. BitInv' /\ Exclusion'
    <3>1. CASE k = "write"
      BY <3>1, <2>4, SMT DEF TypeOK, Word, Free, BitInv, HoldsUpread, Exclusion, PcInv, attempt,
         After, Goto, Become, Undoes, Grants
    <3>2. CASE k = "upread"
      BY <3>2, SMT DEF TypeOK, Word, BitInv, HoldsUpread, Exclusion, PcInv, attempt, After,
         Goto, Become, Undoes, Grants
    <3> QED BY <1>4, <3>1, <3>2 DEF Kinds
  <2> QED BY <1>1, <1>2, <2>3, <2>5
<1> QED BY <1>3, <1>4

\* A step that takes one reader out of the count: the drop of a read guard, or
\* the fetch_sub of a refused try_read.
LEMMA LessOneReader ==
  ASSUME CountInv, TypeOK, NEW t \in Threads, t \in Counted, Counted' = Counted \ {t},
         word' = SubReader(word)
  PROVE  CountInv' /\ word' \in Word
<1>1. Cardinality(Counted') = Cardinality(Counted) - 1
  BY Finite, FS_RemoveElement
<1>2. Cardinality(Counted) # 0 /\ Cardinality(Counted) \in Nat
  BY Finite
<1>3. word.r - 1 \in Nat /\ word'.r = word.r - 1
  BY <1>2, SMT DEF CountInv, SubReader, TypeOK, Word
<1>4. word' \in Word
  BY <1>3 DEF SubReader, TypeOK, Word
<1> QED BY <1>1, <1>3, <1>4 DEF CountInv

\* A step after which no thread is a reader that was not one before.
LEMMA FewerReaders ==
  ASSUME ReadersCapped, Readers' \in SUBSET Readers
  PROVE  ReadersCapped'
<1>1. Cardinality(Readers') <= Cardinality(Readers) /\ Cardinality(Readers') \in Nat
  BY Finite, FS_Subset, FS_CardinalityType
<1> QED BY <1>1, Finite, MaxReaderAssumption, SMT DEF ReadersCapped

\* IInv is an inductive invariant of RwLock.
LEMMA Inductive == IInv /\ [Next]_vars => IInv'
<1> SUFFICES ASSUME IInv, [Next]_vars PROVE IInv'
  OBVIOUS
<1> USE DEF IInv
<1>1. ASSUME NEW t \in Threads, NEW k \in Kinds, acquire(t, k) PROVE IInv'
  BY <1>1, AttemptStep DEF acquire
<1>2. ASSUME NEW t \in Threads, retry(t) PROVE IInv'
  BY <1>2, AttemptStep DEF retry, TypeOK, PcInv
<1>3. ASSUME NEW t \in Threads, giveUp(t) PROVE IInv'
  <2>1. Counted' = Counted /\ Readers' = Readers
    BY <1>3 DEF giveUp, Goto, TypeOK, Counted, Readers
  <2> QED BY <1>3, <2>1, SMT DEF giveUp, Goto, TypeOK, CountInv, BitInv, HoldsUpread, PcInv,
     Exclusion, ReadersCapped
<1>4. ASSUME NEW t \in Threads, undo(t) PROVE IInv'
  <2>1. PcInv' /\ Exclusion' /\ ReadersCapped'
    BY <1>4 DEF undo, Goto, TypeOK, PcInv, Exclusion, ReadersCapped, Readers
  <2>2. CASE want[t] = "read"
    <3>1. word' = SubReader(word) /\ t \in Counted /\ Counted' = Counted \ {t}
      BY <1>4, <2>2 DEF undo, Undo, Goto, TypeOK, PcInv, Counted
    <3>2. CountInv' /\ word' \in Word
      BY <3>1, LessOneReader
    <3>3. TypeOK' /\ BitInv'
      BY <1>4, <2>2, <3>1, <3>2, SMT DEF undo, Goto, TypeOK, Word, SubReader, BitInv, HoldsUpread
    <3> QED BY <2>1, <3>2, <3>3
  <2>3. CASE want[t] = "upread"
    <3>1. word' = [word EXCEPT !.u = FALSE] /\ Counted' = Counted
      BY <1>4, <2>3 DEF undo, Undo, SubUpread, Goto, TypeOK, Word, BitInv, HoldsUpread,
         Counted
    <3>2. TypeOK' /\ CountInv'
      BY <1>4, <3>1 DEF undo, Goto, TypeOK, Word, CountInv
    <3>3. BitInv'
      <4>1. \A u \in Threads : HoldsUpread(u)' <=> (HoldsUpread(u) /\ u # t)
        BY <1>4, <2>3 DEF undo, Goto, TypeOK, HoldsUpread, PcInv
      <4>2. HoldsUpread(t)
        BY <1>4, <2>3 DEF undo, HoldsUpread
      <4> QED BY <1>4, <3>1, <4>1, <4>2 DEF undo, Goto, TypeOK, Word, BitInv
    <3> QED BY <2>1, <3>2, <3>3
  <2> QED BY <1>4, <2>2, <2>3 DEF undo, TypeOK, PcInv, Kinds
<1>5. ASSUME NEW t \in Threads, dropRead(t) PROVE IInv'
  <2>1. word' = SubReader(word) /\ t \in Counted /\ Counted' = Counted \ {t}
    BY <1>5 DEF dropRead, Become, TypeOK, Counted
  <2>2. CountInv' /\ word' \in Word
    BY <2>1, LessOneReader
  <2>3. ReadersCapped'
    <3>1. Readers' \in SUBSET Readers
      BY <1>5 DEF dropRead, Become, TypeOK, Readers
    <3> QED BY <3>1, FewerReaders
  <2>4. TypeOK' /\ BitInv' /\ PcInv' /\ Exclusion'
    BY <1>5, <2>1, <2>2, SMT DEF dropRead, Become, SubReader, TypeOK, Word, BitInv, HoldsUpread,
       PcInv, Exclusion
  <2> QED BY <2>2, <2>3, <2>4
<1>6. ASSUME NEW t \in Threads, dropWrite(t) PROVE IInv'
  <2>1. Counted' = Counted /\ Readers' = Readers
    BY <1>6 DEF dropWrite, Become, TypeOK, Counted, Readers
  <2>3. TypeOK' /\ PcInv' /\ Exclusion'
    <3>1. TypeOK'
      BY <1>6 DEF dropWrite, ClearWriter, Become, TypeOK, Word, Kinds
    <3>2. PcInv'
      BY <1>6 DEF dropWrite, Become, TypeOK, PcInv
    <3>3. Exclusion'
      BY <1>6 DEF dropWrite, Become, TypeOK, Exclusion
    <3> QED BY <3>1, <3>2, <3>3
  <2>4. CountInv' /\ ReadersCapped'
    BY <1>6, <2>1 DEF dropWrite, ClearWriter, Become, TypeOK, Word, CountInv, ReadersCapped
  <2>5. BitInv'
    <3>1. \A u \in Threads : HoldsUpread(u)' <=> HoldsUpread(u)
      BY <1>6 DEF dropWrite, ClearWriter, Become, TypeOK, HoldsUpread, PcInv
    <3>2. \A u \in Threads : owns'[u] # "write"
      BY <1>6 DEF dropWrite, Become, TypeOK, Exclusion
    <3> QED BY <1>6, <3>1, <3>2 DEF dropWrite, ClearWriter, Become, TypeOK, Word, BitInv,
       PcInv
  <2> QED BY <2>3, <2>4, <2>5
<1>7. ASSUME NEW t \in Threads, dropUpread(t) PROVE IInv'
  <2>1. Counted' = Counted /\ Readers' = Readers
    BY <1>7 DEF dropUpread, Become, TypeOK, Counted, Readers
  <2>2. word' = [word EXCEPT !.u = FALSE]
    BY <1>7 DEF dropUpread, SubUpread, TypeOK, Word, BitInv, HoldsUpread
  <2>3. TypeOK' /\ PcInv' /\ Exclusion'
    <3>1. TypeOK'
      BY <1>7, <2>2 DEF dropUpread, Become, TypeOK, Word, Kinds
    <3>2. PcInv'
      BY <1>7 DEF dropUpread, Become, TypeOK, PcInv
    <3>3. Exclusion'
      BY <1>7 DEF dropUpread, Become, TypeOK, Exclusion
    <3> QED BY <3>1, <3>2, <3>3
  <2>4. CountInv' /\ ReadersCapped'
    BY <1>7, <2>1, <2>2 DEF dropUpread, Become, TypeOK, Word, CountInv, ReadersCapped
  <2>5. BitInv'
    <3>1. \A u \in Threads : HoldsUpread(u)' <=> (HoldsUpread(u) /\ u # t)
      BY <1>7 DEF dropUpread, Become, TypeOK, HoldsUpread, PcInv
    <3>2. HoldsUpread(t)
      BY <1>7 DEF dropUpread, HoldsUpread
    <3> QED BY <1>7, <2>2, <3>1, <3>2 DEF dropUpread, Become, TypeOK, Word, BitInv, PcInv
  <2> QED BY <2>3, <2>4, <2>5
<1>8. ASSUME NEW t \in Threads, upgrade(t) PROVE IInv'
  <2>1. Counted' = Counted /\ Readers' = Readers
    BY <1>8 DEF upgrade, Goto, TypeOK, Counted, Readers
  <2>3. TypeOK' /\ PcInv' /\ Exclusion'
    BY <1>8 DEF upgrade, SetBeing, Goto, TypeOK, Word, Kinds, PcInv, Exclusion
  <2>4. CountInv' /\ ReadersCapped'
    BY <1>8, <2>1 DEF upgrade, SetBeing, Goto, TypeOK, Word, CountInv, ReadersCapped
  <2>5. BitInv'
    <3>1. \A u \in Threads : HoldsUpread(u)' <=> HoldsUpread(u)
      BY <1>8 DEF upgrade, SetBeing, Goto, TypeOK, HoldsUpread, PcInv
    <3> QED BY <1>8, <3>1 DEF upgrade, SetBeing, Goto, TypeOK, Word, BitInv, PcInv
  <2> QED BY <2>3, <2>4, <2>5
<1>9. ASSUME NEW t \in Threads, try_upgrade(t) PROVE IInv'
  <2>1. Counted' = Counted /\ Readers' = Readers
    BY <1>9 DEF try_upgrade, Goto, Become, TypeOK, PcInv, Counted, Readers
  <2>2. Counted = {}
    BY <1>9, Finite DEF try_upgrade, Upgrading, Free, CountInv
  <2>3. TypeOK' /\ CountInv' /\ PcInv' /\ ReadersCapped'
    BY <1>9, <2>1 DEF try_upgrade, Upgrading, Upgraded, Free, Goto, Become, TypeOK, Word,
       Kinds, CountInv, PcInv, ReadersCapped
  <2>4. BitInv'
    BY <1>9, SMT DEF try_upgrade, Upgrading, Upgraded, Free, Goto, Become, TypeOK, Word, Kinds,
       BitInv, HoldsUpread, PcInv
  <2>5. Exclusion'
    BY <1>9, <2>2, SMT DEF try_upgrade, Upgrading, Free, Goto, Become, TypeOK, Word, Kinds,
       BitInv, HoldsUpread, PcInv, Exclusion, Counted
  <2> QED BY <2>3, <2>4, <2>5
<1>10. ASSUME NEW t \in Threads, dropUpgraded(t) PROVE IInv'
  <2>1. Counted' = Counted /\ Readers' = Readers
    BY <1>10 DEF dropUpgraded, Goto, TypeOK, Counted, Readers
  <2>2. word' = [word EXCEPT !.u = FALSE]
    BY <1>10 DEF dropUpgraded, SubUpread, TypeOK, Word, BitInv, HoldsUpread
  <2>3. TypeOK' /\ PcInv' /\ Exclusion'
    BY <1>10, <2>2 DEF dropUpgraded, Goto, TypeOK, Word, Kinds, PcInv, Exclusion
  <2>4. CountInv' /\ ReadersCapped'
    BY <1>10, <2>1, <2>2 DEF dropUpgraded, Goto, TypeOK, Word, CountInv, ReadersCapped
  <2>5. BitInv'
    <3>1. \A u \in Threads : HoldsUpread(u)' <=> (HoldsUpread(u) /\ u # t)
      BY <1>10 DEF dropUpgraded, Goto, TypeOK, HoldsUpread, PcInv
    <3>2. HoldsUpread(t)
      BY <1>10 DEF dropUpgraded, HoldsUpread
    <3> QED BY <1>10, <2>2, <3>1, <3>2 DEF dropUpgraded, Goto, TypeOK, Word, BitInv, PcInv
  <2> QED BY <2>3, <2>4, <2>5
<1>11. CASE UNCHANGED vars
  BY <1>11, SMT DEF vars, TypeOK, CountInv, Counted, BitInv, HoldsUpread, PcInv, Exclusion,
     ReadersCapped, Readers
<1> QED BY <1>1, <1>2, <1>3, <1>4, <1>5, <1>6, <1>7, <1>8, <1>9, <1>10, <1>11 DEF Next

\* IInv holds in every reachable state.
THEOREM Invariance == Spec => []IInv
BY Initial, Inductive, PTL DEF Spec

\* A writer is alone and there is at most one upgradeable reader, whatever
\* attempts, upgrades and drops of other threads are half done.
THEOREM Exclusive == Spec => []Exclusion
<1>1. IInv => Exclusion
  BY DEF IInv
<1> QED BY <1>1, Invariance, PTL

\* TypeOK holds in every reachable state; the reader count never underflows.
THEOREM TypeCorrect == Spec => []TypeOK
<1>1. IInv => TypeOK
  BY DEF IInv
<1> QED BY <1>1, Invariance, PTL

\* At most MAX_READER read guards exist at a time.
THEOREM Capped == Spec => []ReadersCapped
<1>1. IInv => ReadersCapped
  BY DEF IInv
<1> QED BY <1>1, Invariance, PTL

\* When no guard is owned and no attempt is half done, the lock word is zero:
\* the drops and the fetch_sub of refused attempts leak no bit.
THEOREM NoLeak == Spec => []QuiescentFree
<1>1. IInv => QuiescentFree
  <2> SUFFICES ASSUME IInv, \A t \in Threads : owns[t] = "none" /\ pc[t] \in {"run", "spin"}
               PROVE  word = Free
    BY DEF QuiescentFree
  <2>1. Counted = {}
    BY DEF Counted
  <2>2. word.r = 0
    BY <2>1, FS_EmptySet DEF IInv, CountInv
  <2>3. ~word.u /\ ~word.w /\ ~word.b
    BY DEF IInv, BitInv, HoldsUpread
  <2> QED BY <2>2, <2>3 DEF IInv, TypeOK, Word, Free
<1> QED BY <1>1, Invariance, PTL

\* While a guard is being upgraded no thread becomes a reader.
THEOREM UpgradeIsFirm == Spec => UpgradeBlocksReaders
<1>1. IInv /\ [Next]_vars
        => [(\E t \in Threads : pc[t] = "upgrade")
              => \A u \in Threads : owns'[u] = "read" => owns[u] = "read"]_vars
  <2> SUFFICES ASSUME IInv, Next, NEW v \in Threads, pc[v] = "upgrade",
                      NEW u \in Threads, owns'[u] = "read"
               PROVE  owns[u] = "read"
    BY DEF vars
  <2>1. word.b
    BY DEF IInv, BitInv
  <2>2. ASSUME NEW t \in Threads, NEW k \in Kinds, attempt(t, k) PROVE owns[u] = "read"
    BY <2>1, <2>2 DEF IInv, TypeOK, Kinds, attempt, Grants, Become
  <2>3. ASSUME NEW t \in Threads, NEW k \in Kinds, acquire(t, k) PROVE owns[u] = "read"
    BY <2>2, <2>3 DEF acquire
  <2>4. ASSUME NEW t \in Threads, retry(t) PROVE owns[u] = "read"
    BY <2>2, <2>4 DEF retry, IInv, TypeOK
  <2>5. ASSUME NEW t \in Threads,
               \/ giveUp(t) \/ undo(t) \/ dropRead(t) \/ dropWrite(t) \/ dropUpread(t)
               \/ upgrade(t) \/ try_upgrade(t) \/ dropUpgraded(t)
        PROVE  owns[u] = "read"
    BY <2>5 DEF IInv, TypeOK, giveUp, undo, dropRead, dropWrite, dropUpread, upgrade,
       try_upgrade, dropUpgraded, Become
  <2> QED BY <2>3, <2>4, <2>5 DEF Next
<1> QED BY <1>1, Invariance, PTL DEF Spec, UpgradeBlocksReaders

\* RwLock implements AbstractRwLock: every step takes, releases, upgrades or
\* leaves a guard as the abstract lock allows.
THEOREM Implements == Spec => Refines
<1>1. Init => Abstract!Init
  BY DEF Init, Abstract!Init
<1>2. IInv /\ [Next]_vars => [Abstract!Next]_owns
  <2> SUFFICES ASSUME IInv, Next PROVE Abstract!Next \/ UNCHANGED owns
    BY DEF vars
  <2> USE DEF IInv, TypeOK, Kinds, Abstract!Nobody, Abstract!Guards, Abstract!Become, Become
  <2>1. ASSUME NEW t \in Threads, NEW k \in Kinds, attempt(t, k), owns[t] = "none"
        PROVE  Abstract!Next \/ UNCHANGED owns
    <3>1. CASE ~Grants(word, k)
      BY <2>1, <3>1 DEF attempt
    <3>2. CASE k = "read" /\ Grants(word, k)
      <4>1. Abstract!Read(t)
        BY <2>1, <3>2 DEF attempt, Grants, BitInv, Abstract!Read
      <4> QED BY <4>1 DEF Abstract!Next
    <3>3. CASE k = "upread" /\ Grants(word, k)
      <4>1. Abstract!Upread(t)
        BY <2>1, <3>3 DEF attempt, Grants, BitInv, HoldsUpread, Abstract!Upread
      <4> QED BY <4>1 DEF Abstract!Next
    <3>4. CASE k = "write" /\ Grants(word, k)
      <4>1. Counted = {}
        BY <3>4, Finite, SMT DEF Grants, Free, CountInv
      <4>2. Abstract!Write(t)
        BY <2>1, <3>4, <4>1, SMT DEF attempt, Grants, Free, BitInv, HoldsUpread, Counted,
           Abstract!Write
      <4> QED BY <4>2 DEF Abstract!Next
    <3> QED BY <3>1, <3>2, <3>3, <3>4
  <2>2. ASSUME NEW t \in Threads, NEW k \in Kinds, acquire(t, k)
        PROVE  Abstract!Next \/ UNCHANGED owns
    BY <2>1, <2>2 DEF acquire
  <2>3. ASSUME NEW t \in Threads, retry(t) PROVE Abstract!Next \/ UNCHANGED owns
    BY <2>1, <2>3 DEF retry, PcInv
  <2>4. ASSUME NEW t \in Threads, giveUp(t) \/ undo(t) \/ upgrade(t) \/ dropUpgraded(t)
        PROVE  UNCHANGED owns
    BY <2>4 DEF giveUp, undo, upgrade, dropUpgraded
  <2>5. ASSUME NEW t \in Threads, dropRead(t) \/ dropWrite(t) \/ dropUpread(t)
        PROVE  Abstract!Next
    <3>1. Abstract!Release(t)
      BY <2>5 DEF dropRead, dropWrite, dropUpread, Abstract!Release
    <3> QED BY <3>1 DEF Abstract!Next
  <2>6. ASSUME NEW t \in Threads, try_upgrade(t) PROVE Abstract!Next
    <3>1. Counted = {}
      BY <2>6, Finite DEF try_upgrade, Upgrading, Free, CountInv
    <3>2. Abstract!Upgrade(t)
      BY <2>6, <3>1 DEF try_upgrade, Upgrading, Free, BitInv, PcInv, Counted,
         Abstract!Upgrade
    <3> QED BY <3>2 DEF Abstract!Next
  <2> QED BY <2>2, <2>3, <2>4, <2>5, <2>6 DEF Next
<1> QED BY <1>1, <1>2, Invariance, PTL DEF Spec, Refines, Abstract!Spec
=============================================================================
