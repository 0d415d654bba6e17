----------------------------- MODULE RcuProofs -----------------------------
(* Proofs about Rcu for every set of CPUs and of objects: memory safety of *)
(* readers, and that nothing is freed twice.                               *)
EXTENDS Rcu, TLAPS

\* Zenon proves most leaves below; those it does not reach name SMT.
USE Zenon

\* A new cell and a monitor without callbacks satisfy the invariant.
LEMMA Initial == Init => IInv
  <1>. SUFFICES ASSUME Init PROVE IInv
    OBVIOUS
  <1>. USE RcuAssumption DEF Init
  <1>1. TypeOK BY DEF TypeOK
  <1>2. CellInv /\ RemovedInv BY DEF CellInv, RemovedInv
  <1>3. FreedOnce BY DEF FreedOnce
  <1>4. GuardInv BY DEF GuardInv
  <1>5. PcInv BY DEF PcInv
  <1>6. Monitored BY DEF Monitored
  <1>. QED BY <1>1, <1>2, <1>3, <1>4, <1>5, <1>6 DEF IInv

\* Rcu::read keeps IInv: what the cell points to is in no callback.
LEMMA ReadStep ==
  ASSUME IInv, NEW c \in CPUs, read(c) PROVE IInv'
  <1>. USE RcuAssumption DEF IInv, read, monitorVars
  <1>1. TypeOK' BY DEF TypeOK
  <1>2. CellInv' BY DEF CellInv, Pending
  <1>3. RemovedInv' BY SMT DEF RemovedInv, Pending
  <1>4. FreedOnce' BY DEF FreedOnce
  <1>5. GuardInv' BY DEF GuardInv, TypeOK, CellInv, Pending
  <1>6. PcInv' BY DEF PcInv, At, TypeOK
  <1>7. Monitored' BY DEF Monitored
  <1>. QED BY <1>1, <1>2, <1>3, <1>4, <1>5, <1>6, <1>7

\* Dropping a read guard keeps IInv.
LEMMA DropGuardStep ==
  ASSUME IInv, NEW c \in CPUs, dropGuard(c) PROVE IInv'
  <1>. USE RcuAssumption DEF IInv, dropGuard, monitorVars
  <1>1. TypeOK' BY DEF TypeOK
  <1>2. CellInv' BY DEF CellInv, Pending
  <1>3. RemovedInv' BY SMT DEF RemovedInv, Pending
  <1>4. FreedOnce' BY DEF FreedOnce
  <1>5. GuardInv' BY DEF GuardInv, TypeOK
  <1>6. PcInv' BY DEF PcInv, At, TypeOK
  <1>7. Monitored' BY DEF Monitored
  <1>. QED BY <1>1, <1>2, <1>3, <1>4, <1>5, <1>6, <1>7

\* Rcu::update keeps IInv: a new object is in no callback and under no guard.
LEMMA UpdateStep ==
  ASSUME IInv, NEW c \in CPUs, NEW new \in New, update(c, new) PROVE IInv'
  <1>. USE RcuAssumption DEF IInv, update, monitorVars, New, Allocate, Goto, At
  <1>1. TypeOK' BY SMT DEF TypeOK
  <1>2. CellInv' BY SMT DEF CellInv, Pending, RemovedInv, FreedOnce, TypeOK
  <1>3. RemovedInv' BY SMT DEF RemovedInv, Pending, CellInv, TypeOK
  <1>4. FreedOnce' BY DEF FreedOnce
  <1>5. GuardInv' BY DEF GuardInv, TypeOK
  <1>6. PcInv' BY DEF PcInv, TypeOK
  <1>7. Monitored' BY DEF Monitored
  <1>. QED BY <1>1, <1>2, <1>3, <1>4, <1>5, <1>6, <1>7

\* compare_exchange keeps IInv, although memory is used again.
LEMMA CompareExchangeStep ==
  ASSUME IInv, NEW c \in CPUs, NEW new \in New, compare_exchange(c, new) PROVE IInv'
  <1>. USE RcuAssumption DEF IInv, compare_exchange, monitorVars, New, Allocate, Goto, At
  <1>1. TypeOK' BY DEF TypeOK
  <1>2. CellInv' BY SMT DEF CellInv, Pending, RemovedInv, FreedOnce, TypeOK
  <1>3. RemovedInv' BY SMT DEF RemovedInv, Pending, CellInv, TypeOK
  <1>4. FreedOnce' BY SMT DEF FreedOnce
  <1>5. GuardInv' BY DEF GuardInv, TypeOK
  <1>6. PcInv' BY DEF PcInv, TypeOK
  <1>7. Monitored' BY DEF Monitored
  <1>. QED BY <1>1, <1>2, <1>3, <1>4, <1>5, <1>6, <1>7

\* RcuInner::drop keeps IInv: no guard borrows the cell.
LEMMA DropStep ==
  ASSUME IInv, NEW c \in CPUs, drop(c) PROVE IInv'
  <1>. USE RcuAssumption DEF IInv, drop, monitorVars
  <1>1. TypeOK' BY DEF TypeOK
  <1>2. CellInv' BY DEF CellInv
  <1>3. RemovedInv' BY SMT DEF RemovedInv, Pending, CellInv
  <1>4. FreedOnce' BY SMT DEF FreedOnce, CellInv, Pending
  <1>5. GuardInv' BY DEF GuardInv, TypeOK
  <1>6. PcInv' BY DEF PcInv
  <1>7. Monitored' BY DEF Monitored
  <1>. QED BY <1>1, <1>2, <1>3, <1>4, <1>5, <1>6, <1>7

\* after_grace_period keeps IInv: a callback joins only a new grace period.
LEMMA RegisterStep ==
  ASSUME IInv, NEW c \in CPUs, after_grace_period(c) PROVE IInv'
  <1>. USE RcuAssumption DEF IInv, after_grace_period, restart, Goto, At
  <1>0. removed[c] \in Objects BY DEF PcInv, TypeOK
  <1>1. TypeOK' BY <1>0 DEF TypeOK
  <1>2. CellInv' BY <1>0, SMT DEF CellInv, Pending, RemovedInv, TypeOK
  <1>3. RemovedInv' BY <1>0, SMT DEF RemovedInv, Pending, TypeOK
  <1>4. FreedOnce' BY <1>0, SMT DEF FreedOnce, RemovedInv, Pending, TypeOK
  <1>5. GuardInv' BY <1>0 DEF GuardInv, TypeOK
  <1>6. PcInv' BY <1>0 DEF PcInv, TypeOK
  <1>7. Monitored' BY <1>0 DEF Monitored
  <1>. QED BY <1>1, <1>2, <1>3, <1>4, <1>5, <1>6, <1>7

\* The fast path of finish_grace_period keeps IInv.
LEMMA QuiesceStep ==
  ASSUME IInv, NEW c \in CPUs, quiesce(c) PROVE IInv'
  <1>. USE RcuAssumption DEF IInv, quiesce, monitorVars, cellVars, Goto, At
  <1>1. TypeOK' BY DEF TypeOK
  <1>2. CellInv' BY DEF CellInv, Pending
  <1>3. RemovedInv' BY SMT DEF RemovedInv, Pending
  <1>4. FreedOnce' BY DEF FreedOnce
  <1>5. GuardInv' BY DEF GuardInv
  <1>6. PcInv' BY DEF PcInv, TypeOK
  <1>7. Monitored' BY DEF Monitored
  <1>. QED BY <1>1, <1>2, <1>3, <1>4, <1>5, <1>6, <1>7

\* finish_grace_period keeps IInv: callbacks run once every CPU has reported.
LEMMA FinishStep ==
  ASSUME IInv, NEW c \in CPUs, finish_grace_period(c) PROVE IInv'
  <1>. USE RcuAssumption DEF IInv, finish_grace_period, restart, monitorVars, cellVars, Goto, At
  <1>0. running[c] = {} BY DEF PcInv, TypeOK
  <1>1. TypeOK' BY DEF TypeOK
  <1>2. CellInv' BY <1>0, SMT DEF CellInv, Pending, TypeOK
  <1>3. RemovedInv' BY <1>0, SMT DEF RemovedInv, Pending, TypeOK
  <1>4. FreedOnce' BY <1>0, SMT DEF FreedOnce, TypeOK
  <1>5. GuardInv' BY <1>0, SMT DEF GuardInv, PcInv, TypeOK
  <1>6. PcInv' BY DEF PcInv, TypeOK
  <1>7. Monitored'
    <2>1. CASE isComplete BY <2>1, SMT DEF Monitored
    <2>2. CASE ~isComplete /\ cpuMask \cup {c} # CPUs BY <2>2, SMT DEF Monitored
    <2>3. CASE ~isComplete /\ cpuMask \cup {c} = CPUs /\ nextCallbacks = {}
      BY <2>3 DEF Monitored
    <2>4. CASE ~isComplete /\ cpuMask \cup {c} = CPUs /\ nextCallbacks # {}
      BY <2>4 DEF Monitored
    <2>. QED BY <2>1, <2>2, <2>3, <2>4
  <1>. QED BY <1>1, <1>2, <1>3, <1>4, <1>5, <1>6, <1>7

\* Running a callback keeps IInv: no guard points to what it frees.
LEMMA CallbackStep ==
  ASSUME IInv, NEW c \in CPUs, callback(c) PROVE IInv'
  <1>. USE RcuAssumption DEF IInv, callback, monitorVars, Goto, At
  <1>1. TypeOK' BY SMT DEF TypeOK
  <1>2. CellInv' BY SMT DEF CellInv, Pending, TypeOK
  <1>3. RemovedInv' BY SMT DEF RemovedInv, Pending, TypeOK
  <1>4. FreedOnce' BY SMT DEF FreedOnce, TypeOK
  <1>5. GuardInv' BY SMT DEF GuardInv, TypeOK
  <1>6. PcInv' BY DEF PcInv, TypeOK
  <1>7. Monitored' BY DEF Monitored
  <1>. QED BY <1>1, <1>2, <1>3, <1>4, <1>5, <1>6, <1>7

\* IInv is an inductive invariant of Rcu, whatever the CPUs and objects.
LEMMA Inductive == IInv /\ [Next]_vars => IInv'
  <1>. SUFFICES ASSUME IInv, [Next]_vars PROVE IInv'
    OBVIOUS
  <1>1. CASE UNCHANGED vars
    BY <1>1, SMT DEF vars, cellVars, monitorVars, IInv, TypeOK, CellInv, RemovedInv, FreedOnce,
       GuardInv, PcInv, Monitored, Pending
  <1>2. CASE Next
    BY <1>2, ReadStep, DropGuardStep, UpdateStep, CompareExchangeStep, DropStep, RegisterStep,
       QuiesceStep, FinishStep, CallbackStep DEF Next, Step
  <1>. QED BY <1>1, <1>2

\* IInv holds in every reachable state.
THEOREM Invariance == Spec => []IInv
  BY Initial, Inductive, PTL DEF Spec

\* Every variable of the cell and of the monitor keeps its type.
THEOREM TypeCorrect == Spec => []TypeOK
  <1>1. IInv => TypeOK BY DEF IInv
  <1>. QED BY <1>1, Invariance, PTL

\* A guard never outlives the object it points to, whatever writers, grace
\* periods and reallocations do meanwhile.
THEOREM MemorySafe == Spec => []NoUseAfterFree
  <1>1. IInv => NoUseAfterFree
    BY SMT DEF IInv, NoUseAfterFree, Reachable, CellInv, RemovedInv, GuardInv, TypeOK
  <1>. QED BY <1>1, Invariance, PTL

\* No object is in two callbacks, so none is dropped twice.
THEOREM DroppedOnce == Spec => []FreedOnce
  <1>1. IInv => FreedOnce BY DEF IInv
  <1>. QED BY <1>1, Invariance, PTL

\* Callbacks wait only while a grace period is monitored.
THEOREM NoneLeftBehind == Spec => []Monitored
  <1>1. IInv => Monitored BY DEF IInv
  <1>. QED BY <1>1, Invariance, PTL
=============================================================================
