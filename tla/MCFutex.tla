------------------------------ MODULE MCFutex ------------------------------
(* Instances of Futex for TLC: a1 and a2 share a bucket. *)
EXTENDS Futex, TLC

CONSTANTS a1, a2, a3, w1, w2, w3

Symmetry == Permutations(Callers)

BucketOf == [a \in Addrs |-> IF a = a3 THEN 1 ELSE 0]

wakeOpArg(op, arg, cmp, cmparg) ==
  [op |-> op, shift |-> FALSE, oparg |-> arg, cmp |-> cmp, cmparg |-> cmparg]
Set0 == wakeOpArg("SET", {}, "GE", {})
Set1 == wakeOpArg("SET", {0}, "GE", {})

\* Whenever one of these changes a word of one bit it wakes all who wait there.
OneBitOps ==
  {wakeOpArg("ADD", {0}, "LE", {0}), wakeOpArg("OR", {0}, "LT", {0}),
   wakeOpArg("XOR", {0}, "GE", {}),
   [wakeOpArg("ANDN", 0, "GT", {}) EXCEPT !.shift = TRUE], wakeOpArg("SET", {0}, "NE", {0})}

wake(a, s, n) ==
  [op |-> "wake", addr1 |-> a, addr2 |-> a, max1 |-> n, max2 |-> 0, bitset |-> s, wakeOp |-> None]
requeue(a, b, n, m) ==
  [op |-> "requeue", addr1 |-> a, addr2 |-> b, max1 |-> n, max2 |-> m, bitset |-> Bits, wakeOp |-> None]
wakeOp(a, b, o) ==
  [op |-> "wakeOp", addr1 |-> a, addr2 |-> b, max1 |-> 1, max2 |-> 3, bitset |-> Bits, wakeOp |-> o]

\* Timed and interrupted waits, inside one bucket.
Timed ==
  [waits |-> {<<w1, a1, {1, 2}>>, <<w2, a1, {2}>>}, stores |-> {a1}, interruptible |-> {w1},
   calls |-> {wake(a1, {1}, 1), requeue(a1, a2, 1, 1)} \cup {wakeOp(a2, a1, o) : o \in OneBitOps}]

\* Waits without timeouts and signals, moved inside a bucket and between two.
Pairs ==
  [waits |-> {<<w1, a1, {1, 2}>>, <<w2, a3, {2}>>, <<w3, a3, {2}>>}, stores |-> {},
   interruptible |-> {},
   calls |-> {requeue(a1, a2, 1, 0), requeue(a1, a2, 1, 1), requeue(a3, a1, 1, 0),
              requeue(a3, a1, 1, 1), wakeOp(a1, a3, Set0), wakeOp(a3, a1, Set1)}]

\* A timed wait is moved to another bucket.
MoveTimed ==
  [waits |-> {<<w1, a1, {1}>>}, stores |-> {}, interruptible |-> {w1},
   calls |-> {requeue(a1, a3, 1, 1)}]

TimedAndPairs == {Timed, Pairs}

\* The theorems about Futex apply to these loads.
ASSUME LoadsApply ==
  \A l \in TimedAndPairs :
    /\ Tame(l) /\ Heeding(l)
    /\ Onward(l, [a \in Addrs |-> IF a = a3 THEN 0 ELSE IF a = a1 THEN 1 ELSE 2])

OnlyMoveTimed == {MoveTimed}
=============================================================================
