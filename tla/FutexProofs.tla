---------------------------- MODULE FutexProofs ----------------------------
(***************************************************************************)
(* Futexes for every set of waiters, callers, addresses and loads: no      *)
(* deadlock, items where wake calls look for them, true answers, nothing   *)
(* left behind, no missed wake, and no requeue of more than was asked for. *)
(***************************************************************************)
EXTENDS Futex, FiniteSetTheorems, TLAPS

-----------------------------------------------------------------------------
(* Sequences of items *)

\* The items in s, and their wakers.
Entries(s) == {s[i] : i \in DOMAIN s}
Wakers(s) == {e.waker : e \in Entries(s)}

\* No two items in s have the same waker, unless it is dead.
Simple(s) == \A i, j \in DOMAIN s : s[i].waker = s[j].waker /\ s[i].waker # Dead => i = j

\* The wakers, by position.
LEMMA WakersAre ==
  ASSUME NEW s
  PROVE  Wakers(s) = {s[i].waker : i \in DOMAIN s}
<1>1. ASSUME NEW e \in Entries(s) PROVE e.waker \in {s[i].waker : i \in DOMAIN s}
  BY Zenon DEF Entries
<1>2. ASSUME NEW i \in DOMAIN s PROVE s[i].waker \in Wakers(s)
  BY Zenon DEF Entries, Wakers
<1>3. Wakers(s) \subseteq {s[i].waker : i \in DOMAIN s}
  BY <1>1, Zenon DEF Wakers
<1>4. {s[i].waker : i \in DOMAIN s} \subseteq Wakers(s)
  BY <1>2, Zenon
<1> QED BY <1>3, <1>4, Zenon

\* The rank of a position among others.
Rank(P, p) == Cardinality({q \in P : q <= p})

\* The positions of a finite set have the ranks 1, 2, ... in their order.
LEMMA Ranks ==
  ASSUME NEW n \in Nat, NEW P \in SUBSET (1 .. n)
  PROVE  /\ IsFiniteSet(P) /\ Cardinality(P) \in Nat
         /\ \A p \in P : Rank(P, p) \in 1 .. Cardinality(P)
         /\ \A p, r \in P : Rank(P, p) = Rank(P, r) => p = r
         /\ \A i \in 1 .. Cardinality(P) : \E p \in P : Rank(P, p) = i
<1>1. IsFiniteSet(P) /\ Cardinality(P) \in Nat
  <2>1. IsFiniteSet(1 .. n)
    BY FS_Interval, 1 \in Int, n \in Int
  <2>2. IsFiniteSet(P)
    BY <2>1, FS_Subset, Zenon
  <2> QED BY <2>2, FS_CardinalityType, Zenon
<1>2. ASSUME NEW p \in P PROVE Rank(P, p) \in 1 .. Cardinality(P)
  <2> DEFINE S == {q \in P : q <= p}
  <2>1. S \in SUBSET P /\ p \in S
    BY SMT
  <2>2. IsFiniteSet(S) /\ Cardinality(S) \in Nat /\ Cardinality(S) <= Cardinality(P)
        /\ Cardinality(S) # 0
    <3> HIDE DEF S
    <3> QED BY <1>1, <2>1, FS_Subset, FS_CardinalityType, FS_EmptySet, Zenon
  <2> QED BY <1>1, <2>2, SMT DEF Rank
<1>3. ASSUME NEW p \in P, NEW r \in P, p < r PROVE Rank(P, p) < Rank(P, r)
  <2> DEFINE S == {q \in P : q <= p}
             T == {q \in P : q <= r}
  <2>0. (\A q \in P : q <= p => q <= r) /\ r <= r /\ ~(r <= p)
    BY <1>3, SMT
  <2>1. S \in SUBSET T /\ T \in SUBSET P /\ r \in T /\ r \notin S
    <3>1. ASSUME NEW q \in S PROVE q \in T
      <4>1. q \in P /\ q <= p
        OBVIOUS
      <4> QED BY <2>0, <4>1, Zenon
    <3> QED BY <2>0, <3>1, Zenon
  <2>2. /\ IsFiniteSet(T) /\ Cardinality(S) \in Nat /\ Cardinality(T) \in Nat
        /\ Cardinality(S) <= Cardinality(T) /\ Cardinality(S) # Cardinality(T)
    <3> HIDE DEF S, T
    <3>1. IsFiniteSet(T) BY <1>1, <2>1, FS_Subset, Zenon
    <3>2. IsFiniteSet(S) BY <3>1, <2>1, FS_Subset, Zenon
    <3> QED BY <2>1, <3>1, <3>2, FS_Subset, FS_CardinalityType, Zenon
  <2> QED BY <2>2, SMT DEF Rank
<1>4. ASSUME NEW p \in P, NEW r \in P, Rank(P, p) = Rank(P, r) PROVE p = r
  <2>1. Rank(P, p) \in Int
    BY <1>1, <1>2, SMT
  <2> QED BY <1>3, <1>4, <2>1, SMT
<1>5. ASSUME NEW i \in 1 .. Cardinality(P) PROVE \E p \in P : Rank(P, p) = i
  <2> DEFINE R == 1 .. Cardinality(P)
             f == [p \in P |-> Rank(P, p)]
  <2>1. IsFiniteSet(R) /\ Cardinality(R) = Cardinality(P)
    BY <1>1, FS_Interval, SMT
  <2>2. f \in Injection(P, R)
    BY <1>2, <1>4, Zenon DEF Injection, IsInjective
  <2>3. f \in Surjection(P, R)
    <3> HIDE DEF f, R
    <3> QED BY <2>1, <2>2, FS_Injection, Zenon
  <2> QED BY <2>3, Zenon DEF Surjection
<1> QED BY <1>1, <1>2, <1>4, <1>5

\* The position of the i-th item that Pick takes.
Nth(P, i) == CHOOSE p \in P : Rank(P, p) = i

\* t consists of the items of s at the positions in P, each taken once.
Taken(s, P, t) ==
  /\ DOMAIN t = 1 .. Cardinality(P)
  /\ \A i \in DOMAIN t : Nth(P, i) \in P /\ t[i] = s[Nth(P, i)]
  /\ \A i, j \in DOMAIN t : Nth(P, i) = Nth(P, j) => i = j
  /\ \A p \in P : \E i \in DOMAIN t : Nth(P, i) = p

\* retain and extract_if: Pick takes the items at the given positions.
LEMMA PickTakes ==
  ASSUME NEW s \in Seq(Item), NEW P \in SUBSET DOMAIN s
  PROVE  Pick(s, P) \in Seq(Item) /\ Taken(s, P, Pick(s, P))
<1> DEFINE m == Cardinality(P)
<1>1. Len(s) \in Nat /\ DOMAIN s = 1 .. Len(s) /\ P \in SUBSET (1 .. Len(s))
  BY SMT
<1>2. /\ m \in Nat
      /\ \A p \in P : Rank(P, p) \in 1 .. m
      /\ \A p, r \in P : Rank(P, p) = Rank(P, r) => p = r
      /\ \A i \in 1 .. m : \E p \in P : Rank(P, p) = i
  BY <1>1, Ranks, Zenon
<1>3. \A i \in 1 .. m : Nth(P, i) \in P /\ Rank(P, Nth(P, i)) = i
  BY <1>2, Zenon DEF Nth
<1>4. Pick(s, P) = [i \in 1 .. m |-> s[Nth(P, i)]]
  BY Zenon DEF Pick, Nth, Rank
<1>5. DOMAIN Pick(s, P) = 1 .. m /\ \A i \in 1 .. m : Pick(s, P)[i] = s[Nth(P, i)]
  BY <1>4, Zenon
<1>6. \A i \in 1 .. m : s[Nth(P, i)] \in Item
  BY <1>1, <1>3, SMT
<1>7. Pick(s, P) \in Seq(Item)
  <2>1. Pick(s, P) \in [1 .. m -> Item]
    BY <1>4, <1>6, Zenon
  <2> HIDE DEF m
  <2> QED BY <1>2, <2>1, SMT
<1>8. \A i, j \in 1 .. m : Nth(P, i) = Nth(P, j) => i = j
  BY <1>3, Zenon
<1>9. ASSUME NEW p \in P PROVE \E i \in 1 .. m : Nth(P, i) = p
  <2>1. Rank(P, p) \in 1 .. m
    BY <1>2, Zenon
  <2>2. Nth(P, Rank(P, p)) = p
    BY <1>2, <1>3, <2>1, Zenon
  <2> QED BY <2>1, <2>2, Zenon
<1> HIDE DEF m
<1>10. /\ DOMAIN Pick(s, P) = 1 .. Cardinality(P)
       /\ \A i \in DOMAIN Pick(s, P) : Nth(P, i) \in P /\ Pick(s, P)[i] = s[Nth(P, i)]
  BY <1>3, <1>5, Zenon DEF m
<1> QED BY <1>5, <1>7, <1>8, <1>9, <1>10, Zenon DEF Taken

\* The picked items are items of s, and as simple.
LEMMA PickKeeps ==
  ASSUME NEW s \in Seq(Item), NEW P \in SUBSET DOMAIN s
  PROVE  /\ Pick(s, P) \in Seq(Item)
         /\ Entries(Pick(s, P)) = {s[i] : i \in P}
         /\ Simple(s) => Simple(Pick(s, P))
<1> DEFINE t == Pick(s, P)
<1>1. t \in Seq(Item) /\ Taken(s, P, t)
  BY PickTakes, Zenon
<1> HIDE DEF t
<1>2. Entries(t) = {s[i] : i \in P}
  <2>1. ASSUME NEW i \in DOMAIN t PROVE t[i] \in {s[j] : j \in P}
    BY <1>1, Zenon DEF Taken
  <2>2. ASSUME NEW p \in P PROVE s[p] \in Entries(t)
    <3>1. PICK i \in DOMAIN t : Nth(P, i) = p
      BY <1>1, Zenon DEF Taken
    <3> QED BY <1>1, <3>1, Zenon DEF Entries, Taken
  <2> QED BY <2>1, <2>2, Zenon DEF Entries
<1>3. ASSUME Simple(s) PROVE Simple(t)
  <2> SUFFICES ASSUME NEW i \in DOMAIN t, NEW j \in DOMAIN t,
                      t[i].waker = t[j].waker, t[i].waker # Dead
               PROVE  i = j
    BY Zenon DEF Simple
  <2>1. Nth(P, i) \in P /\ Nth(P, j) \in P /\ t[i] = s[Nth(P, i)] /\ t[j] = s[Nth(P, j)]
    BY <1>1, Zenon DEF Taken
  <2>2. Nth(P, i) = Nth(P, j)
    BY <1>3, <2>1, Zenon DEF Simple
  <2> QED BY <1>1, <2>2, Zenon DEF Taken
<1> QED BY <1>1, <1>2, <1>3, Zenon DEF t

\* What is left when the items of some wakers have been taken out.
LEMMA WithoutKeeps ==
  ASSUME NEW s \in Seq(Item), NEW W
  PROVE  /\ Without(s, W) \in Seq(Item)
         /\ Entries(Without(s, W)) = {e \in Entries(s) : e.waker \notin W}
         /\ Wakers(Without(s, W)) = Wakers(s) \ W
         /\ Simple(s) => Simple(Without(s, W))
<1> DEFINE P == {i \in DOMAIN s : s[i].waker \notin W}
           t == Pick(s, P)
<1>1. P \in SUBSET DOMAIN s
  OBVIOUS
<1>2. t \in Seq(Item) /\ Entries(t) = {s[i] : i \in P} /\ (Simple(s) => Simple(t))
  <2> HIDE DEF P
  <2> QED BY <1>1, PickKeeps, Zenon
<1>3. Without(s, W) = t
  BY Zenon DEF Without
<1> HIDE DEF t
<1>4. Entries(t) = {e \in Entries(s) : e.waker \notin W}
  BY <1>2, Zenon DEF Entries
<1>5. Wakers(t) = Wakers(s) \ W
  BY <1>4, Zenon DEF Wakers
<1> QED BY <1>2, <1>3, <1>4, <1>5, Zenon

\* futex_wait_bitset adds an item.
LEMMA AppendKeeps ==
  ASSUME NEW s \in Seq(Item), NEW it \in Item
  PROVE  /\ Append(s, it) \in Seq(Item)
         /\ Entries(Append(s, it)) = Entries(s) \cup {it}
         /\ Wakers(Append(s, it)) = Wakers(s) \cup {it.waker}
         /\ Simple(s) /\ it.waker \notin Wakers(s) => Simple(Append(s, it))
<1> DEFINE t == Append(s, it)
           n == Len(s)
<1>1. /\ n \in Nat /\ DOMAIN s = 1 .. n /\ t \in Seq(Item) /\ DOMAIN t = 1 .. (n + 1)
      /\ \A i \in 1 .. n : t[i] = s[i]
      /\ t[n + 1] = it
  BY SMT
<1>2. DOMAIN t = DOMAIN s \cup {n + 1} /\ n + 1 \notin DOMAIN s
  <2> HIDE DEF t, n
  <2> QED BY <1>1, SMT
<1> HIDE DEF t, n
<1>3. Entries(t) = Entries(s) \cup {it}
  <2>1. ASSUME NEW i \in DOMAIN t PROVE t[i] \in Entries(s) \cup {it}
    BY <1>1, <1>2, Zenon DEF Entries
  <2>2. ASSUME NEW i \in DOMAIN s PROVE s[i] \in Entries(t)
    <3>1. i \in DOMAIN t /\ t[i] = s[i]
      BY <1>1, <1>2, Zenon
    <3> QED BY <3>1, Zenon DEF Entries
  <2>3. it \in Entries(t)
    BY <1>1, <1>2, Zenon DEF Entries
  <2>4. Entries(t) \subseteq Entries(s) \cup {it}
    BY <2>1, Zenon DEF Entries
  <2>5. Entries(s) \subseteq Entries(t)
    BY <2>2, Zenon DEF Entries
  <2> QED BY <2>3, <2>4, <2>5, Zenon
<1>4. Wakers(t) = Wakers(s) \cup {it.waker}
  BY <1>3, Zenon DEF Wakers
<1>5. ASSUME Simple(s), it.waker \notin Wakers(s) PROVE Simple(t)
  <2>1. \A i \in DOMAIN s : s[i].waker # it.waker
    BY <1>5, Zenon DEF Wakers, Entries
  <2> SUFFICES ASSUME NEW i \in DOMAIN t, NEW j \in DOMAIN t,
                      t[i].waker = t[j].waker, t[i].waker # Dead
               PROVE  i = j
    BY Zenon DEF Simple
  <2>2. CASE i \in DOMAIN s /\ j \in DOMAIN s
    <3>1. t[i] = s[i] /\ t[j] = s[j]
      BY <1>1, <2>2, Zenon
    <3> QED BY <1>5, <2>2, <3>1, Zenon DEF Simple
  <2>3. CASE i = n + 1 /\ j = n + 1
    BY <2>3
  <2>4. CASE i = n + 1 /\ j \in DOMAIN s
    BY <1>1, <2>1, <2>4, Zenon
  <2>5. CASE j = n + 1 /\ i \in DOMAIN s
    BY <1>1, <2>1, <2>5, Zenon
  <2> QED BY <1>2, <2>2, <2>3, <2>4, <2>5, Zenon
<1> QED BY <1>1, <1>3, <1>4, <1>5, Zenon DEF t

\* update_item_keys changes keys in their places.
LEMMA UpdateKeeps ==
  ASSUME NEW s \in Seq(Item), NEW key, NEW new \in Key, NEW max
  PROVE  LET t == update_item_keys(s, key, new, max)
         IN /\ t \in Seq(Item) /\ DOMAIN t = DOMAIN s
            /\ \A i \in DOMAIN s : t[i].waker = s[i].waker
            /\ \A i \in DOMAIN s : t[i] = s[i] \/ (t[i].key = new /\ match_up(s[i].key, key))
            /\ Wakers(t) = Wakers(s)
            /\ Simple(s) => Simple(t)
<1> DEFINE t == update_item_keys(s, key, new, max)
           Matches(it) == match_up(it.key, key)
           moved == IF max > 0 THEN FirstN(s, Matches, max)
                    ELSE {i \in DOMAIN s : i = 1 /\ Matches(s[1])}
<1>1. t = [i \in DOMAIN s |-> IF i \in moved THEN [s[i] EXCEPT !.key = new] ELSE s[i]]
  BY Zenon DEF update_item_keys
<1>2. ASSUME NEW i \in moved PROVE match_up(s[i].key, key)
  BY Zenon DEF FirstN
<1> HIDE DEF t, moved, Matches
<1>3. ASSUME NEW i \in DOMAIN s
      PROVE  /\ t[i] \in Item /\ t[i].waker = s[i].waker
             /\ t[i] = s[i] \/ (t[i].key = new /\ match_up(s[i].key, key))
  <2>1. s[i] \in Item
    BY SMT
  <2>2. CASE i \in moved
    <3>1. t[i] = [s[i] EXCEPT !.key = new]
      BY <1>1, <2>2, Zenon
    <3>2. t[i] \in Item /\ t[i].waker = s[i].waker /\ t[i].key = new
      BY <2>1, <3>1, SMT DEF Item
    <3> QED BY <1>2, <2>2, <3>2, Zenon
  <2>3. CASE i \notin moved
    BY <1>1, <2>1, <2>3, Zenon
  <2> QED BY <2>2, <2>3, Zenon
<1>4. DOMAIN t = DOMAIN s
  BY <1>1, Zenon
<1>5. t \in Seq(Item)
  <2>1. Len(s) \in Nat /\ DOMAIN s = 1 .. Len(s)
    BY SMT
  <2>2. t \in [1 .. Len(s) -> Item]
    BY <1>1, <1>3, <2>1, Zenon
  <2> QED BY <2>1, <2>2, SMT
<1>6. Wakers(t) = Wakers(s)
  <2>1. {t[i].waker : i \in DOMAIN t} = {s[i].waker : i \in DOMAIN s}
    BY <1>3, <1>4, Zenon
  <2> QED BY <2>1, WakersAre, Zenon
<1>7. ASSUME Simple(s) PROVE Simple(t)
  BY <1>3, <1>4, <1>7, Zenon DEF Simple
<1> QED BY <1>3, <1>4, <1>5, <1>6, <1>7, Zenon DEF t

\* Positions out of s, in their new form.
LEMMA WithKeyKeeps ==
  ASSUME NEW s \in Seq(Item), NEW P \in SUBSET DOMAIN s, NEW new \in Key
  PROVE  LET t == withKey(s, P, new)
         IN /\ t \in Seq(Item)
            /\ \A e \in Entries(t) : e.key = new
            /\ Wakers(t) = {s[i].waker : i \in P}
            /\ Simple(s) => Simple(t)
<1> DEFINE u == Pick(s, P)
           t == withKey(s, P, new)
<1>1. u \in Seq(Item) /\ Entries(u) = {s[i] : i \in P} /\ (Simple(s) => Simple(u))
  BY PickKeeps, Zenon
<1>2. t = [i \in DOMAIN u |-> [u[i] EXCEPT !.key = new]]
  BY Zenon DEF withKey
<1> HIDE DEF t, u
<1>3. ASSUME NEW i \in DOMAIN u
      PROVE  t[i] \in Item /\ t[i].waker = u[i].waker /\ t[i].key = new
  <2>1. u[i] \in Item
    BY <1>1, SMT
  <2>2. t[i] = [u[i] EXCEPT !.key = new]
    BY <1>2, Zenon
  <2> QED BY <2>1, <2>2, SMT DEF Item
<1>4. DOMAIN t = DOMAIN u
  BY <1>2, Zenon
<1>5. t \in Seq(Item)
  <2>1. Len(u) \in Nat /\ DOMAIN u = 1 .. Len(u)
    BY <1>1, SMT
  <2>2. t \in [1 .. Len(u) -> Item]
    BY <1>2, <1>3, <2>1, Zenon
  <2> QED BY <2>1, <2>2, SMT
<1>6. \A e \in Entries(t) : e.key = new
  BY <1>3, <1>4, Zenon DEF Entries
<1>7. Wakers(t) = Wakers(u)
  <2>1. {t[i].waker : i \in DOMAIN t} = {u[i].waker : i \in DOMAIN u}
    BY <1>3, <1>4, Zenon
  <2> QED BY <2>1, WakersAre, Zenon
<1>8. Wakers(u) = {s[i].waker : i \in P}
  BY <1>1, Zenon DEF Wakers
<1>9. ASSUME Simple(s) PROVE Simple(t)
  BY <1>1, <1>3, <1>4, <1>9, Zenon DEF Simple
<1> QED BY <1>5, <1>6, <1>7, <1>8, <1>9, Zenon DEF t

\* One sequence behind another.
LEMMA ConcatKeeps ==
  ASSUME NEW s \in Seq(Item), NEW u \in Seq(Item)
  PROVE  /\ s \o u \in Seq(Item)
         /\ Entries(s \o u) = Entries(s) \cup Entries(u)
         /\ Wakers(s \o u) = Wakers(s) \cup Wakers(u)
         /\ Simple(s) /\ Simple(u) /\ Wakers(s) \cap Wakers(u) \subseteq {Dead} => Simple(s \o u)
<1> DEFINE t == s \o u
           n == Len(s)
           m == Len(u)
<1>1. /\ n \in Nat /\ m \in Nat /\ DOMAIN s = 1 .. n /\ DOMAIN u = 1 .. m
      /\ t \in Seq(Item) /\ DOMAIN t = 1 .. (n + m)
      /\ \A i \in 1 .. (n + m) : t[i] = IF i <= n THEN s[i] ELSE u[i - n]
  BY SMT
<1> HIDE DEF t, n, m
<1>2. ASSUME NEW i \in DOMAIN t
      PROVE  \/ i \in DOMAIN s /\ t[i] = s[i]
             \/ i - n \in DOMAIN u /\ t[i] = u[i - n] /\ ~(i \in DOMAIN s)
  BY <1>1, SMT
<1>3. ASSUME NEW i \in DOMAIN s PROVE i \in DOMAIN t /\ t[i] = s[i]
  BY <1>1, SMT
<1>4. ASSUME NEW j \in DOMAIN u PROVE n + j \in DOMAIN t /\ t[n + j] = u[j]
  BY <1>1, SMT
<1>5. Entries(t) \subseteq Entries(s) \cup Entries(u)
  BY <1>2, Zenon DEF Entries
<1>6. Entries(s) \subseteq Entries(t) /\ Entries(u) \subseteq Entries(t)
  BY <1>3, <1>4, Zenon DEF Entries
<1>7. Entries(t) = Entries(s) \cup Entries(u)
  BY <1>5, <1>6, Zenon
<1>8. Wakers(t) = Wakers(s) \cup Wakers(u)
  BY <1>7, Zenon DEF Wakers
<1>9. ASSUME Simple(s), Simple(u), Wakers(s) \cap Wakers(u) \subseteq {Dead} PROVE Simple(t)
  <2> SUFFICES ASSUME NEW i \in DOMAIN t, NEW j \in DOMAIN t,
                      t[i].waker = t[j].waker, t[i].waker # Dead
               PROVE  i = j
    BY Zenon DEF Simple
  <2>1. CASE i \in DOMAIN s /\ j \in DOMAIN s
    <3>1. t[i] = s[i] /\ t[j] = s[j]
      BY <1>3, <2>1, Zenon
    <3> QED BY <1>9, <2>1, <3>1, Zenon DEF Simple
  <2>2. CASE i \notin DOMAIN s /\ j \notin DOMAIN s
    <3>1. i - n \in DOMAIN u /\ t[i] = u[i - n] /\ j - n \in DOMAIN u /\ t[j] = u[j - n]
      BY <1>2, <2>2, Zenon
    <3>2. i - n = j - n
      BY <1>9, <3>1, Zenon DEF Simple
    <3>3. i \in Int /\ j \in Int
      BY <1>1, SMT
    <3> QED BY <1>1, <3>2, <3>3, SMT
  <2>3. ASSUME NEW p \in DOMAIN s, NEW q \in DOMAIN u, s[p].waker = u[q].waker
        PROVE  s[p].waker = Dead
    <3>1. s[p].waker \in Wakers(s) /\ u[q].waker \in Wakers(u)
      BY Zenon DEF Wakers, Entries
    <3> QED BY <1>9, <2>3, <3>1, Zenon
  <2>4. CASE i \in DOMAIN s /\ j \notin DOMAIN s
    BY <1>2, <1>3, <2>3, <2>4, Zenon
  <2>5. CASE i \notin DOMAIN s /\ j \in DOMAIN s
    BY <1>2, <1>3, <2>3, <2>5, Zenon
  <2> QED BY <2>1, <2>2, <2>4, <2>5, Zenon
<1> QED BY <1>1, <1>7, <1>8, <1>9, Zenon DEF t

\* remove_by_waker takes one item out and puts the last one in its place.
LEMMA SwapRemoveKeeps ==
  ASSUME NEW s \in Seq(Item), NEW w, HasItem(s, w)
  PROVE  LET t == swap_remove(s, w)
         IN /\ t \in Seq(Item)
            /\ Entries(t) \subseteq Entries(s)
            /\ Simple(s) => Simple(t)
            /\ Simple(s) /\ w # Dead => Wakers(t) = Wakers(s) \ {w}
<1> DEFINE t == swap_remove(s, w)
           n == Len(s)
           idx == CHOOSE i \in DOMAIN s : s[i].waker = w
           g(i) == IF i = idx THEN n ELSE i
<1>1. idx \in DOMAIN s /\ s[idx].waker = w
  BY Zenon DEF HasItem
<1> HIDE DEF idx
<1>2. n \in Nat /\ DOMAIN s = 1 .. n /\ n >= 1 /\ idx \in 1 .. n
  BY <1>1, SMT
<1>3. t = SubSeq([s EXCEPT ![idx] = s[n]], 1, n - 1)
  BY Zenon DEF swap_remove, idx
<1>4. s[n] \in Item
  BY <1>2, SMT
<1>5. t \in Seq(Item) /\ DOMAIN t = 1 .. (n - 1) /\ \A i \in 1 .. (n - 1) : t[i] = s[g(i)]
  <2> DEFINE v == [s EXCEPT ![idx] = s[n]]
  <2>1. v \in Seq(Item) /\ Len(v) = n /\ \A i \in 1 .. n : v[i] = s[g(i)]
    BY <1>2, <1>4, SMT
  <2>2. t = SubSeq(v, 1, n - 1)
    BY <1>3, Zenon
  <2> HIDE DEF v, t, n, g
  <2> QED BY <1>2, <2>1, <2>2, SMT
<1>6. /\ \A i \in 1 .. (n - 1) : g(i) \in DOMAIN s /\ g(i) # idx
      /\ \A i, j \in 1 .. (n - 1) : g(i) = g(j) => i = j
      /\ \A p \in DOMAIN s : p # idx => \E i \in 1 .. (n - 1) : g(i) = p
  <2> HIDE DEF n
  <2>1. \A i \in 1 .. (n - 1) : i \in 1 .. n /\ i # n /\ n \in 1 .. n
    BY <1>2, SMT
  <2>2. \A p \in 1 .. n : p # n => p \in 1 .. (n - 1)
    BY <1>2, SMT
  <2>3. ASSUME NEW i \in 1 .. (n - 1) PROVE g(i) \in DOMAIN s /\ g(i) # idx
    BY <1>2, <2>1, Zenon
  <2>4. ASSUME NEW i \in 1 .. (n - 1), NEW j \in 1 .. (n - 1), g(i) = g(j) PROVE i = j
    BY <2>1, <2>4, Zenon
  <2>5. ASSUME NEW p \in DOMAIN s, p # idx PROVE \E i \in 1 .. (n - 1) : g(i) = p
    <3>1. CASE p = n
      <4>1. idx \in 1 .. (n - 1) /\ g(idx) = p
        BY <1>2, <2>2, <2>5, <3>1, Zenon
      <4> QED BY <4>1, Zenon
    <3>2. CASE p # n
      <4>1. p \in 1 .. (n - 1) /\ g(p) = p
        BY <1>2, <2>2, <2>5, <3>2, Zenon
      <4> QED BY <4>1, Zenon
    <3> QED BY <3>1, <3>2
  <2> QED BY <2>3, <2>4, <2>5, Zenon
<1> HIDE DEF t, n, g
<1>7. Entries(t) \subseteq Entries(s)
  <2>1. ASSUME NEW i \in DOMAIN t PROVE t[i] \in Entries(s)
    <3>1. t[i] = s[g(i)] /\ g(i) \in DOMAIN s
      BY <1>5, <1>6, Zenon
    <3> QED BY <3>1, Zenon DEF Entries
  <2> QED BY <2>1, Zenon DEF Entries
<1>8. ASSUME Simple(s) PROVE Simple(t)
  <2> SUFFICES ASSUME NEW i \in DOMAIN t, NEW j \in DOMAIN t,
                      t[i].waker = t[j].waker, t[i].waker # Dead
               PROVE  i = j
    BY Zenon DEF Simple
  <2>1. g(i) = g(j)
    <3>1. t[i] = s[g(i)] /\ t[j] = s[g(j)] /\ g(i) \in DOMAIN s /\ g(j) \in DOMAIN s
      BY <1>5, <1>6, Zenon
    <3> QED BY <1>8, <3>1, Zenon DEF Simple
  <2> QED BY <1>5, <1>6, <2>1, Zenon
<1>9. ASSUME Simple(s), w # Dead PROVE Wakers(t) = Wakers(s) \ {w}
  <2>1. ASSUME NEW i \in DOMAIN t PROVE t[i].waker \in Wakers(s) \ {w}
    <3>1. t[i] = s[g(i)] /\ g(i) \in DOMAIN s /\ g(i) # idx
      BY <1>5, <1>6, Zenon
    <3>2. s[g(i)].waker # w
      BY <1>1, <1>9, <3>1, Zenon DEF Simple
    <3> QED BY <3>1, <3>2, WakersAre, Zenon
  <2>2. ASSUME NEW p \in DOMAIN s, s[p].waker # w PROVE s[p].waker \in Wakers(t)
    <3>1. PICK i \in 1 .. (n - 1) : g(i) = p
      BY <1>1, <1>6, <2>2, Zenon
    <3>2. i \in DOMAIN t /\ t[i] = s[p]
      BY <1>5, <3>1, Zenon
    <3> QED BY <3>2, WakersAre, Zenon
  <2>3. Wakers(t) \subseteq Wakers(s) \ {w}
    BY <2>1, WakersAre, Zenon
  <2>4. Wakers(s) \ {w} \subseteq Wakers(t)
    BY <2>2, WakersAre, Zenon
  <2> QED BY <2>3, <2>4, Zenon
<1> QED BY <1>5, <1>7, <1>8, <1>9, Zenon DEF t

\* The items of w's waker are dead.
Bury(s, w) ==
  [i \in DOMAIN s |-> IF s[i].waker = w THEN [s[i] EXCEPT !.waker = Dead] ELSE s[i]]

\* The drop of a waiter changes only its own items.
LEMMA BuryKeeps ==
  ASSUME NEW s \in Seq(Item), NEW w \in Waiters
  PROVE  LET t == Bury(s, w)
         IN /\ t \in Seq(Item) /\ DOMAIN t = DOMAIN s
            /\ \A i \in DOMAIN s : t[i].key = s[i].key /\ (s[i].waker # w => t[i] = s[i])
            /\ Wakers(t) \ {Dead} = Wakers(s) \ {w, Dead}
            /\ w \notin Wakers(s) => t = s
            /\ Simple(s) => Simple(t)
<1> DEFINE t == Bury(s, w)
<1>0. w # Dead
  BY FutexAssumption, Zenon
<1>1. t = [i \in DOMAIN s |-> IF s[i].waker = w THEN [s[i] EXCEPT !.waker = Dead] ELSE s[i]]
  BY Zenon DEF Bury
<1> HIDE DEF t
<1>2. ASSUME NEW i \in DOMAIN s
      PROVE  /\ t[i] \in Item /\ t[i].key = s[i].key
             /\ s[i].waker # w => t[i] = s[i]
             /\ s[i].waker = w => t[i].waker = Dead
  <2>1. s[i] \in Item
    BY SMT
  <2>2. CASE s[i].waker = w
    <3>1. t[i] = [s[i] EXCEPT !.waker = Dead]
      BY <1>1, <2>2, Zenon
    <3> QED BY <2>1, <2>2, <3>1, SMT DEF Item
  <2>3. CASE s[i].waker # w
    BY <1>1, <2>1, <2>3, Zenon
  <2> QED BY <2>2, <2>3, Zenon
<1>3. DOMAIN t = DOMAIN s
  BY <1>1, Zenon
<1>4. t \in Seq(Item)
  <2>1. Len(s) \in Nat /\ DOMAIN s = 1 .. Len(s)
    BY SMT
  <2>2. t \in [1 .. Len(s) -> Item]
    BY <1>1, <1>2, <2>1, Zenon
  <2> QED BY <2>1, <2>2, SMT
<1>5. Wakers(t) \ {Dead} = Wakers(s) \ {w, Dead}
  <2>1. ASSUME NEW i \in DOMAIN t, t[i].waker # Dead PROVE t[i].waker \in Wakers(s) \ {w, Dead}
    BY <1>2, <1>3, <2>1, WakersAre, Zenon
  <2>2. ASSUME NEW i \in DOMAIN s, s[i].waker # w PROVE s[i].waker \in Wakers(t)
    BY <1>2, <1>3, <2>2, WakersAre, Zenon
  <2>3. Wakers(t) \ {Dead} \subseteq Wakers(s) \ {w, Dead}
    BY <2>1, WakersAre, Zenon
  <2>4. Wakers(s) \ {w, Dead} \subseteq Wakers(t) \ {Dead}
    BY <2>2, WakersAre, Zenon
  <2> QED BY <2>3, <2>4, Zenon
<1>6. ASSUME w \notin Wakers(s) PROVE t = s
  <2>1. \A i \in DOMAIN s : s[i].waker # w
    BY <1>6, WakersAre, Zenon
  <2>2. \A i \in DOMAIN s : t[i] = s[i]
    BY <1>2, <2>1, Zenon
  <2> QED BY <1>3, <1>4, <2>2, SMT
<1>7. ASSUME Simple(s) PROVE Simple(t)
  <2> SUFFICES ASSUME NEW i \in DOMAIN s, NEW j \in DOMAIN s,
                      t[i].waker = t[j].waker, t[i].waker # Dead
               PROVE  i = j
    BY <1>3, Zenon DEF Simple
  <2>1. t[i] = s[i] /\ t[j] = s[j]
    BY <1>2, Zenon
  <2> QED BY <1>7, <2>1, Zenon DEF Simple
<1> QED BY <1>2, <1>3, <1>4, <1>5, <1>6, <1>7, Zenon DEF t

-----------------------------------------------------------------------------
(* Types *)

\* What FutexAssumption says of a call, also of the wake after a store.
LEMMA CallTypes ==
  ASSUME load \in Loads, NEW c \in AllCalls
  PROVE  /\ c.op \in {"wake", "requeue", "wakeOp"} /\ c # NoCall
         /\ c.addr1 \in Addrs /\ c.addr2 \in Addrs
         /\ c.max1 \in Nat /\ c.max2 \in Nat /\ c.bitset \in SUBSET Bits
         /\ c.op = "wake" => c.addr1 = c.addr2
         /\ c.op = "wakeOp" => IsWakeOp(c.wakeOp)
<1>1. CASE c \in Calls
  <2>1. /\ c.op \in {"wake", "requeue", "wakeOp"} /\ c.addr1 \in Addrs /\ c.addr2 \in Addrs
        /\ c.max1 \in Nat /\ c.max2 \in Nat /\ c.bitset \in SUBSET Bits
        /\ c.op = "wake" => c.addr1 = c.addr2
        /\ c.op = "wakeOp" => IsWakeOp(c.wakeOp)
    BY <1>1, FutexAssumption, Zenon DEF Calls
  <2>2. c # NoCall
    BY <2>1, SMT DEF NoCall
  <2> QED BY <2>1, <2>2, Zenon
<1>2. CASE c \in {WakeAll(a) : a \in Stores}
  <2>0. PICK a \in Stores : c = WakeAll(a)
    BY <1>2, Zenon
  <2>1. a \in Addrs /\ Cardinality(Waiters) \in Nat
    BY FutexAssumption, FS_CardinalityType, Zenon DEF Stores
  <2>2. /\ c.op = "wake" /\ c.addr1 = a /\ c.addr2 = a /\ c.max1 = Cardinality(Waiters)
        /\ c.max2 = 0 /\ c.bitset = Bits
    BY <2>0, SMT DEF WakeAll
  <2>3. c # NoCall
    BY <2>2, SMT DEF NoCall
  <2> QED BY <2>1, <2>2, <2>3, SMT
<1> QED BY <1>1, <1>2, Zenon DEF AllCalls

\* The words stay words.
LEMMA NewValTypes ==
  ASSUME NEW op, IsWakeOp(op), NEW old \in Values
  PROVE  calculate_new_val(op, old) \in Values
<1>1. WordBits \in Nat /\ WordBits > 0
  BY FutexAssumption, SMT
<1>2. oparg(op) \in Values
  <2>1. CASE op.shift
    <3>1. op.oparg \in Nat
      BY <2>1, Zenon DEF IsWakeOp
    <3>2. op.oparg % WordBits \in Positions
      BY <1>1, <3>1, SMT DEF Positions
    <3> QED BY <2>1, <3>2, SMT DEF oparg, Values
  <2>2. CASE ~op.shift
    BY <2>2, Zenon DEF IsWakeOp, oparg
  <2> QED BY <2>1, <2>2
<1>3. wrapping_add(oparg(op), old) \in Values
  BY Zenon DEF wrapping_add, Values
<1>4. op.op \in {"SET", "ADD", "OR", "ANDN", "XOR"}
  BY Zenon DEF IsWakeOp
<1>5. CASE op.op = "SET" BY <1>2, <1>5, SMT DEF calculate_new_val
<1>6. CASE op.op = "ADD" BY <1>3, <1>6, SMT DEF calculate_new_val
<1>7. CASE op.op = "OR" BY <1>2, <1>7, SMT DEF calculate_new_val, Values
<1>8. CASE op.op = "ANDN" BY <1>2, <1>8, SMT DEF calculate_new_val, Values
<1>9. CASE op.op = "XOR" BY <1>2, <1>9, SMT DEF calculate_new_val, Values
<1> QED BY <1>4, <1>5, <1>6, <1>7, <1>8, <1>9, Zenon

-----------------------------------------------------------------------------
(* The invariant *)

\* The items in s belong in the bucket b, every bitset has a bit, and no waiter
\* is there twice.
Tidy(s, b) ==
  /\ s \in Seq(Item) /\ Simple(s)
  /\ \A e \in Entries(s) : Hash[e.key.addr] = b /\ e.key.bitset # {}

\* A waiter is in one bucket, once.
Once ==
  /\ items = [b \in Buckets |-> items[b]]
  /\ \A b \in Buckets : Tidy(items[b], b)
  /\ \A b, c \in Buckets : b # c => Wakers(items[b]) \cap Wakers(items[c]) \subseteq {Dead}

\* x is the waker of an item.
Queued(x) == \E b \in Buckets : x \in Wakers(items[b])

\* A waiter is queued until a wake call counts it or it takes its item out.
Settled ==
  \A w \in Waiters :
    /\ counted[w] \in {0, 1}
    /\ Queued(w) <=> pc[w] # "run" /\ counted[w] = 0
    /\ pc[w] = "run" /\ counted[w] = 1 => returned[w] = "ok"
    /\ pc[w] # "run" => expects[w] \in Addrs \X Values

\* Who holds a lock between two steps makes a call with two buckets, and the
\* lock is that of the lower one.
Held ==
  \A b \in Buckets : lock[b] # None =>
    /\ call[lock[b]] \in AllCalls
    /\ Hash[call[lock[b]].addr1] # Hash[call[lock[b]].addr2]
    /\ b = firstLock(call[lock[b]])

\* A wake call that is under way is the one after a store.
PlainWakes == \A k \in Callers : call[k].op = "wake" => \E a \in Addrs : call[k] = WakeAll(a)

\* Without moves between buckets, an item is where its wait began.
AtHome ==
  StaysHome(load) =>
    \A w \in Waiters, b \in Buckets : w \in Wakers(items[b]) => b = Hash[expects[w][1]]

\* Without timeouts and signals, only a wake call ends a pause.
Calm ==
  Steady(load) =>
    \A w \in Waiters :
      /\ timer[w] = "none" /\ ~pending[w] /\ ~waking[w]
      /\ pc[w] # "run" /\ (hasWoken[w] \/ pc[w] \in {"woken", "remove"}) => counted[w] = 1

\* Nothing is left behind, and success is never reported without a wake.
Clean ==
  Tame(load) =>
    /\ ~Queued(Dead)
    /\ \A w \in Waiters : pc[w] = "run" /\ returned[w] = "ok" => counted[w] = 1

IInv == TypeOK /\ Once /\ Settled /\ Held /\ PlainWakes /\ AtHome /\ Calm /\ Clean

-----------------------------------------------------------------------------
(* What the calls do to the items *)

\* Only waiters that are queued and not woken are woken.
LEMMA WakenFrom ==
  ASSUME NEW s \in Seq(Item), NEW key, NEW max
  PROVE  WakenIn(s, key, max) \subseteq {w \in Waiters : w \in Wakers(s) /\ ~hasWoken[w]}
<1> DEFINE Wakes(it) == match_up(it.key, key) /\ it.waker # Dead /\ ~hasWoken[it.waker]
<1>1. WakenIn(s, key, max) = {s[i].waker : i \in FirstN(s, Wakes, max)}
  BY Zenon DEF WakenIn
<1>2. ASSUME NEW i \in FirstN(s, Wakes, max)
      PROVE  i \in DOMAIN s /\ s[i].waker # Dead /\ ~hasWoken[s[i].waker]
  BY Zenon DEF FirstN
<1> HIDE DEF Wakes
<1>3. ASSUME NEW i \in FirstN(s, Wakes, max)
      PROVE  s[i].waker \in {w \in Waiters : w \in Wakers(s) /\ ~hasWoken[w]}
  <2>1. s[i] \in Item
    BY <1>2, SMT
  <2>2. s[i].waker \in Waiters
    BY <1>2, <2>1, SMT DEF Item
  <2>3. s[i].waker \in Wakers(s)
    BY <1>2, WakersAre, Zenon
  <2> QED BY <1>2, <2>2, <2>3, Zenon
<1> QED BY <1>1, <1>3, Zenon

\* A bucket stays tidy when wakers are taken out.
LEMMA WithoutTidy ==
  ASSUME NEW s, NEW b, NEW W, Tidy(s, b)
  PROVE  Tidy(Without(s, W), b) /\ Wakers(Without(s, W)) = Wakers(s) \ W
<1>1. s \in Seq(Item) /\ Simple(s)
  BY Zenon DEF Tidy
<1>2. /\ Without(s, W) \in Seq(Item)
      /\ Entries(Without(s, W)) = {e \in Entries(s) : e.waker \notin W}
      /\ Wakers(Without(s, W)) = Wakers(s) \ W
      /\ Simple(s) => Simple(Without(s, W))
  BY <1>1, WithoutKeeps, Zenon
<1> QED BY <1>1, <1>2, Zenon DEF Tidy

\* The woken waiters leave their buckets, and nobody else does.
LEMMA Leaves ==
  ASSUME Once, NEW woken, items' = [b \in Buckets |-> items'[b]],
         \A b \in Buckets : Tidy(items'[b], b) /\ Wakers(items'[b]) = Wakers(items[b]) \ woken
  PROVE  /\ Once'
         /\ \A x : Queued(x)' <=> Queued(x) /\ x \notin woken
         /\ \A b \in Buckets : Wakers(items'[b]) \subseteq Wakers(items[b])
<1>1. Once'
  <2>1. ASSUME NEW b \in Buckets, NEW c \in Buckets, b # c
        PROVE  Wakers(items'[b]) \cap Wakers(items'[c]) \subseteq {Dead}
    <3>1. Wakers(items[b]) \cap Wakers(items[c]) \subseteq {Dead}
      BY <2>1, Zenon DEF Once
    <3>2. Wakers(items'[b]) \subseteq Wakers(items[b]) /\ Wakers(items'[c]) \subseteq Wakers(items[c])
      BY Zenon
    <3> QED BY <3>1, <3>2, Zenon
  <2> QED BY <2>1, Zenon DEF Once
<1>2. ASSUME NEW x PROVE Queued(x)' <=> Queued(x) /\ x \notin woken
  BY Zenon DEF Queued
<1> QED BY <1>1, <1>2, Zenon

\* What a call that wakes does, as far as the items and their waiters go.
Effect(woken) ==
  /\ woken \subseteq {w \in Waiters : Queued(w) /\ ~hasWoken[w]}
  /\ Wake(woken)
  /\ Once'
  /\ \A x : Queued(x)' <=> Queued(x) /\ x \notin woken
  /\ StaysHome(load) => \A b \in Buckets : Wakers(items'[b]) \subseteq Wakers(items[b])
  /\ UNCHANGED <<waitVars, signalVars>>

\* futex_wake_bitset.
LEMMA WakeKeeps ==
  ASSUME load \in Loads, Once, NEW k \in Callers, NEW c \in AllCalls, futex_wake_bitset(k, c)
  PROVE  \E woken : Effect(woken)
<1> DEFINE b == Hash[c.addr1]
           woken == WakenIn(items[b], [addr |-> c.addr1, bitset |-> c.bitset], c.max1)
<1>1. c.addr1 \in Addrs
  BY CallTypes, Zenon
<1>2. b \in Buckets /\ items[b] \in Seq(Item) /\ DOMAIN items = Buckets
  BY <1>1, Zenon DEF Buckets, Once, Tidy
<1>3. /\ items' = [items EXCEPT ![b] = Without(@, woken)]
      /\ Wake(woken) /\ UNCHANGED <<waitVars, signalVars>>
  BY Zenon DEF futex_wake_bitset
<1> HIDE DEF b
<1>4. woken \subseteq {w \in Waiters : w \in Wakers(items[b]) /\ ~hasWoken[w]}
  BY <1>2, WakenFrom, Zenon
<1> HIDE DEF woken
<1>5. woken \subseteq {w \in Waiters : Queued(w) /\ ~hasWoken[w]}
  BY <1>2, <1>4, Zenon DEF Queued
<1>6. ASSUME NEW d \in Buckets
      PROVE  Tidy(items'[d], d) /\ Wakers(items'[d]) = Wakers(items[d]) \ woken
  <2>0. Tidy(items[d], d)
    BY Zenon DEF Once
  <2>1. CASE d = b
    <3>1. items'[d] = Without(items[d], woken)
      BY <1>2, <1>3, <2>1, Zenon
    <3>2. Tidy(Without(items[d], woken), d)
      BY <2>0, WithoutTidy, Zenon
    <3>3. Wakers(Without(items[d], woken)) = Wakers(items[d]) \ woken
      BY <2>0, WithoutTidy, Zenon
    <3> QED BY <3>1, <3>2, <3>3, Zenon
  <2>2. CASE d # b
    <3>1. items'[d] = items[d]
      BY <1>2, <1>3, <2>2, Zenon
    <3>2. Wakers(items[b]) \cap Wakers(items[d]) \subseteq {Dead}
      BY <1>2, <2>2, Zenon DEF Once
    <3>3. Dead \notin woken
      BY <1>4, FutexAssumption, Zenon
    <3>4. Wakers(items[d]) = Wakers(items[d]) \ woken
      BY <1>4, <3>2, <3>3, Zenon
    <3> QED BY <2>0, <3>1, <3>4, Zenon
  <2> QED BY <2>1, <2>2
<1>7. items' = [d \in Buckets |-> items'[d]]
  BY <1>2, <1>3, Zenon
<1>8. /\ Once'
      /\ \A x : Queued(x)' <=> Queued(x) /\ x \notin woken
      /\ \A d \in Buckets : Wakers(items'[d]) \subseteq Wakers(items[d])
  BY <1>6, <1>7, Leaves, Zenon
<1> QED BY <1>3, <1>5, <1>8, Zenon DEF Effect

\* futex_wake_op.
LEMMA WakeOpKeeps ==
  ASSUME load \in Loads, Once, NEW k \in Callers, NEW c \in AllCalls, futex_wake_op(k, c)
  PROVE  \E woken : Effect(woken)
<1> DEFINE b1 == Hash[c.addr1]
           b2 == Hash[c.addr2]
           woken1 == WakenIn(items[b1], [addr |-> c.addr1, bitset |-> Bits], c.max1)
           woken2 == IF should_wake(c.wakeOp, word[c.addr2])
                     THEN WakenIn(Without(items[b2], woken1), [addr |-> c.addr2, bitset |-> Bits],
                                  c.max2)
                     ELSE {}
           woken == woken1 \cup woken2
<1>1. c.addr1 \in Addrs /\ c.addr2 \in Addrs
  BY CallTypes, Zenon
<1>2. b1 \in Buckets /\ b2 \in Buckets /\ items[b1] \in Seq(Item) /\ Tidy(items[b2], b2)
  BY <1>1, Zenon DEF Buckets, Once, Tidy
<1>3. /\ items' = [b \in Buckets |-> Without(items[b], woken)]
      /\ Wake(woken) /\ UNCHANGED <<waitVars, signalVars>>
  BY Zenon DEF futex_wake_op
<1> HIDE DEF b1, b2
<1>4. woken1 \subseteq {w \in Waiters : Queued(w) /\ ~hasWoken[w]}
  <2>1. woken1 \subseteq {w \in Waiters : w \in Wakers(items[b1]) /\ ~hasWoken[w]}
    BY <1>2, WakenFrom, Zenon
  <2> HIDE DEF woken1
  <2> QED BY <1>2, <2>1, Zenon DEF Queued
<1> HIDE DEF woken1
<1>5. woken2 \subseteq {w \in Waiters : Queued(w) /\ ~hasWoken[w]}
  <2>1. /\ Without(items[b2], woken1) \in Seq(Item)
        /\ Wakers(Without(items[b2], woken1)) = Wakers(items[b2]) \ woken1
    <3>1. Tidy(Without(items[b2], woken1), b2)
      BY <1>2, WithoutTidy, Zenon
    <3>2. Wakers(Without(items[b2], woken1)) = Wakers(items[b2]) \ woken1
      BY <1>2, WithoutTidy, Zenon
    <3> QED BY <3>1, <3>2, Zenon DEF Tidy
  <2>2. woken2 \subseteq {w \in Waiters : w \in Wakers(items[b2]) /\ ~hasWoken[w]}
    BY <2>1, WakenFrom, Zenon
  <2> HIDE DEF woken2
  <2> QED BY <1>2, <2>2, Zenon DEF Queued
<1> HIDE DEF woken2
<1>6. woken \subseteq {w \in Waiters : Queued(w) /\ ~hasWoken[w]}
  BY <1>4, <1>5, Zenon
<1> HIDE DEF woken
<1>7. ASSUME NEW b \in Buckets
      PROVE  Tidy(items'[b], b) /\ Wakers(items'[b]) = Wakers(items[b]) \ woken
  <2>1. items'[b] = Without(items[b], woken) /\ Tidy(items[b], b)
    BY <1>3, Zenon DEF Once
  <2>2. Tidy(Without(items[b], woken), b)
    BY <2>1, WithoutTidy, Zenon
  <2>3. Wakers(Without(items[b], woken)) = Wakers(items[b]) \ woken
    BY <2>1, WithoutTidy, Zenon
  <2> QED BY <2>1, <2>2, <2>3, Zenon
<1>8. items' = [b \in Buckets |-> items'[b]]
  BY <1>3, Zenon
<1>9. /\ Once'
      /\ \A x : Queued(x)' <=> Queued(x) /\ x \notin woken
      /\ \A b \in Buckets : Wakers(items'[b]) \subseteq Wakers(items[b])
  BY <1>7, <1>8, Leaves, Zenon
<1> QED BY <1>3, <1>6, <1>9, Zenon DEF Effect

\* A bucket stays tidy when keys are changed to another address of the bucket.
LEMMA UpdateTidy ==
  ASSUME NEW s, NEW b, NEW key, NEW new \in Key, NEW max, Tidy(s, b), Hash[new.addr] = b,
         new.bitset # {} \/ \A k : ~match_up(k, key)
  PROVE  /\ Tidy(update_item_keys(s, key, new, max), b)
         /\ Wakers(update_item_keys(s, key, new, max)) = Wakers(s)
<1> DEFINE t == update_item_keys(s, key, new, max)
<1>1. s \in Seq(Item) /\ Simple(s) /\ \A e \in Entries(s) : Hash[e.key.addr] = b /\ e.key.bitset # {}
  BY Zenon DEF Tidy
<1>2. /\ t \in Seq(Item) /\ DOMAIN t = DOMAIN s
      /\ \A i \in DOMAIN s : t[i] = s[i] \/ (t[i].key = new /\ match_up(s[i].key, key))
      /\ Wakers(t) = Wakers(s)
      /\ Simple(s) => Simple(t)
  BY <1>1, UpdateKeeps
<1> HIDE DEF t
<1>3. ASSUME NEW i \in DOMAIN s PROVE Hash[t[i].key.addr] = b /\ t[i].key.bitset # {}
  <2>1. s[i] \in Entries(s)
    BY Zenon DEF Entries
  <2> QED BY <1>1, <1>2, <2>1, Zenon
<1>4. \A e \in Entries(t) : Hash[e.key.addr] = b /\ e.key.bitset # {}
  BY <1>2, <1>3, Zenon DEF Entries
<1> QED BY <1>1, <1>2, <1>4, Zenon DEF Tidy, t

\* Some items of a tidy bucket stay and the others leave for another bucket.
LEMMA SplitTidy ==
  ASSUME NEW s, NEW b, Tidy(s, b), NEW P \in SUBSET DOMAIN s, NEW new \in Key,
         P # {} => new.bitset # {}
  PROVE  LET rest == Pick(s, DOMAIN s \ P)
             moved == withKey(s, P, new)
         IN /\ Tidy(rest, b) /\ Tidy(moved, Hash[new.addr])
            /\ Wakers(rest) \cup Wakers(moved) = Wakers(s)
            /\ Wakers(rest) \cap Wakers(moved) \subseteq {Dead}
<1> DEFINE R == DOMAIN s \ P
           rest == Pick(s, R)
           moved == withKey(s, P, new)
<1>1. s \in Seq(Item) /\ Simple(s) /\ \A e \in Entries(s) : Hash[e.key.addr] = b /\ e.key.bitset # {}
  BY Zenon DEF Tidy
<1>2. R \in SUBSET DOMAIN s /\ R \cup P = DOMAIN s /\ \A i \in R : i \notin P
  BY Zenon
<1> HIDE DEF R
<1>3. rest \in Seq(Item) /\ Entries(rest) = {s[i] : i \in R} /\ (Simple(s) => Simple(rest))
  BY <1>1, <1>2, PickKeeps, Zenon
<1>4. /\ moved \in Seq(Item) /\ (\A e \in Entries(moved) : e.key = new)
      /\ Wakers(moved) = {s[i].waker : i \in P} /\ (Simple(s) => Simple(moved))
  <2>1. moved \in Seq(Item) /\ (Simple(s) => Simple(moved))
    BY <1>1, WithKeyKeeps, Zenon
  <2>2. Wakers(moved) = {s[i].waker : i \in P}
    BY <1>1, WithKeyKeeps, Zenon
  <2>3. \A e \in Entries(moved) : e.key = new
    BY <1>1, WithKeyKeeps, Zenon
  <2> QED BY <2>1, <2>2, <2>3, Zenon
<1> HIDE DEF rest, moved
<1>5. Tidy(rest, b)
  BY <1>1, <1>2, <1>3, Zenon DEF Tidy, Entries
<1>6. Wakers(rest) = {s[i].waker : i \in R}
  BY <1>3, Zenon DEF Wakers
<1>7. Tidy(moved, Hash[new.addr])
  <2>1. ASSUME NEW e \in Entries(moved) PROVE new.bitset # {}
    <3>1. e.waker \in Wakers(moved)
      BY Zenon DEF Wakers
    <3> QED BY <1>4, <3>1, Zenon
  <2> QED BY <1>1, <1>4, <2>1, Zenon DEF Tidy
<1>8. Wakers(rest) \cup Wakers(moved) = Wakers(s)
  <2>1. Wakers(s) = {s[i].waker : i \in DOMAIN s}
    BY WakersAre, Zenon
  <2>2. Wakers(s) \subseteq Wakers(rest) \cup Wakers(moved)
    BY <1>2, <1>4, <1>6, <2>1, Zenon
  <2>3. Wakers(rest) \subseteq Wakers(s)
    BY <1>2, <1>6, <2>1, Zenon
  <2>4. Wakers(moved) \subseteq Wakers(s)
    BY <1>4, <2>1, Zenon
  <2> QED BY <2>2, <2>3, <2>4, Zenon
<1>9. Wakers(rest) \cap Wakers(moved) \subseteq {Dead}
  <2>1. ASSUME NEW i \in R, NEW j \in P, s[i].waker = s[j].waker PROVE s[i].waker = Dead
    <3>1. i \in DOMAIN s /\ j \in DOMAIN s /\ i # j
      BY <1>2, Zenon
    <3> QED BY <1>1, <2>1, <3>1, Zenon DEF Simple
  <2> QED BY <1>4, <1>6, <2>1, Zenon
<1> QED BY <1>5, <1>7, <1>8, <1>9, Zenon DEF R, rest, moved

\* Tidy buckets that share no waiter can be joined.
LEMMA ConcatTidy ==
  ASSUME NEW s, NEW u, NEW b, Tidy(s, b), Tidy(u, b), Wakers(s) \cap Wakers(u) \subseteq {Dead}
  PROVE  Tidy(s \o u, b) /\ Wakers(s \o u) = Wakers(s) \cup Wakers(u)
<1>1. s \in Seq(Item) /\ u \in Seq(Item)
  BY Zenon DEF Tidy
<1>2. /\ s \o u \in Seq(Item)
      /\ Entries(s \o u) = Entries(s) \cup Entries(u)
      /\ Wakers(s \o u) = Wakers(s) \cup Wakers(u)
      /\ Simple(s) /\ Simple(u) /\ Wakers(s) \cap Wakers(u) \subseteq {Dead} => Simple(s \o u)
  BY <1>1, ConcatKeeps, Zenon
<1>3. Simple(s \o u)
  BY <1>2, Zenon DEF Tidy
<1>4. ASSUME NEW e \in Entries(s \o u) PROVE Hash[e.key.addr] = b /\ e.key.bitset # {}
  BY <1>2, Zenon DEF Tidy
<1> QED BY <1>2, <1>3, <1>4, Zenon DEF Tidy

\* futex_requeue inside a bucket.
LEMMA RequeueHomeKeeps ==
  ASSUME load \in Loads, Once, NEW k \in Callers, NEW c \in AllCalls, futex_requeue(k, c),
         Hash[c.addr1] = Hash[c.addr2]
  PROVE  \E woken : Effect(woken)
<1> DEFINE b == Hash[c.addr1]
           key == [addr |-> c.addr1, bitset |-> Bits]
           new == [addr |-> c.addr2, bitset |-> Bits]
           woken == WakenIn(items[b], key, c.max1)
           left == Without(items[b], woken)
           last == update_item_keys(left, key, new, c.max2)
<1>1. c.addr1 \in Addrs /\ c.addr2 \in Addrs
  BY CallTypes, Zenon
<1>2. b \in Buckets /\ items[b] \in Seq(Item) /\ Tidy(items[b], b) /\ DOMAIN items = Buckets
  BY <1>1, Zenon DEF Buckets, Once, Tidy
<1>3. items' = [items EXCEPT ![b] = last] /\ Wake(woken) /\ UNCHANGED <<waitVars, signalVars>>
  BY Zenon DEF futex_requeue
<1>4. new \in Key /\ new.addr = c.addr2 /\ new.bitset = Bits /\ key.bitset = Bits
  BY <1>1, SMT DEF Key
<1>5. new.bitset # {} \/ \A j : ~match_up(j, key)
  <2> HIDE DEF key, new
  <2> QED BY <1>4, Zenon DEF match_up
<1>6. Hash[new.addr] = b
  BY <1>4, Zenon
<1> HIDE DEF b, key, new
<1>7. woken \subseteq {w \in Waiters : w \in Wakers(items[b]) /\ ~hasWoken[w]}
  BY <1>2, WakenFrom, Zenon
<1> HIDE DEF woken
<1>8. woken \subseteq {w \in Waiters : Queued(w) /\ ~hasWoken[w]}
  BY <1>2, <1>7, Zenon DEF Queued
<1>9. Tidy(left, b)
  BY <1>2, WithoutTidy, Zenon
<1>10. Wakers(left) = Wakers(items[b]) \ woken
  BY <1>2, WithoutTidy, Zenon
<1> HIDE DEF left
<1>11. Tidy(last, b)
  BY <1>4, <1>5, <1>6, <1>9, UpdateTidy, Zenon
<1>12. Wakers(last) = Wakers(left)
  <2>1. left \in Seq(Item)
    BY <1>9, Zenon DEF Tidy
  <2>2. new \in Key
    BY <1>4, Zenon
  <2> QED BY <2>1, <2>2, UpdateKeeps, SMT
<1> HIDE DEF last
<1>13. ASSUME NEW d \in Buckets
       PROVE  Tidy(items'[d], d) /\ Wakers(items'[d]) = Wakers(items[d]) \ woken
  <2>1. CASE d = b
    <3>1. items'[d] = last
      BY <1>2, <1>3, <2>1, Zenon
    <3> QED BY <1>10, <1>11, <1>12, <2>1, <3>1, Zenon
  <2>2. CASE d # b
    <3>1. items'[d] = items[d]
      BY <1>2, <1>3, <2>2, Zenon
    <3>2. Wakers(items[b]) \cap Wakers(items[d]) \subseteq {Dead}
      BY <1>2, <2>2, Zenon DEF Once
    <3>3. Dead \notin woken
      BY <1>7, FutexAssumption, Zenon
    <3>4. Wakers(items[d]) = Wakers(items[d]) \ woken
      BY <1>7, <3>2, <3>3, Zenon
    <3> QED BY <3>1, <3>4, Zenon DEF Once
  <2> QED BY <2>1, <2>2
<1>14. items' = [d \in Buckets |-> items'[d]]
  BY <1>2, <1>3, Zenon
<1>15. /\ Once'
       /\ \A x : Queued(x)' <=> Queued(x) /\ x \notin woken
       /\ \A d \in Buckets : Wakers(items'[d]) \subseteq Wakers(items[d])
  BY <1>13, <1>14, Leaves, Zenon
<1> QED BY <1>3, <1>8, <1>15, Zenon DEF Effect

\* futex_requeue between two buckets.
LEMMA RequeueAwayKeeps ==
  ASSUME load \in Loads, Once, NEW k \in Callers, NEW c \in AllCalls, futex_requeue(k, c),
         Hash[c.addr1] # Hash[c.addr2]
  PROVE  \E woken : Effect(woken)
<1> DEFINE b1 == Hash[c.addr1]
           b2 == Hash[c.addr2]
           key == [addr |-> c.addr1, bitset |-> Bits]
           new == [addr |-> c.addr2, bitset |-> Bits]
           woken == WakenIn(items[b1], key, c.max1)
           left == Without(items[b1], woken)
           out == requeued(left, key, c.max2)
           rest == Pick(left, DOMAIN left \ out)
           moved == withKey(left, out, new)
           last == items[b2] \o moved
<1>1. c.addr1 \in Addrs /\ c.addr2 \in Addrs
  BY CallTypes, Zenon
<1>2. /\ b1 \in Buckets /\ b2 \in Buckets /\ b1 # b2 /\ DOMAIN items = Buckets
      /\ items[b1] \in Seq(Item) /\ Tidy(items[b1], b1) /\ Tidy(items[b2], b2)
  BY <1>1, Zenon DEF Buckets, Once, Tidy
<1>3. /\ items' = [items EXCEPT ![b1] = rest, ![b2] = @ \o moved]
      /\ Wake(woken) /\ UNCHANGED <<waitVars, signalVars>>
  BY Zenon DEF futex_requeue
<1>4. new \in Key /\ new.addr = c.addr2 /\ new.bitset = Bits /\ key.bitset = Bits
  BY <1>1, SMT DEF Key
<1>5. Hash[new.addr] = b2
  BY <1>4, Zenon
<1>6. ~StaysHome(load)
  <2>1. c.op = "requeue"
    BY Zenon DEF futex_requeue
  <2>2. \A a : WakeAll(a).op = "wake"
    BY SMT DEF WakeAll
  <2>3. c \in Calls
    BY <2>1, <2>2, SMT DEF AllCalls
  <2> QED BY <2>1, <2>3, Zenon DEF StaysHome, Calls
<1>7. out \in SUBSET DOMAIN left /\ \A i \in out : match_up(left[i].key, key)
  BY Zenon DEF requeued, FirstN
<1> HIDE DEF b1, b2, key, new, out
<1>8. out # {} => new.bitset # {}
  BY <1>4, <1>7, Zenon DEF match_up
<1>9. woken \subseteq {w \in Waiters : w \in Wakers(items[b1]) /\ ~hasWoken[w]}
  BY <1>2, WakenFrom, Zenon
<1> HIDE DEF woken
<1>10. woken \subseteq {w \in Waiters : Queued(w) /\ ~hasWoken[w]}
  BY <1>2, <1>9, Zenon DEF Queued
<1>11. Tidy(left, b1)
  BY <1>2, WithoutTidy, Zenon
<1>12. Wakers(left) = Wakers(items[b1]) \ woken
  BY <1>2, WithoutTidy, Zenon
<1> HIDE DEF left
<1>13. Tidy(rest, b1)
  BY <1>4, <1>7, <1>8, <1>11, SplitTidy, Zenon
<1>14. Tidy(moved, b2)
  <2>1. Tidy(moved, Hash[new.addr])
    BY <1>4, <1>7, <1>8, <1>11, SplitTidy, Zenon
  <2> HIDE DEF moved
  <2> QED BY <1>5, <2>1, Zenon
<1>15. Wakers(rest) \cup Wakers(moved) = Wakers(left)
  BY <1>4, <1>7, <1>8, <1>11, SplitTidy, Zenon
<1>16. Wakers(rest) \cap Wakers(moved) \subseteq {Dead}
  BY <1>4, <1>7, <1>8, <1>11, SplitTidy, Zenon
<1> HIDE DEF rest, moved
<1>17. Wakers(items[b2]) \cap Wakers(moved) \subseteq {Dead}
  <2>1. Wakers(items[b2]) \cap Wakers(items[b1]) \subseteq {Dead}
    BY <1>2, Zenon DEF Once
  <2>2. Wakers(moved) \subseteq Wakers(items[b1])
    BY <1>12, <1>15, Zenon
  <2> QED BY <2>1, <2>2, Zenon
<1>18. Tidy(last, b2)
  BY <1>2, <1>14, <1>17, ConcatTidy, Zenon
<1>19. Wakers(last) = Wakers(items[b2]) \cup Wakers(moved)
  BY <1>2, <1>14, <1>17, ConcatTidy, Zenon
<1>20. items'[b1] = rest /\ items'[b2] = last
  BY <1>2, <1>3, Zenon
<1>21. \A d \in Buckets : d # b1 /\ d # b2 => items'[d] = items[d]
  BY <1>2, <1>3, Zenon
<1>22. items' = [d \in Buckets |-> items'[d]]
  BY <1>2, <1>3, Zenon
<1> HIDE DEF last
<1>23. ASSUME NEW d \in Buckets PROVE Tidy(items'[d], d)
  BY <1>13, <1>18, <1>20, <1>21, Zenon DEF Once
<1>24. ASSUME NEW d \in Buckets, d # b1, d # b2
       PROVE  /\ Wakers(items'[d]) \cap Wakers(rest) \subseteq {Dead}
              /\ Wakers(items'[d]) \cap Wakers(last) \subseteq {Dead}
  <2>1. items'[d] = items[d]
    BY <1>21, <1>24, Zenon
  <2>2. /\ Wakers(items[d]) \cap Wakers(items[b1]) \subseteq {Dead}
        /\ Wakers(items[d]) \cap Wakers(items[b2]) \subseteq {Dead}
    BY <1>2, <1>24, Zenon DEF Once
  <2>3. Wakers(rest) \subseteq Wakers(items[b1]) /\ Wakers(moved) \subseteq Wakers(items[b1])
    BY <1>12, <1>15, Zenon
  <2> QED BY <1>19, <2>1, <2>2, <2>3, Zenon
<1>25. Wakers(rest) \cap Wakers(last) \subseteq {Dead}
  <2>1. Wakers(items[b2]) \cap Wakers(items[b1]) \subseteq {Dead}
    BY <1>2, Zenon DEF Once
  <2>2. Wakers(rest) \subseteq Wakers(items[b1])
    BY <1>12, <1>15, Zenon
  <2> QED BY <1>16, <1>19, <2>1, <2>2, Zenon
<1>26. ASSUME NEW d \in Buckets, NEW e \in Buckets, d # e
       PROVE  Wakers(items'[d]) \cap Wakers(items'[e]) \subseteq {Dead}
  <2>1. CASE d = b1
    BY <1>20, <1>24, <1>25, <1>26, <2>1, Zenon
  <2>2. CASE d = b2
    BY <1>20, <1>24, <1>25, <1>26, <2>2, Zenon
  <2>3. CASE d # b1 /\ d # b2 /\ e \in {b1, b2}
    BY <1>20, <1>24, <2>3, Zenon
  <2>4. CASE d # b1 /\ d # b2 /\ e # b1 /\ e # b2
    BY <1>21, <1>26, <2>4, Zenon DEF Once
  <2> QED BY <2>1, <2>2, <2>3, <2>4, Zenon
<1>27. Once'
  BY <1>22, <1>23, <1>26, Zenon DEF Once
<1>28. ASSUME NEW x PROVE Queued(x)' <=> Queued(x) /\ x \notin woken
  <2>0. Dead \notin woken /\ woken \subseteq Wakers(items[b1])
    BY <1>9, FutexAssumption, Zenon
  <2>1. ASSUME Queued(x)' PROVE Queued(x) /\ x \notin woken
    <3>1. PICK d \in Buckets : x \in Wakers(items'[d])
      BY <2>1, Zenon DEF Queued
    <3>2. CASE d = b1
      BY <1>2, <1>12, <1>15, <1>20, <3>1, <3>2, Zenon DEF Queued
    <3>3. ASSUME NEW e \in Buckets, e # b1, x \in Wakers(items[e]) PROVE Queued(x) /\ x \notin woken
      <4>1. Wakers(items[e]) \cap Wakers(items[b1]) \subseteq {Dead}
        BY <1>2, <3>3, Zenon DEF Once
      <4> QED BY <2>0, <3>3, <4>1, Zenon DEF Queued
    <3>4. CASE d = b2
      <4>1. x \in Wakers(items[b2]) \/ x \in Wakers(moved)
        BY <1>19, <1>20, <3>1, <3>4, Zenon
      <4>2. CASE x \in Wakers(moved)
        BY <1>2, <1>12, <1>15, <4>2, Zenon DEF Queued
      <4> QED BY <1>2, <3>3, <4>1, <4>2, Zenon
    <3>5. CASE d # b1 /\ d # b2
      BY <1>21, <3>1, <3>3, <3>5, Zenon
    <3> QED BY <3>2, <3>4, <3>5, Zenon
  <2>2. ASSUME Queued(x), x \notin woken PROVE Queued(x)'
    <3>1. PICK d \in Buckets : x \in Wakers(items[d])
      BY <2>2, Zenon DEF Queued
    <3>2. CASE d = b1
      <4>1. x \in Wakers(rest) \/ x \in Wakers(moved)
        BY <1>12, <1>15, <2>2, <3>1, <3>2, Zenon
      <4>2. x \in Wakers(items'[b1]) \/ x \in Wakers(items'[b2])
        BY <1>19, <1>20, <4>1, Zenon
      <4> QED BY <1>2, <4>2, Zenon DEF Queued
    <3>3. CASE d = b2
      <4>1. x \in Wakers(items'[b2])
        BY <1>19, <1>20, <3>1, <3>3, Zenon
      <4> QED BY <1>2, <4>1, Zenon DEF Queued
    <3>4. CASE d # b1 /\ d # b2
      <4>1. x \in Wakers(items'[d])
        BY <1>21, <3>1, <3>4, Zenon
      <4> QED BY <4>1, Zenon DEF Queued
    <3> QED BY <3>2, <3>3, <3>4, Zenon
  <2> QED BY <2>1, <2>2, Zenon
<1> QED BY <1>3, <1>6, <1>10, <1>27, <1>28, Zenon DEF Effect

\* The three calls.
LEMMA RunKeeps ==
  ASSUME load \in Loads, Once, NEW k \in Callers, NEW c \in AllCalls, Run(k, c)
  PROVE  \E woken : Effect(woken)
<1>1. CASE futex_wake_bitset(k, c)
  BY <1>1, WakeKeeps, Zenon
<1>2. CASE futex_requeue(k, c)
  BY <1>2, RequeueHomeKeeps, RequeueAwayKeeps, Zenon
<1>3. CASE futex_wake_op(k, c)
  BY <1>3, WakeOpKeeps, Zenon
<1> QED BY <1>1, <1>2, <1>3, Zenon DEF Run

\* futex_wait_bitset: w comes into the bucket of its address.
LEMMA WaitKeeps ==
  ASSUME Once, NEW w \in Waiters, ~Queued(w), NEW a \in Addrs, NEW v, NEW bitset \in SUBSET Bits,
         bitset # {}, futex_wait_bitset(w, a, v, bitset)
  PROVE  /\ Once'
         /\ \A x : Queued(x)' <=> Queued(x) \/ x = w
         /\ \A b \in Buckets : Wakers(items'[b]) =
              Wakers(items[b]) \cup (IF b = Hash[a] THEN {w} ELSE {})
<1> DEFINE it == [key |-> [addr |-> a, bitset |-> bitset], waker |-> w]
           b == Hash[a]
           last == Append(items[b], it)
<1>1. it \in Item /\ it.key.addr = a /\ it.key.bitset = bitset /\ it.waker = w
  BY SMT DEF Item, Key
<1>2. b \in Buckets /\ DOMAIN items = Buckets /\ Tidy(items[b], b) /\ items[b] \in Seq(Item)
  BY Zenon DEF Buckets, Once, Tidy
<1>3. items' = [items EXCEPT ![b] = last]
  BY Zenon DEF futex_wait_bitset
<1>4. it.waker \notin Wakers(items[b])
  BY <1>1, <1>2, Zenon DEF Queued
<1> HIDE DEF it, b
<1>5. /\ last \in Seq(Item) /\ Entries(last) = Entries(items[b]) \cup {it}
      /\ Simple(items[b]) /\ it.waker \notin Wakers(items[b]) => Simple(last)
  BY <1>1, <1>2, AppendKeeps, Zenon
<1>6. Wakers(last) = Wakers(items[b]) \cup {w}
  <2>1. Wakers(last) = Wakers(items[b]) \cup {it.waker}
    BY <1>1, <1>2, AppendKeeps, Zenon
  <2> HIDE DEF last
  <2> QED BY <1>1, <2>1, Zenon
<1>7. Tidy(last, b)
  <2>1. ASSUME NEW e \in Entries(last) PROVE Hash[e.key.addr] = b /\ e.key.bitset # {}
    BY <1>1, <1>2, <1>5, Zenon DEF Tidy, b
  <2> QED BY <1>2, <1>4, <1>5, <2>1, Zenon DEF Tidy
<1>8. items'[b] = last /\ \A d \in Buckets : d # b => items'[d] = items[d]
  BY <1>2, <1>3, Zenon
<1>9. items' = [d \in Buckets |-> items'[d]]
  BY <1>2, <1>3, Zenon
<1> HIDE DEF last
<1>10. ASSUME NEW d \in Buckets PROVE Tidy(items'[d], d)
  BY <1>7, <1>8, Zenon DEF Once
<1>11. ASSUME NEW d \in Buckets
       PROVE  Wakers(items'[d]) = Wakers(items[d]) \cup (IF d = b THEN {w} ELSE {})
  BY <1>6, <1>8, Zenon
<1>12. ASSUME NEW d \in Buckets, NEW e \in Buckets, d # e
       PROVE  Wakers(items'[d]) \cap Wakers(items'[e]) \subseteq {Dead}
  <2>1. Wakers(items[d]) \cap Wakers(items[e]) \subseteq {Dead}
    BY <1>12, Zenon DEF Once
  <2>2. w \notin Wakers(items[d]) /\ w \notin Wakers(items[e])
    BY Zenon DEF Queued
  <2> QED BY <1>11, <1>12, <2>1, <2>2, Zenon
<1>13. Once'
  BY <1>9, <1>10, <1>12, Zenon DEF Once
<1>14. ASSUME NEW x PROVE Queued(x)' <=> Queued(x) \/ x = w
  BY <1>2, <1>11, Zenon DEF Queued
<1> QED BY <1>11, <1>13, <1>14, Zenon DEF b

\* The items of a dropped waiter keep their places.
LEMMA BuryTidy ==
  ASSUME NEW s, NEW b, Tidy(s, b), NEW w \in Waiters
  PROVE  /\ Tidy(Bury(s, w), b)
         /\ Wakers(Bury(s, w)) \ {Dead} = Wakers(s) \ {w, Dead}
         /\ w \notin Wakers(s) => Bury(s, w) = s
<1> DEFINE t == Bury(s, w)
<1>1. s \in Seq(Item) /\ Simple(s) /\ \A e \in Entries(s) : Hash[e.key.addr] = b /\ e.key.bitset # {}
  BY Zenon DEF Tidy
<1>2. /\ t \in Seq(Item) /\ DOMAIN t = DOMAIN s
      /\ \A i \in DOMAIN s : t[i].key = s[i].key
      /\ Wakers(t) \ {Dead} = Wakers(s) \ {w, Dead}
      /\ w \notin Wakers(s) => t = s
      /\ Simple(s) => Simple(t)
  BY <1>1, BuryKeeps, SMT
<1> HIDE DEF t
<1>3. ASSUME NEW i \in DOMAIN t PROVE Hash[t[i].key.addr] = b /\ t[i].key.bitset # {}
  <2>1. s[i] \in Entries(s) /\ t[i].key = s[i].key
    BY <1>2, Zenon DEF Entries
  <2> QED BY <1>1, <2>1, Zenon
<1>4. \A e \in Entries(t) : Hash[e.key.addr] = b /\ e.key.bitset # {}
  BY <1>3, Zenon DEF Entries
<1> QED BY <1>1, <1>2, <1>4, Zenon DEF Tidy, t

\* remove_by_waker, and the drop of the waiter.  When the item, if there is
\* still one, is where the wait began, none becomes dead.
LEMMA RemoveKeeps ==
  ASSUME Once, NEW w \in Waiters, expects[w][1] \in Addrs, remove_by_waker(w)
  PROVE  /\ Once'
         /\ \A x \in Waiters : Queued(x)' <=> Queued(x) /\ x # w
         /\ \A b \in Buckets : Wakers(items'[b]) \ {Dead} \subseteq Wakers(items[b])
         /\ (Queued(w) => HasItem(items[Hash[expects[w][1]]], w)) => (Queued(Dead)' => Queued(Dead))
<1> DEFINE b == Hash[expects[w][1]]
           rest == IF HasItem(items[b], w) THEN [items EXCEPT ![b] = swap_remove(items[b], w)]
                   ELSE items
<1>0. w # Dead
  BY FutexAssumption, Zenon
<1>1. b \in Buckets /\ DOMAIN items = Buckets /\ Tidy(items[b], b) /\ items[b] \in Seq(Item)
      /\ Simple(items[b])
  BY Zenon DEF Buckets, Once, Tidy
<1>2. items' = [d \in Buckets |-> Bury(rest[d], w)]
  <2>1. \E answer : Finish(w, answer, rest)
    BY Zenon DEF remove_by_waker
  <2> HIDE DEF rest
  <2> QED BY <2>1, Zenon DEF Finish, Bury
<1> HIDE DEF b
<1>3. HasItem(items[b], w) <=> w \in Wakers(items[b])
  BY WakersAre, Zenon DEF HasItem
<1>4. ASSUME HasItem(items[b], w)
      PROVE  /\ Tidy(swap_remove(items[b], w), b)
             /\ Wakers(swap_remove(items[b], w)) = Wakers(items[b]) \ {w}
  <2>1. /\ swap_remove(items[b], w) \in Seq(Item)
        /\ Entries(swap_remove(items[b], w)) \subseteq Entries(items[b])
        /\ Simple(swap_remove(items[b], w))
    BY <1>1, <1>4, SwapRemoveKeeps, Zenon
  <2>2. Wakers(swap_remove(items[b], w)) = Wakers(items[b]) \ {w}
    BY <1>0, <1>1, <1>4, SwapRemoveKeeps, Zenon
  <2> QED BY <1>1, <2>1, <2>2, Zenon DEF Tidy
<1>5. ASSUME NEW d \in Buckets
      PROVE  /\ Tidy(rest[d], d)
             /\ Wakers(rest[d]) = IF d = b THEN Wakers(items[d]) \ {w} ELSE Wakers(items[d])
  <2>0. Tidy(items[d], d)
    BY Zenon DEF Once
  <2>1. CASE HasItem(items[b], w) /\ d = b
    <3>1. rest[d] = swap_remove(items[b], w)
      BY <1>1, <2>1, Zenon
    <3> HIDE DEF rest
    <3> QED BY <1>4, <2>1, <3>1, Zenon
  <2>2. CASE ~(HasItem(items[b], w) /\ d = b)
    <3>1. rest[d] = items[d]
      BY <1>1, <2>2, Zenon
    <3>2. d = b => Wakers(items[d]) = Wakers(items[d]) \ {w}
      BY <1>3, <2>2, Zenon
    <3> HIDE DEF rest
    <3> QED BY <2>0, <3>1, <3>2, Zenon
  <2> QED BY <2>1, <2>2, Zenon
<1> HIDE DEF rest
<1>6. ASSUME NEW d \in Buckets
      PROVE  /\ Tidy(items'[d], d)
             /\ Wakers(items'[d]) \ {Dead} = Wakers(items[d]) \ {w, Dead}
             /\ w \notin Wakers(rest[d]) => Wakers(items'[d]) = Wakers(rest[d])
  <2>1. items'[d] = Bury(rest[d], w)
    BY <1>2, Zenon
  <2>2. Tidy(Bury(rest[d], w), d)
    BY <1>5, BuryTidy, Zenon
  <2>3. Wakers(Bury(rest[d], w)) \ {Dead} = Wakers(rest[d]) \ {w, Dead}
    BY <1>5, BuryTidy, Zenon
  <2>4. w \notin Wakers(rest[d]) => Bury(rest[d], w) = rest[d]
    BY <1>5, BuryTidy, Zenon
  <2>5. Wakers(rest[d]) \ {w, Dead} = Wakers(items[d]) \ {w, Dead}
    BY <1>5, Zenon
  <2> QED BY <2>1, <2>2, <2>3, <2>4, <2>5, Zenon
<1>7. ASSUME NEW d \in Buckets, NEW e \in Buckets, d # e
      PROVE  Wakers(items'[d]) \cap Wakers(items'[e]) \subseteq {Dead}
  <2>1. Wakers(items[d]) \cap Wakers(items[e]) \subseteq {Dead}
    BY <1>7, Zenon DEF Once
  <2>2. /\ Wakers(items'[d]) \ {Dead} \subseteq Wakers(items[d])
        /\ Wakers(items'[e]) \ {Dead} \subseteq Wakers(items[e])
    BY <1>6, Zenon
  <2> QED BY <2>1, <2>2, Zenon
<1>8. Once'
  <2>1. items' = [d \in Buckets |-> items'[d]]
    BY <1>2, Zenon
  <2> QED BY <1>6, <1>7, <2>1, Zenon DEF Once
<1>9. ASSUME NEW x \in Waiters PROVE Queued(x)' <=> Queued(x) /\ x # w
  <2>1. x # Dead
    BY FutexAssumption, Zenon
  <2>2. \A d \in Buckets : x \in Wakers(items'[d]) <=> x \in Wakers(items[d]) /\ x # w
    BY <1>6, <2>1, Zenon
  <2> QED BY <2>2, Zenon DEF Queued
<1>10. \A d \in Buckets : Wakers(items'[d]) \ {Dead} \subseteq Wakers(items[d])
  BY <1>6, Zenon
<1>11. ASSUME Queued(w) => HasItem(items[b], w), Queued(Dead)' PROVE Queued(Dead)
  <2>1. ASSUME NEW d \in Buckets PROVE w \notin Wakers(rest[d])
    <3>1. CASE d = b
      BY <1>5, <3>1, Zenon
    <3>2. CASE d # b
      <4>1. Wakers(rest[d]) = Wakers(items[d])
        BY <1>5, <3>2, Zenon
      <4>2. w \in Wakers(items[d]) => w \in Wakers(items[b])
        BY <1>3, <1>11, Zenon DEF Queued
      <4>3. Wakers(items[d]) \cap Wakers(items[b]) \subseteq {Dead}
        BY <1>1, <3>2, Zenon DEF Once
      <4> QED BY <1>0, <4>1, <4>2, <4>3, Zenon
    <3> QED BY <3>1, <3>2
  <2>2. PICK d \in Buckets : Dead \in Wakers(items'[d])
    BY <1>11, Zenon DEF Queued
  <2>3. Dead \in Wakers(rest[d])
    BY <1>6, <2>1, <2>2, Zenon
  <2>4. Dead \in Wakers(items[d])
    BY <1>5, <2>3, Zenon
  <2> QED BY <2>4, Zenon DEF Queued
<1> QED BY <1>8, <1>9, <1>10, <1>11, Zenon DEF b

-----------------------------------------------------------------------------
(* The steps *)

\* The calls that can be made stay the same.
LEMMA SameCalls ==
  ASSUME UNCHANGED load
  PROVE  AllCalls' = AllCalls /\ Interruptible' = Interruptible
BY Zenon DEF AllCalls, Calls, Stores, Interruptible

\* A step that only moves a waiter on in its pause, or its timer or a signal.
LEMMA QuietStep ==
  ASSUME IInv, UNCHANGED <<load, word, items, lock, returned, expects, call, counted>>,
         hasWoken' \in [Waiters -> BOOLEAN],
         pc' \in [Waiters -> {"run", "pause", "check", "sleep", "woken", "remove"}],
         timer' \in [Waiters -> {"none", "armed", "expired", "fired"}],
         pending' \in [Waiters -> BOOLEAN], waking' \in [Waiters -> BOOLEAN],
         result' \in [Waiters -> {"ok", "ETIME", "EINTR"}],
         \A w \in Waiters : pc'[w] = "run" <=> pc[w] = "run",
         Calm'
  PROVE  IInv'
<1>1. AllCalls' = AllCalls
  BY SameCalls, Zenon
<1>2. TypeOK'
  BY <1>1, Zenon DEF IInv, TypeOK
<1>3. Once' /\ \A x : Queued(x)' <=> Queued(x)
  BY Zenon DEF IInv, Once, Queued
<1>4. Settled'
  BY <1>3, Zenon DEF IInv, Settled
<1>5. Held' /\ PlainWakes'
  BY <1>1, Zenon DEF IInv, Held, PlainWakes
<1>6. AtHome' /\ Clean'
  BY <1>3, Zenon DEF IInv, AtHome, Clean
<1> QED BY <1>2, <1>3, <1>4, <1>5, <1>6, Zenon DEF IInv

\* Calm in terms of the step of one waiter.
LEMMA CalmStep ==
  ASSUME TypeOK, Calm, UNCHANGED <<load, counted>>, NEW u \in Waiters,
         \A w \in Waiters \ {u} :
           /\ timer'[w] = timer[w] /\ pending'[w] = pending[w] /\ waking'[w] = waking[w]
           /\ pc'[w] = pc[w] /\ hasWoken'[w] = hasWoken[w],
         Steady(load) =>
           /\ timer'[u] = "none" /\ ~pending'[u] /\ ~waking'[u]
           /\ pc'[u] # "run" /\ (hasWoken'[u] \/ pc'[u] \in {"woken", "remove"}) => counted[u] = 1
  PROVE  Calm'
<1> SUFFICES ASSUME Steady(load), NEW w \in Waiters
             PROVE  /\ timer'[w] = "none" /\ ~pending'[w] /\ ~waking'[w]
                    /\ pc'[w] # "run" /\ (hasWoken'[w] \/ pc'[w] \in {"woken", "remove"})
                       => counted[w] = 1
  BY Zenon DEF Calm
<1>1. CASE w = u
  BY <1>1, Zenon
<1>2. CASE w # u
  BY <1>2, Zenon DEF Calm
<1> QED BY <1>1, <1>2

\* The types of the variables that a pause changes.
LEMMA PauseTypes ==
  ASSUME IInv
  PROVE  /\ TypeOK /\ Calm
         /\ pc \in [Waiters -> {"run", "pause", "check", "sleep", "woken", "remove"}]
         /\ timer \in [Waiters -> {"none", "armed", "expired", "fired"}]
         /\ result \in [Waiters -> {"ok", "ETIME", "EINTR"}]
         /\ hasWoken \in [Waiters -> BOOLEAN]
         /\ pending \in [Waiters -> BOOLEAN] /\ waking \in [Waiters -> BOOLEAN]
BY Zenon DEF IInv, TypeOK

\* pause_timeout.
LEMMA PauseStep ==
  ASSUME IInv, UNCHANGED load, NEW u \in Waiters, pause_timeout(u)
  PROVE  IInv'
<1>1. /\ UNCHANGED <<word, items, lock, hasWoken, returned, expects, pending, waking, call, counted>>
      /\ pc[u] = "pause"
  BY Zenon DEF pause_timeout, signalVars, At
<1>2. \/ u \in Interruptible /\ pc' = [pc EXCEPT ![u] = "remove"] /\ timer' = timer
         /\ result' = [result EXCEPT ![u] = "ETIME"]
      \/ u \in Interruptible /\ pc' = [pc EXCEPT ![u] = "check"] /\ result' = result
         /\ timer' = [timer EXCEPT ![u] = "armed"]
      \/ pc' = [pc EXCEPT ![u] = "check"] /\ timer' = timer /\ result' = result
  BY Zenon DEF pause_timeout, Goto
<1>3. /\ pc' \in [Waiters -> {"run", "pause", "check", "sleep", "woken", "remove"}]
      /\ timer' \in [Waiters -> {"none", "armed", "expired", "fired"}]
      /\ result' \in [Waiters -> {"ok", "ETIME", "EINTR"}]
  BY <1>2, PauseTypes, SMT
<1>4. /\ \A w \in Waiters \ {u} : pc'[w] = pc[w] /\ timer'[w] = timer[w]
      /\ pc'[u] \in {"remove", "check"}
      /\ u \notin Interruptible => pc'[u] = "check" /\ timer' = timer
  BY <1>2, PauseTypes, SMT
<1>5. \A w \in Waiters : pc'[w] = "run" <=> pc[w] = "run"
  BY <1>1, <1>4, SMT
<1>6. Calm'
  <2>1. ASSUME Steady(load)
        PROVE  /\ timer'[u] = "none" /\ ~pending'[u] /\ ~waking'[u]
               /\ pc'[u] # "run" /\ (hasWoken'[u] \/ pc'[u] \in {"woken", "remove"})
                  => counted[u] = 1
    <3>1. u \notin Interruptible
      BY <2>1, Zenon DEF Steady, Interruptible
    <3>2. pc[u] # "run" /\ pc'[u] \notin {"woken", "remove"}
      BY <1>1, <1>4, <3>1, SMT
    <3> QED BY <1>1, PauseTypes, <1>4, <2>1, <3>1, <3>2, Zenon DEF Calm
  <2> QED BY <1>1, PauseTypes, <1>4, <2>1, CalmStep, Zenon
<1> QED BY <1>1, PauseTypes, <1>3, <1>5, <1>6, QuietStep, Zenon

\* checkPending.
LEMMA CheckStep ==
  ASSUME IInv, UNCHANGED load, NEW u \in Waiters, checkPending(u)
  PROVE  IInv'
<1>1. /\ UNCHANGED <<word, items, lock, hasWoken, timer, returned, expects, pending, waking, call,
                     counted>>
      /\ pc[u] = "check"
  BY Zenon DEF checkPending, signalVars, At
<1>2. IF pending[u]
      THEN pc' = [pc EXCEPT ![u] = "remove"] /\ result' = [result EXCEPT ![u] = "EINTR"]
      ELSE pc' = [pc EXCEPT ![u] = "sleep"] /\ result' = result
  BY Zenon DEF checkPending, Goto
<1>3. /\ pc' \in [Waiters -> {"run", "pause", "check", "sleep", "woken", "remove"}]
      /\ result' \in [Waiters -> {"ok", "ETIME", "EINTR"}]
  BY <1>2, PauseTypes, SMT
<1>4. /\ \A w \in Waiters \ {u} : pc'[w] = pc[w]
      /\ pc'[u] \in {"remove", "sleep"}
      /\ ~pending[u] => pc'[u] = "sleep"
  BY <1>2, PauseTypes, SMT
<1>5. \A w \in Waiters : pc'[w] = "run" <=> pc[w] = "run"
  BY <1>1, <1>4, SMT
<1>6. Calm'
  <2>1. ASSUME Steady(load)
        PROVE  /\ timer'[u] = "none" /\ ~pending'[u] /\ ~waking'[u]
               /\ pc'[u] # "run" /\ (hasWoken'[u] \/ pc'[u] \in {"woken", "remove"})
                  => counted[u] = 1
    <3>1. ~pending[u]
      BY <2>1, PauseTypes, Zenon DEF Calm
    <3>2. pc[u] # "run" /\ pc'[u] \notin {"woken", "remove"}
      BY <1>1, <1>4, <3>1, SMT
    <3> QED BY <1>1, PauseTypes, <2>1, <3>1, <3>2, Zenon DEF Calm
  <2> QED BY <1>1, PauseTypes, <1>4, <2>1, CalmStep, Zenon
<1> QED BY <1>1, PauseTypes, <1>3, <1>5, <1>6, QuietStep, Zenon

\* do_wait.
LEMMA DoWaitStep ==
  ASSUME IInv, UNCHANGED load, NEW u \in Waiters, do_wait(u)
  PROVE  IInv'
<1>1. /\ UNCHANGED <<word, items, lock, timer, result, returned, expects, pending, waking, call,
                     counted>>
      /\ pc[u] = "sleep" /\ hasWoken[u]
      /\ hasWoken' = [hasWoken EXCEPT ![u] = FALSE]
      /\ pc' = [pc EXCEPT ![u] = "woken"]
  BY Zenon DEF do_wait, signalVars, At, Goto
<1>2. hasWoken' \in [Waiters -> BOOLEAN] /\ \A w \in Waiters \ {u} : hasWoken'[w] = hasWoken[w]
  BY <1>1, PauseTypes, Zenon
<1>3. /\ pc' \in [Waiters -> {"run", "pause", "check", "sleep", "woken", "remove"}]
      /\ \A w \in Waiters \ {u} : pc'[w] = pc[w]
      /\ pc'[u] = "woken"
  BY <1>1, PauseTypes, SMT
<1>4. \A w \in Waiters : pc'[w] = "run" <=> pc[w] = "run"
  BY <1>1, <1>3, SMT
<1>5. Calm'
  <2>0. pc[u] # "run"
    BY <1>1, SMT
  <2>1. ASSUME Steady(load)
        PROVE  /\ timer'[u] = "none" /\ ~pending'[u] /\ ~waking'[u]
               /\ pc'[u] # "run" /\ (hasWoken'[u] \/ pc'[u] \in {"woken", "remove"})
                  => counted[u] = 1
    BY <1>1, PauseTypes, <2>0, <2>1, Zenon DEF Calm
  <2> QED BY <1>1, <1>2, <1>3, PauseTypes, <2>1, CalmStep, Zenon
<1> QED BY <1>1, <1>2, <1>3, PauseTypes, <1>4, <1>5, QuietStep, Zenon

\* The end of pause_timeout.
LEMMA PauseEndStep ==
  ASSUME IInv, UNCHANGED load, NEW u \in Waiters, pauseEnd(u)
  PROVE  IInv'
<1>1. /\ UNCHANGED <<word, items, lock, hasWoken, returned, expects, pending, waking, call, counted>>
      /\ pc[u] = "woken"
      /\ pc' = [pc EXCEPT ![u] = "remove"]
      /\ timer' = [timer EXCEPT ![u] = IF timer[u] = "armed" THEN "none" ELSE timer[u]]
  BY Zenon DEF pauseEnd, signalVars, At, Goto
<1>2. \E r \in {"ok", "ETIME", "EINTR"} : result' = [result EXCEPT ![u] = r]
  <2>1. result' = [result EXCEPT ![u] = IF timer[u] \in {"expired", "fired"} THEN "ETIME"
                                        ELSE IF pending[u] THEN "EINTR" ELSE "ok"]
    BY Zenon DEF pauseEnd
  <2> QED BY <2>1, Zenon
<1>3. /\ pc' \in [Waiters -> {"run", "pause", "check", "sleep", "woken", "remove"}]
      /\ timer' \in [Waiters -> {"none", "armed", "expired", "fired"}]
      /\ \A w \in Waiters \ {u} : pc'[w] = pc[w] /\ timer'[w] = timer[w]
      /\ pc'[u] = "remove" /\ (timer[u] = "none" => timer'[u] = "none")
  BY <1>1, PauseTypes, SMT
<1>4. result' \in [Waiters -> {"ok", "ETIME", "EINTR"}]
  BY <1>2, PauseTypes, SMT
<1>5. \A w \in Waiters : pc'[w] = "run" <=> pc[w] = "run"
  BY <1>1, <1>3, SMT
<1>6. Calm'
  <2>0. pc[u] # "run"
    BY <1>1, SMT
  <2>1. ASSUME Steady(load)
        PROVE  /\ timer'[u] = "none" /\ ~pending'[u] /\ ~waking'[u]
               /\ pc'[u] # "run" /\ (hasWoken'[u] \/ pc'[u] \in {"woken", "remove"})
                  => counted[u] = 1
    BY <1>1, <1>3, PauseTypes, <2>0, <2>1, Zenon DEF Calm
  <2> QED BY <1>1, <1>3, PauseTypes, <2>1, CalmStep, Zenon
<1> QED BY <1>1, <1>3, <1>4, PauseTypes, <1>5, <1>6, QuietStep, Zenon

\* The timer's expiry, its callback and the two steps of a signal: none of them
\* happens where there are no timeouts and signals.
LEMMA AlarmStep ==
  ASSUME IInv, UNCHANGED load, NEW u \in Waiters,
         expire(u) \/ timerCallback(u) \/ enqueue_signal(u) \/ wake_signalled_waker(u)
  PROVE  IInv'
<1>1. UNCHANGED <<word, items, lock, pc, result, returned, expects, call, counted>>
  BY Zenon DEF expire, timerCallback, enqueue_signal, wake_signalled_waker, waitVars, signalVars
<1>2. ~Steady(load)
  <2>1. CASE timer[u] \in {"armed", "expired"}
    <3>1. timer[u] # "none"
      BY <2>1, SMT
    <3> QED BY <3>1, PauseTypes, Zenon DEF Calm
  <2>2. CASE waking[u]
    BY <2>2, PauseTypes, Zenon DEF Calm
  <2>3. CASE u \in Interruptible
    BY <2>3, Zenon DEF Steady, Interruptible
  <2> QED BY <2>1, <2>2, <2>3, Zenon DEF expire, timerCallback, enqueue_signal, wake_signalled_waker
<1>3. Calm'
  BY <1>2, Zenon DEF Calm
<1>4. timer' \in [Waiters -> {"none", "armed", "expired", "fired"}]
  <2>1. \/ timer' = timer
        \/ timer' = [timer EXCEPT ![u] = "expired"] \/ timer' = [timer EXCEPT ![u] = "fired"]
    BY Zenon DEF expire, timerCallback, enqueue_signal, wake_signalled_waker, waitVars
  <2> QED BY <2>1, PauseTypes, SMT
<1>5. hasWoken' \in [Waiters -> BOOLEAN]
  <2>1. hasWoken' = hasWoken \/ hasWoken' = [hasWoken EXCEPT ![u] = TRUE]
    BY Zenon DEF expire, timerCallback, enqueue_signal, wake_signalled_waker
  <2> QED BY <2>1, PauseTypes, Zenon
<1>6. pending' \in [Waiters -> BOOLEAN]
  <2>1. pending' = pending \/ pending' = [pending EXCEPT ![u] = TRUE]
    BY Zenon DEF expire, timerCallback, enqueue_signal, wake_signalled_waker, signalVars
  <2> QED BY <2>1, PauseTypes, Zenon
<1>7. waking' \in [Waiters -> BOOLEAN]
  <2>1. \/ waking' = waking
        \/ waking' = [waking EXCEPT ![u] = TRUE] \/ waking' = [waking EXCEPT ![u] = FALSE]
    BY Zenon DEF expire, timerCallback, enqueue_signal, wake_signalled_waker, signalVars
  <2> QED BY <2>1, PauseTypes, Zenon
<1> QED BY <1>1, <1>3, <1>4, <1>5, <1>6, <1>7, PauseTypes, QuietStep, Zenon

\* futex_wait_bitset.
LEMMA WaitStep ==
  ASSUME IInv, UNCHANGED load, NEW u \in Waiters, NEW a \in Addrs, NEW v \in Values,
         NEW bitset \in SUBSET Bits, bitset # {}, futex_wait_bitset(u, a, v, bitset)
  PROVE  IInv'
<1>0. TypeOK /\ Once /\ Settled /\ Held /\ PlainWakes /\ AtHome /\ Calm /\ Clean
  BY Zenon DEF IInv
<1>1. /\ UNCHANGED <<word, lock, timer, result, pending, waking, call>>
      /\ pc[u] = "run" /\ pc' = [pc EXCEPT ![u] = "pause"]
      /\ hasWoken' = [hasWoken EXCEPT ![u] = FALSE]
      /\ counted' = [counted EXCEPT ![u] = 0]
      /\ expects' = [expects EXCEPT ![u] = <<a, v>>]
      /\ returned' = [returned EXCEPT ![u] = "ok"]
  BY Zenon DEF futex_wait_bitset, signalVars, At, Goto
<1>2. ~Queued(u)
  BY <1>0, <1>1, Zenon DEF Settled
<1>3. Once' /\ \A x : Queued(x)' <=> Queued(x) \/ x = u
  BY <1>0, <1>2, WaitKeeps, Zenon
<1>4. \A b \in Buckets : Wakers(items'[b]) =
        Wakers(items[b]) \cup (IF b = Hash[a] THEN {u} ELSE {})
  BY <1>0, <1>2, WaitKeeps, Zenon
<1>5. TypeOK'
  <2>1. AllCalls' = AllCalls
    BY SameCalls, Zenon
  <2>2. items' \in [Buckets -> Seq(Item)]
    BY <1>3, Zenon DEF Once, Tidy
  <2>3. hasWoken' \in [Waiters -> BOOLEAN]
    BY <1>0, <1>1, Zenon DEF TypeOK
  <2>4. /\ pc' \in [Waiters -> {"run", "pause", "check", "sleep", "woken", "remove"}]
        /\ returned' \in [Waiters -> {"ok", "ETIME", "EINTR"}]
        /\ counted' \in [Waiters -> Nat]
    <3>1. /\ pc \in [Waiters -> {"run", "pause", "check", "sleep", "woken", "remove"}]
          /\ returned \in [Waiters -> {"ok", "ETIME", "EINTR"}]
          /\ counted \in [Waiters -> Nat]
      BY <1>0, Zenon DEF TypeOK
    <3> QED BY <1>1, <3>1, SMT
  <2>5. expects' \in [Waiters -> (Addrs \X Values) \cup {None}]
    <3>1. expects \in [Waiters -> (Addrs \X Values) \cup {None}]
      BY <1>0, Zenon DEF TypeOK
    <3>2. <<a, v>> \in Addrs \X Values
      BY SMT
    <3> QED BY <1>1, <3>1, <3>2, Zenon
  <2> QED BY <1>0, <1>1, <2>1, <2>2, <2>3, <2>4, <2>5, Zenon DEF TypeOK
<1>6. /\ DOMAIN pc = Waiters /\ DOMAIN counted = Waiters /\ DOMAIN expects = Waiters
      /\ DOMAIN hasWoken = Waiters /\ DOMAIN returned = Waiters
  BY <1>0, Zenon DEF TypeOK
<1>7. /\ pc'[u] = "pause" /\ counted'[u] = 0 /\ expects'[u] = <<a, v>> /\ hasWoken'[u] = FALSE
      /\ \A x \in Waiters \ {u} :
           /\ pc'[x] = pc[x] /\ counted'[x] = counted[x] /\ expects'[x] = expects[x]
           /\ hasWoken'[x] = hasWoken[x] /\ returned'[x] = returned[x]
  BY <1>1, <1>6, Zenon
<1>8. pc'[u] # "run" /\ pc'[u] \notin {"woken", "remove"} /\ counted'[u] \in {0, 1}
      /\ expects'[u] \in Addrs \X Values /\ expects'[u][1] = a
  BY <1>7, SMT
<1>9. Settled'
  <2> SUFFICES ASSUME NEW x \in Waiters
               PROVE  /\ counted'[x] \in {0, 1}
                      /\ Queued(x)' <=> pc'[x] # "run" /\ counted'[x] = 0
                      /\ pc'[x] = "run" /\ counted'[x] = 1 => returned'[x] = "ok"
                      /\ pc'[x] # "run" => expects'[x] \in Addrs \X Values
    BY Zenon DEF Settled
  <2>1. CASE x = u
    BY <1>3, <1>7, <1>8, <2>1, Zenon
  <2>2. CASE x # u
    <3>1. /\ pc'[x] = pc[x] /\ counted'[x] = counted[x] /\ expects'[x] = expects[x]
          /\ returned'[x] = returned[x]
      BY <1>7, <2>2, Zenon
    <3> QED BY <1>0, <1>3, <2>2, <3>1, Zenon DEF Settled
  <2> QED BY <2>1, <2>2
<1>10. Held' /\ PlainWakes'
  <2>1. AllCalls' = AllCalls
    BY SameCalls, Zenon
  <2> QED BY <1>0, <1>1, <2>1, Zenon DEF Held, PlainWakes
<1>11. AtHome'
  <2> SUFFICES ASSUME StaysHome(load), NEW x \in Waiters, NEW b \in Buckets, x \in Wakers(items'[b])
               PROVE  b = Hash[expects'[x][1]]
    BY Zenon DEF AtHome
  <2>1. CASE x = u
    <3>1. x \notin Wakers(items[b])
      BY <1>2, <2>1, Zenon DEF Queued
    <3> QED BY <1>4, <1>8, <2>1, <3>1, Zenon
  <2>2. CASE x # u
    <3>1. x \in Wakers(items[b])
      BY <1>4, <2>2, Zenon
    <3>2. b = Hash[expects[x][1]]
      BY <1>0, <3>1, Zenon DEF AtHome
    <3>3. expects'[x] = expects[x]
      BY <1>7, <2>2, Zenon
    <3> QED BY <3>2, <3>3, Zenon
  <2> QED BY <2>1, <2>2
<1>12. Calm'
  <2> SUFFICES ASSUME Steady(load), NEW x \in Waiters
               PROVE  /\ timer'[x] = "none" /\ ~pending'[x] /\ ~waking'[x]
                      /\ pc'[x] # "run" /\ (hasWoken'[x] \/ pc'[x] \in {"woken", "remove"})
                         => counted'[x] = 1
    BY Zenon DEF Calm
  <2>1. CASE x = u
    BY <1>0, <1>1, <1>7, <1>8, <2>1, Zenon DEF Calm
  <2>2. CASE x # u
    BY <1>0, <1>1, <1>7, <2>2, Zenon DEF Calm
  <2> QED BY <2>1, <2>2
<1>13. Clean'
  <2>1. Dead # u
    BY FutexAssumption, Zenon
  <2>2. Queued(Dead)' => Queued(Dead)
    BY <1>3, <2>1, Zenon
  <2>3. ASSUME Tame(load), NEW x \in Waiters, pc'[x] = "run", returned'[x] = "ok"
        PROVE  counted'[x] = 1
    BY <1>0, <1>7, <1>8, <2>3, Zenon DEF Clean
  <2> QED BY <1>0, <2>2, <2>3, Zenon DEF Clean
<1> QED BY <1>3, <1>5, <1>9, <1>10, <1>11, <1>12, <1>13, Zenon DEF IInv

\* remove_by_waker: the answer tells whether a wake call has counted the wait.
LEMMA RemoveStep ==
  ASSUME IInv, UNCHANGED load, NEW u \in Waiters, remove_by_waker(u)
  PROVE  IInv'
<1> DEFINE b == Hash[expects[u][1]]
<1>0. TypeOK /\ Once /\ Settled /\ Held /\ PlainWakes /\ AtHome /\ Calm /\ Clean
  BY Zenon DEF IInv
<1>1. pc[u] = "remove" /\ pc[u] # "run"
  BY SMT DEF remove_by_waker, At
<1>2. expects[u] \in Addrs \X Values
  BY <1>0, <1>1, Zenon DEF Settled
<1>3. expects[u][1] \in Addrs /\ b \in Buckets
  BY <1>2, SMT DEF Buckets
<1>4. PICK answer, rest :
        /\ Finish(u, answer, rest)
        /\ answer \in {"ok", "ETIME", "EINTR"}
        /\ answer = "ok" <=> ~HasItem(items[b], u)
  <2>1. result[u] \in {"ok", "ETIME", "EINTR"}
    BY <1>0, Zenon DEF TypeOK
  <2> DEFINE ans == IF result[u] = "ok" THEN "EINTR" ELSE result[u]
             new == [items EXCEPT ![b] = swap_remove(items[b], u)]
  <2>2. ans \in {"ok", "ETIME", "EINTR"} /\ ans # "ok"
    BY <2>1, SMT
  <2>3. IF HasItem(items[b], u) THEN Finish(u, ans, new) ELSE Finish(u, "ok", items)
    BY Zenon DEF remove_by_waker
  <2> HIDE DEF ans, new, b
  <2> QED BY <2>2, <2>3, Zenon
<1>5. /\ UNCHANGED <<word, lock, waking, call, counted>>
      /\ returned' = [returned EXCEPT ![u] = answer]
      /\ hasWoken' = [hasWoken EXCEPT ![u] = TRUE]
      /\ timer' = [timer EXCEPT ![u] = "none"]
      /\ pending' = [pending EXCEPT ![u] = FALSE]
      /\ result' = [result EXCEPT ![u] = "ok"]
      /\ pc' = [pc EXCEPT ![u] = "run"]
      /\ expects' = [expects EXCEPT ![u] = None]
  BY <1>4, Zenon DEF Finish, Goto
<1>6. Once' /\ \A x \in Waiters : Queued(x)' <=> Queued(x) /\ x # u
  BY <1>0, <1>3, RemoveKeeps, Zenon
<1>7. \A d \in Buckets : Wakers(items'[d]) \ {Dead} \subseteq Wakers(items[d])
  BY <1>0, <1>3, RemoveKeeps, Zenon
<1>8. (Queued(u) => HasItem(items[b], u)) => (Queued(Dead)' => Queued(Dead))
  BY <1>0, <1>3, RemoveKeeps, Zenon
<1>9. HasItem(items[b], u) <=> u \in Wakers(items[b])
  BY WakersAre, Zenon DEF HasItem
<1> HIDE DEF b
<1>10. Tame(load) => (Queued(u) => HasItem(items[b], u))
  <2>1. ASSUME StaysHome(load), Queued(u) PROVE HasItem(items[b], u)
    BY <1>0, <1>9, <2>1, Zenon DEF AtHome, Queued, b
  <2>2. ASSUME Steady(load), Queued(u) PROVE FALSE
    <3>1. counted[u] = 1
      BY <1>0, <1>1, <2>2, Zenon DEF Calm
    <3>2. counted[u] = 0
      BY <1>0, <2>2, Zenon DEF Settled
    <3> QED BY <3>1, <3>2
  <2> QED BY <2>1, <2>2, Zenon DEF Tame
<1>11. TypeOK'
  <2>1. AllCalls' = AllCalls
    BY SameCalls, Zenon
  <2>2. items' \in [Buckets -> Seq(Item)]
    BY <1>6, Zenon DEF Once, Tidy
  <2>3. hasWoken' \in [Waiters -> BOOLEAN] /\ pending' \in [Waiters -> BOOLEAN]
    BY <1>0, <1>5, Zenon DEF TypeOK
  <2>4. /\ pc' \in [Waiters -> {"run", "pause", "check", "sleep", "woken", "remove"}]
        /\ timer' \in [Waiters -> {"none", "armed", "expired", "fired"}]
        /\ result' \in [Waiters -> {"ok", "ETIME", "EINTR"}]
        /\ returned' \in [Waiters -> {"ok", "ETIME", "EINTR"}]
    <3>1. returned \in [Waiters -> {"ok", "ETIME", "EINTR"}]
      BY <1>0, Zenon DEF TypeOK
    <3> QED BY <1>4, <1>5, <3>1, PauseTypes, SMT
  <2>5. expects' \in [Waiters -> (Addrs \X Values) \cup {None}]
    BY <1>0, <1>5, Zenon DEF TypeOK
  <2> QED BY <1>0, <1>5, <2>1, <2>2, <2>3, <2>4, <2>5, Zenon DEF TypeOK
<1>12. /\ DOMAIN pc = Waiters /\ DOMAIN expects = Waiters /\ DOMAIN timer = Waiters
       /\ DOMAIN hasWoken = Waiters /\ DOMAIN returned = Waiters /\ DOMAIN pending = Waiters
  BY <1>0, Zenon DEF TypeOK
<1>13. /\ pc'[u] = "run" /\ returned'[u] = answer /\ timer'[u] = "none" /\ ~pending'[u]
       /\ \A x \in Waiters \ {u} :
            /\ pc'[x] = pc[x] /\ expects'[x] = expects[x] /\ timer'[x] = timer[x]
            /\ hasWoken'[x] = hasWoken[x] /\ returned'[x] = returned[x] /\ pending'[x] = pending[x]
  BY <1>5, <1>12, Zenon
<1>14. Settled'
  <2> SUFFICES ASSUME NEW x \in Waiters
               PROVE  /\ counted'[x] \in {0, 1}
                      /\ Queued(x)' <=> pc'[x] # "run" /\ counted'[x] = 0
                      /\ pc'[x] = "run" /\ counted'[x] = 1 => returned'[x] = "ok"
                      /\ pc'[x] # "run" => expects'[x] \in Addrs \X Values
    BY Zenon DEF Settled
  <2>1. CASE x = u
    <3>1. counted[u] = 1 => answer = "ok"
      <4>1. ASSUME counted[u] = 1 PROVE ~Queued(u)
        <5>1. counted[u] # 0
          BY <4>1
        <5> QED BY <1>0, <5>1, Zenon DEF Settled
      <4> QED BY <1>3, <1>4, <1>9, <4>1, Zenon DEF Queued
    <3> QED BY <1>0, <1>5, <1>6, <1>13, <2>1, <3>1, Zenon DEF Settled
  <2>2. CASE x # u
    <3>1. pc'[x] = pc[x] /\ expects'[x] = expects[x] /\ returned'[x] = returned[x]
      BY <1>13, <2>2, Zenon
    <3> QED BY <1>0, <1>5, <1>6, <2>2, <3>1, Zenon DEF Settled
  <2> QED BY <2>1, <2>2
<1>15. Held' /\ PlainWakes'
  <2>1. AllCalls' = AllCalls
    BY SameCalls, Zenon
  <2> QED BY <1>0, <1>5, <2>1, Zenon DEF Held, PlainWakes
<1>16. AtHome'
  <2> SUFFICES ASSUME StaysHome(load), NEW x \in Waiters, NEW d \in Buckets, x \in Wakers(items'[d])
               PROVE  d = Hash[expects'[x][1]]
    BY Zenon DEF AtHome
  <2>1. x # Dead /\ x # u
    BY <1>6, FutexAssumption, Zenon DEF Queued
  <2>2. x \in Wakers(items[d])
    BY <1>7, <2>1, Zenon
  <2>3. d = Hash[expects[x][1]]
    BY <1>0, <2>2, Zenon DEF AtHome
  <2>4. expects'[x] = expects[x]
    BY <1>13, <2>1, Zenon
  <2> QED BY <2>3, <2>4, Zenon
<1>17. Calm'
  <2> SUFFICES ASSUME Steady(load), NEW x \in Waiters
               PROVE  /\ timer'[x] = "none" /\ ~pending'[x] /\ ~waking'[x]
                      /\ pc'[x] # "run" /\ (hasWoken'[x] \/ pc'[x] \in {"woken", "remove"})
                         => counted'[x] = 1
    BY Zenon DEF Calm
  <2>1. CASE x = u
    BY <1>0, <1>5, <1>13, <2>1, Zenon DEF Calm
  <2>2. CASE x # u
    <3>1. /\ timer'[x] = timer[x] /\ pending'[x] = pending[x] /\ pc'[x] = pc[x]
          /\ hasWoken'[x] = hasWoken[x]
      BY <1>13, <2>2, Zenon
    <3> QED BY <1>0, <1>5, <3>1, Zenon DEF Calm
  <2> QED BY <2>1, <2>2
<1>18. Clean'
  <2>1. Tame(load) => ~Queued(Dead)'
    BY <1>0, <1>8, <1>10, Zenon DEF Clean
  <2>2. ASSUME Tame(load), NEW x \in Waiters, pc'[x] = "run", returned'[x] = "ok"
        PROVE  counted'[x] = 1
    <3>1. CASE x = u
      <4>1. ~Queued(u)
        BY <1>4, <1>10, <1>13, <2>2, <3>1, Zenon
      <4>2. counted[u] \in {0, 1} /\ counted[u] # 0
        BY <1>0, <1>1, <4>1, Zenon DEF Settled
      <4> QED BY <1>5, <3>1, <4>2, Zenon
    <3>2. CASE x # u
      <4>1. pc'[x] = pc[x] /\ returned'[x] = returned[x]
        BY <1>13, <3>2, Zenon
      <4> QED BY <1>0, <1>5, <2>2, <4>1, Zenon DEF Clean
    <3> QED BY <3>1, <3>2
  <2> QED BY <2>1, <2>2, Zenon DEF Clean
<1> QED BY <1>6, <1>11, <1>14, <1>15, <1>16, <1>17, <1>18, Zenon DEF IInv

\* A call returns: its locks are free and it is no longer under way.
LEMMA ReturnStep ==
  ASSUME IInv, UNCHANGED load, NEW k \in Callers, NEW c \in AllCalls, Run(k, c)
  PROVE  /\ lock' \in [Buckets -> Callers \cup {None}]
         /\ call' \in [Callers -> AllCalls \cup {NoCall}]
         /\ Held' /\ PlainWakes'
<1>0. TypeOK /\ Held /\ PlainWakes
  BY Zenon DEF IInv
<1>1. /\ load \in Loads /\ lock \in [Buckets -> Callers \cup {None}]
      /\ call \in [Callers -> AllCalls \cup {NoCall}]
  BY <1>0, Zenon DEF TypeOK
<1>2. call' = [call EXCEPT ![k] = NoCall] /\ Makes(k, c)
  BY Zenon DEF Run, futex_wake_bitset, futex_requeue, futex_wake_op, Return
<1>3. lock' = [b \in Buckets |-> IF lock[b] = k THEN None ELSE lock[b]]
  <2>1. CASE futex_wake_bitset(k, c)
    <3>1. lock' = lock /\ c.op = "wake"
      BY <2>1, Zenon DEF futex_wake_bitset
    <3>2. ASSUME NEW b \in Buckets, lock[b] = k PROVE FALSE
      <4>1. k # None
        BY FutexAssumption, Zenon
      <4>2. call[k] \in AllCalls /\ Hash[call[k].addr1] # Hash[call[k].addr2]
        BY <1>0, <3>2, <4>1, Zenon DEF Held
      <4>3. call[k] # NoCall
        BY <1>1, <4>2, CallTypes, Zenon
      <4>4. call[k] = c
        BY <1>2, <4>3, Zenon DEF Makes
      <4>5. c.addr1 = c.addr2
        BY <1>1, <3>1, CallTypes, Zenon
      <4> QED BY <4>2, <4>4, <4>5, Zenon
    <3> QED BY <1>1, <3>1, <3>2, Zenon
  <2>2. CASE futex_requeue(k, c) \/ futex_wake_op(k, c)
    BY <2>2, Zenon DEF futex_requeue, futex_wake_op, Unlock
  <2> QED BY <2>1, <2>2, Zenon DEF Run
<1>4. lock' \in [Buckets -> Callers \cup {None}]
  BY <1>1, <1>3, Zenon
<1>5. call' \in [Callers -> AllCalls \cup {NoCall}]
  BY <1>1, <1>2, Zenon
<1>6. AllCalls' = AllCalls
  BY SameCalls, Zenon
<1>7. Held'
  <2> SUFFICES ASSUME NEW b \in Buckets, lock'[b] # None
               PROVE  /\ call'[lock'[b]] \in AllCalls
                      /\ Hash[call'[lock'[b]].addr1] # Hash[call'[lock'[b]].addr2]
                      /\ b = firstLock(call'[lock'[b]])
    BY <1>6, Zenon DEF Held
  <2>1. lock[b] # k /\ lock'[b] = lock[b]
    BY <1>3, Zenon
  <2>2. call'[lock[b]] = call[lock[b]]
    <3>1. lock[b] \in Callers
      BY <1>1, <2>1, Zenon
    <3> QED BY <1>1, <1>2, <2>1, <3>1, Zenon
  <2>3. /\ call[lock[b]] \in AllCalls
        /\ Hash[call[lock[b]].addr1] # Hash[call[lock[b]].addr2]
        /\ b = firstLock(call[lock[b]])
    BY <1>0, <2>1, Zenon DEF Held
  <2> QED BY <2>1, <2>2, <2>3, Zenon
<1>8. PlainWakes'
  <2> SUFFICES ASSUME NEW j \in Callers, call'[j].op = "wake"
               PROVE  \E a \in Addrs : call'[j] = WakeAll(a)
    BY Zenon DEF PlainWakes, WakeAll
  <2>1. NoCall.op # "wake"
    BY SMT DEF NoCall
  <2>2. call'[j] = call[j]
    BY <1>1, <1>2, <2>1, Zenon
  <2> QED BY <1>0, <2>2, Zenon DEF PlainWakes
<1> QED BY <1>4, <1>5, <1>7, <1>8, Zenon

\* The words after a call.
LEMMA WordStep ==
  ASSUME TypeOK, NEW k \in Callers, NEW c \in AllCalls, Run(k, c)
  PROVE  word' \in [Addrs -> Values]
<1>1. word \in [Addrs -> Values] /\ load \in Loads
  BY Zenon DEF TypeOK
<1>2. CASE word' = word
  BY <1>1, <1>2, Zenon
<1>3. CASE futex_wake_op(k, c)
  <2>1. c.op = "wakeOp" /\ word' = [word EXCEPT ![c.addr2] = calculate_new_val(c.wakeOp, word[c.addr2])]
    BY <1>3, Zenon DEF futex_wake_op
  <2>2. c.addr2 \in Addrs /\ IsWakeOp(c.wakeOp)
    BY <1>1, <2>1, CallTypes, Zenon
  <2>3. calculate_new_val(c.wakeOp, word[c.addr2]) \in Values
    BY <1>1, <2>2, NewValTypes, Zenon
  <2> QED BY <1>1, <2>1, <2>3, Zenon
<1> QED BY <1>2, <1>3, Zenon DEF Run, futex_wake_bitset, futex_requeue

\* The calls that wake.
LEMMA RunStep ==
  ASSUME IInv, UNCHANGED load, NEW k \in Callers, NEW c \in AllCalls, Run(k, c)
  PROVE  IInv'
<1>0. TypeOK /\ Once /\ Settled /\ AtHome /\ Calm /\ Clean /\ load \in Loads
  BY Zenon DEF IInv, TypeOK
<1>1. PICK woken : Effect(woken)
  BY <1>0, RunKeeps, Zenon
<1>2. /\ woken \subseteq {w \in Waiters : Queued(w) /\ ~hasWoken[w]}
      /\ Once' /\ \A x : Queued(x)' <=> Queued(x) /\ x \notin woken
  BY <1>1, Zenon DEF Effect
<1>3. /\ hasWoken' = [w \in Waiters |-> hasWoken[w] \/ w \in woken]
      /\ counted' = [w \in Waiters |-> counted[w] + (IF w \in woken THEN 1 ELSE 0)]
  BY <1>1, Zenon DEF Effect, Wake
<1>4. UNCHANGED <<pc, timer, result, returned, expects, pending, waking>>
  BY <1>1, Zenon DEF Effect, waitVars, signalVars
<1>5. StaysHome(load) => \A b \in Buckets : Wakers(items'[b]) \subseteq Wakers(items[b])
  BY <1>1, Zenon DEF Effect
<1>6. AllCalls' = AllCalls
  BY SameCalls, Zenon
<1>7. \A w \in Waiters : hasWoken'[w] <=> hasWoken[w] \/ w \in woken
  BY <1>3, Zenon
<1>8. ASSUME NEW w \in Waiters
      PROVE  /\ w \in woken => pc[w] # "run" /\ counted'[w] = 1
             /\ w \notin woken => counted'[w] = counted[w]
  <2>1. counted[w] \in Nat
    BY <1>0, Zenon DEF TypeOK
  <2>2. w \in woken => pc[w] # "run" /\ counted[w] = 0
    BY <1>0, <1>2, Zenon DEF Settled
  <2>3. counted'[w] = counted[w] + (IF w \in woken THEN 1 ELSE 0)
    BY <1>3, Zenon
  <2> QED BY <2>1, <2>2, <2>3, SMT
<1>9. Settled'
  <2> SUFFICES ASSUME NEW x \in Waiters
               PROVE  /\ counted'[x] \in {0, 1}
                      /\ Queued(x)' <=> pc'[x] # "run" /\ counted'[x] = 0
                      /\ pc'[x] = "run" /\ counted'[x] = 1 => returned'[x] = "ok"
                      /\ pc'[x] # "run" => expects'[x] \in Addrs \X Values
    BY Zenon DEF Settled
  <2>1. CASE x \in woken
    <3>1. counted'[x] # 0
      BY <1>8, <2>1, SMT
    <3> QED BY <1>0, <1>2, <1>4, <1>8, <2>1, <3>1, Zenon DEF Settled
  <2>2. CASE x \notin woken
    <3>1. counted'[x] = counted[x] /\ (Queued(x)' <=> Queued(x))
      BY <1>2, <1>8, <2>2, Zenon
    <3> QED BY <1>0, <1>4, <3>1, Zenon DEF Settled
  <2> QED BY <2>1, <2>2
<1>10. TypeOK'
  <2>1. items' \in [Buckets -> Seq(Item)]
    BY <1>2, Zenon DEF Once, Tidy
  <2>2. hasWoken' \in [Waiters -> BOOLEAN]
    BY <1>3, Zenon
  <2>3. counted' \in [Waiters -> Nat]
    <3>1. counted \in [Waiters -> Nat]
      BY <1>0, Zenon DEF TypeOK
    <3> QED BY <1>3, <3>1, SMT
  <2>4. word' \in [Addrs -> Values]
    BY <1>0, WordStep, Zenon
  <2>5. /\ lock' \in [Buckets -> Callers \cup {None}]
        /\ call' \in [Callers -> AllCalls \cup {NoCall}]
    BY ReturnStep, Zenon
  <2> QED BY <1>0, <1>4, <1>6, <2>1, <2>2, <2>3, <2>4, <2>5, Zenon DEF TypeOK
<1>11. AtHome'
  BY <1>0, <1>4, <1>5, Zenon DEF AtHome
<1>12. Calm'
  <2> SUFFICES ASSUME Steady(load), NEW x \in Waiters
               PROVE  /\ timer'[x] = "none" /\ ~pending'[x] /\ ~waking'[x]
                      /\ pc'[x] # "run" /\ (hasWoken'[x] \/ pc'[x] \in {"woken", "remove"})
                         => counted'[x] = 1
    BY Zenon DEF Calm
  <2>1. CASE x \in woken
    BY <1>0, <1>4, <1>8, <2>1, Zenon DEF Calm
  <2>2. CASE x \notin woken
    <3>1. counted'[x] = counted[x] /\ (hasWoken'[x] <=> hasWoken[x])
      BY <1>7, <1>8, <2>2, Zenon
    <3> QED BY <1>0, <1>4, <3>1, Zenon DEF Calm
  <2> QED BY <2>1, <2>2
<1>13. Clean'
  <2>1. ASSUME Tame(load), NEW x \in Waiters, pc[x] = "run", returned[x] = "ok"
        PROVE  counted'[x] = 1
    <3>1. x \notin woken
      BY <1>8, <2>1, Zenon
    <3> QED BY <1>0, <1>8, <2>1, <3>1, Zenon DEF Clean
  <2>2. Tame(load) => ~Queued(Dead)'
    BY <1>0, <1>2, Zenon DEF Clean
  <2> QED BY <1>4, <2>1, <2>2, Zenon DEF Clean
<1>14. Held' /\ PlainWakes'
  BY ReturnStep, Zenon
<1> QED BY <1>2, <1>9, <1>10, <1>11, <1>12, <1>13, <1>14, Zenon DEF IInv

\* The first half of a call with two buckets, and a store, touch no waiter.
LEMMA CallerStep ==
  ASSUME IInv, UNCHANGED <<load, items, hasWoken, waitVars, signalVars, counted>>,
         word' \in [Addrs -> Values],
         lock' \in [Buckets -> Callers \cup {None}],
         call' \in [Callers -> AllCalls \cup {NoCall}],
         Held', PlainWakes'
  PROVE  IInv'
<1>1. AllCalls' = AllCalls
  BY SameCalls, Zenon
<1>2. UNCHANGED <<pc, timer, result, returned, expects, pending, waking>>
  BY Zenon DEF waitVars, signalVars
<1>3. TypeOK'
  BY <1>1, <1>2, Zenon DEF IInv, TypeOK
<1>4. Once' /\ \A x : Queued(x)' <=> Queued(x)
  BY Zenon DEF IInv, Once, Queued
<1>5. Settled' /\ AtHome'
  BY <1>2, <1>4, Zenon DEF IInv, Settled, AtHome
<1>6. Calm' /\ Clean'
  BY <1>2, <1>4, Zenon DEF IInv, Calm, Clean
<1> QED BY <1>3, <1>4, <1>5, <1>6, Zenon DEF IInv

\* The bucket that a call locks first is the lower one of its pair.
LEMMA FirstLockIs ==
  ASSUME load \in Loads, NEW c \in AllCalls
  PROVE  /\ Pair(c) \subseteq Buckets /\ Buckets \subseteq Nat
         /\ firstLock(c) \in Pair(c) /\ \A d \in Pair(c) : firstLock(c) <= d
<1>1. c.addr1 \in Addrs /\ c.addr2 \in Addrs
  BY CallTypes, Zenon
<1>2. /\ Pair(c) = {Hash[c.addr1], Hash[c.addr2]}
      /\ Hash[c.addr1] \in Buckets /\ Hash[c.addr2] \in Buckets
  BY <1>1, Zenon DEF Pair, Buckets
<1>3. \A a \in Addrs : Hash[a] \in Nat
  BY FutexAssumption, Zenon
<1>4. Buckets \subseteq Nat
  BY <1>3, Zenon DEF Buckets
<1>5. Hash[c.addr1] \in Nat /\ Hash[c.addr2] \in Nat
  BY <1>1, <1>3, Zenon
<1>6. \E b \in Pair(c) : \A d \in Pair(c) : b <= d
  BY <1>2, <1>5, SMT
<1>7. firstLock(c) \in Pair(c) /\ \A d \in Pair(c) : firstLock(c) <= d
  BY <1>6, Zenon DEF firstLock
<1> QED BY <1>2, <1>4, <1>7, Zenon

\* lock_bucket_pairs.
LEMMA LockStep ==
  ASSUME IInv, UNCHANGED load, NEW k \in Callers, NEW c \in AllCalls, lock_bucket_pairs(k, c)
  PROVE  IInv'
<1> DEFINE f == firstLock(c)
<1>0. Held /\ PlainWakes /\ load \in Loads
  BY Zenon DEF IInv, TypeOK
<1>1. /\ word \in [Addrs -> Values]
      /\ lock \in [Buckets -> Callers \cup {None}]
      /\ call \in [Callers -> AllCalls \cup {NoCall}]
  BY Zenon DEF IInv, TypeOK
<1>2. /\ call[k] = NoCall /\ Cardinality(Pair(c)) = 2
      /\ lock' = [lock EXCEPT ![f] = k]
      /\ call' = [call EXCEPT ![k] = c]
      /\ UNCHANGED <<word, items, hasWoken, waitVars, signalVars, counted>>
  BY Zenon DEF lock_bucket_pairs
<1>3. f \in Buckets
  BY <1>0, FirstLockIs, Zenon
<1> HIDE DEF f
<1>4. Hash[c.addr1] # Hash[c.addr2]
  <2>1. ASSUME Hash[c.addr1] = Hash[c.addr2] PROVE FALSE
    <3>1. Pair(c) = {Hash[c.addr1]}
      BY <2>1, Zenon DEF Pair
    <3>2. Cardinality({Hash[c.addr1]}) = 1
      BY FS_Singleton, Zenon
    <3>3. 1 # 2
      BY SMT
    <3> QED BY <1>2, <3>1, <3>2, <3>3, Zenon
  <2> QED BY <2>1
<1>5. /\ lock' \in [Buckets -> Callers \cup {None}]
      /\ call' \in [Callers -> AllCalls \cup {NoCall}]
  BY <1>1, <1>2, Zenon
<1>6. Held'
  <2>0. AllCalls' = AllCalls
    BY SameCalls, Zenon
  <2> SUFFICES ASSUME NEW b \in Buckets, lock'[b] # None
               PROVE  /\ call'[lock'[b]] \in AllCalls
                      /\ Hash[call'[lock'[b]].addr1] # Hash[call'[lock'[b]].addr2]
                      /\ b = firstLock(call'[lock'[b]])
    BY <2>0, Zenon DEF Held
  <2>1. CASE b = f
    <3>1. lock'[b] = k /\ call'[k] = c
      BY <1>1, <1>2, <1>3, <2>1, Zenon
    <3> QED BY <1>4, <2>1, <3>1, Zenon DEF f
  <2>2. CASE b # f
    <3>1. lock'[b] = lock[b]
      BY <1>1, <1>2, <2>2, Zenon
    <3>2. /\ call[lock[b]] \in AllCalls
          /\ Hash[call[lock[b]].addr1] # Hash[call[lock[b]].addr2]
          /\ b = firstLock(call[lock[b]])
      BY <1>0, <3>1, Zenon DEF Held
    <3>3. call[lock[b]] # NoCall
      BY <1>0, <3>2, CallTypes, Zenon
    <3>4. lock[b] # k /\ lock[b] \in Callers
      BY <1>1, <1>2, <3>1, <3>3, Zenon
    <3>5. call'[lock[b]] = call[lock[b]]
      BY <1>1, <1>2, <3>4, Zenon
    <3> QED BY <3>1, <3>2, <3>5, Zenon
  <2> QED BY <2>1, <2>2
<1>7. PlainWakes'
  <2> SUFFICES ASSUME NEW j \in Callers, call'[j].op = "wake"
               PROVE  \E a \in Addrs : call'[j] = WakeAll(a)
    BY Zenon DEF PlainWakes, WakeAll
  <2>1. c.op # "wake"
    BY <1>0, <1>4, CallTypes, Zenon
  <2>2. call'[j] = call[j]
    BY <1>1, <1>2, <2>1, Zenon
  <2> QED BY <1>0, <2>2, Zenon DEF PlainWakes
<1> QED BY <1>1, <1>2, <1>5, <1>6, <1>7, CallerStep, Zenon

\* A store, and the wake call that is to follow.
LEMMA StoreStep ==
  ASSUME IInv, UNCHANGED load, NEW k \in Callers, NEW a \in Stores, NEW v \in Values, store(k, a, v)
  PROVE  IInv'
<1>0. Held /\ PlainWakes /\ load \in Loads
  BY Zenon DEF IInv, TypeOK
<1>1. /\ word \in [Addrs -> Values]
      /\ lock \in [Buckets -> Callers \cup {None}]
      /\ call \in [Callers -> AllCalls \cup {NoCall}]
  BY Zenon DEF IInv, TypeOK
<1>2. /\ call[k] = NoCall
      /\ word' = [word EXCEPT ![a] = v]
      /\ call' = [call EXCEPT ![k] = WakeAll(a)]
      /\ UNCHANGED <<items, lock, hasWoken, waitVars, signalVars, counted>>
  BY Zenon DEF store
<1>3. word' \in [Addrs -> Values]
  BY <1>1, <1>2, Zenon
<1>4. call' \in [Callers -> AllCalls \cup {NoCall}]
  <2>1. WakeAll(a) \in AllCalls
    BY Zenon DEF AllCalls
  <2> QED BY <1>1, <1>2, <2>1, Zenon
<1>5. Held'
  <2>0. AllCalls' = AllCalls
    BY SameCalls, Zenon
  <2> SUFFICES ASSUME NEW b \in Buckets, lock'[b] # None
               PROVE  /\ call'[lock'[b]] \in AllCalls
                      /\ Hash[call'[lock'[b]].addr1] # Hash[call'[lock'[b]].addr2]
                      /\ b = firstLock(call'[lock'[b]])
    BY <2>0, Zenon DEF Held
  <2>1. /\ call[lock[b]] \in AllCalls
        /\ Hash[call[lock[b]].addr1] # Hash[call[lock[b]].addr2]
        /\ b = firstLock(call[lock[b]])
    BY <1>0, <1>2, Zenon DEF Held
  <2>2. call[lock[b]] # NoCall
    BY <1>0, <2>1, CallTypes, Zenon
  <2>3. lock[b] # k /\ lock[b] \in Callers
    BY <1>1, <1>2, <2>2, Zenon
  <2>4. call'[lock[b]] = call[lock[b]]
    BY <1>1, <1>2, <2>3, Zenon
  <2> QED BY <1>2, <2>1, <2>4, Zenon
<1>6. PlainWakes'
  <2> SUFFICES ASSUME NEW j \in Callers, call'[j].op = "wake"
               PROVE  \E x \in Addrs : call'[j] = WakeAll(x)
    BY Zenon DEF PlainWakes, WakeAll
  <2>1. a \in Addrs
    BY <1>0, FutexAssumption, Zenon DEF Stores
  <2>2. CASE j = k
    <3>1. call'[j] = WakeAll(a)
      BY <1>1, <1>2, <2>2, Zenon
    <3> QED BY <2>1, <3>1, Zenon
  <2>3. CASE j # k
    <3>1. call'[j] = call[j]
      BY <1>1, <1>2, <2>3, Zenon
    <3> QED BY <1>0, <3>1, Zenon DEF PlainWakes
  <2> QED BY <2>2, <2>3
<1> QED BY <1>1, <1>2, <1>3, <1>4, <1>5, <1>6, CallerStep, Zenon

-----------------------------------------------------------------------------
(* How many, and which *)

\* S has at most n members.
Few(S, n) == IsFiniteSet(S) /\ Cardinality(S) <= n

\* The first n of some positions.
FirstOf(P, n) == {i \in P : Rank(P, i) <= n}

\* The first n positions are at most n, and all of them when there are no more.
LEMMA FirstOnes ==
  ASSUME NEW s \in Seq(Item), NEW P \in SUBSET DOMAIN s, NEW n \in Nat
  PROVE  Few(FirstOf(P, n), n) /\ (Cardinality(P) <= n => FirstOf(P, n) = P)
<1> DEFINE F == {i \in P : Rank(P, i) <= n}
           f == [i \in F |-> Rank(P, i)]
<1>1. Len(s) \in Nat /\ P \in SUBSET (1 .. Len(s))
  BY SMT
<1>2. /\ IsFiniteSet(P) /\ Cardinality(P) \in Nat
      /\ \A i \in P : Rank(P, i) \in 1 .. Cardinality(P)
      /\ \A i, j \in P : Rank(P, i) = Rank(P, j) => i = j
  BY <1>1, Ranks, Zenon
<1>3. ASSUME NEW i \in F PROVE i \in P /\ Rank(P, i) \in 1 .. n
  BY <1>2, SMT
<1>4. f \in Injection(F, 1 .. n)
  <2> HIDE DEF F
  <2> QED BY <1>2, <1>3, Zenon DEF Injection, IsInjective
<1>5. IsFiniteSet(1 .. n) /\ Cardinality(1 .. n) = n
  BY FS_Interval, SMT
<1>6. Few(F, n)
  <2> DEFINE R == 1 .. n
  <2>1. f \in Injection(F, R) /\ IsFiniteSet(R) /\ Cardinality(R) = n
    BY <1>4, <1>5, Zenon
  <2> HIDE DEF F, f, R
  <2>2. IsFiniteSet(F) /\ Cardinality(F) <= Cardinality(R)
    BY <2>1, FS_Injection, Zenon
  <2> QED BY <2>1, <2>2, Zenon DEF Few
<1>7. ASSUME Cardinality(P) <= n, NEW i \in P PROVE Rank(P, i) <= n
  BY <1>2, <1>7, SMT
<1>8. Cardinality(P) <= n => F = P
  BY <1>7, Zenon
<1> QED BY <1>6, <1>8, Zenon DEF FirstOf

\* The positions before i that satisfy a test count its rank among them.
LEMMA RankIs ==
  ASSUME NEW s \in Seq(Item), NEW P \in SUBSET DOMAIN s, NEW i \in P
  PROVE  Rank(P, i) = Cardinality({j \in 1 .. i : j \in P})
<1>1. {j \in 1 .. i : j \in P} = {j \in P : j <= i}
  BY SMT
<1> QED BY <1>1, Zenon DEF Rank

\* requeue_items_to_another_bucket extracts at most max items.
LEMMA RequeuedFew ==
  ASSUME NEW s \in Seq(Item), NEW key, NEW max \in Nat
  PROVE  Few(requeued(s, key, max), max)
<1> DEFINE P == {i \in DOMAIN s : match_up(s[i].key, key)}
           F == FirstOf(P, max)
<1>1. ASSUME NEW i \in P
      PROVE  Cardinality({j \in 1 .. i : match_up(s[j].key, key)}) = Rank(P, i)
  <2>1. 1 .. i \subseteq DOMAIN s
    BY SMT
  <2>2. {j \in 1 .. i : match_up(s[j].key, key)} = {j \in 1 .. i : j \in P}
    BY <2>1, Zenon
  <2> HIDE DEF P
  <2>3. P \in SUBSET DOMAIN s
    BY Zenon DEF P
  <2> QED BY <2>2, <2>3, RankIs, Zenon
<1>2. requeued(s, key, max) = F
  <2>1. requeued(s, key, max) =
          {i \in DOMAIN s : /\ match_up(s[i].key, key)
                            /\ Cardinality({j \in 1 .. i : match_up(s[j].key, key)}) <= max}
    BY Zenon DEF requeued, FirstN
  <2> QED BY <1>1, <2>1, Zenon DEF FirstOf
<1>3. P \in SUBSET DOMAIN s
  BY Zenon
<1> HIDE DEF P
<1>4. Few(F, max)
  BY <1>3, FirstOnes, Zenon
<1> HIDE DEF F
<1> QED BY <1>2, <1>4, Zenon

\* update_item_keys tests its count after a change.
AtLeastOne(n) == IF n = 0 THEN 1 ELSE n

\* t differs from s in at most n places.
Near(t, s, n) == \E P : Few(P, n) /\ \A i \in DOMAIN s : i \notin P => t[i] = s[i]

\* It changes at most max of them, or the first one if max is zero.
LEMMA UpdateFew ==
  ASSUME NEW s \in Seq(Item), NEW key, NEW new, NEW max \in Nat
  PROVE  Near(update_item_keys(s, key, new, max), s, AtLeastOne(max))
<1> DEFINE Matches(it) == match_up(it.key, key)
           moved == IF max > 0 THEN FirstN(s, Matches, max)
                    ELSE {i \in DOMAIN s : i = 1 /\ Matches(s[1])}
           t == update_item_keys(s, key, new, max)
<1>1. t = [j \in DOMAIN s |-> IF j \in moved THEN [s[j] EXCEPT !.key = new] ELSE s[j]]
  BY Zenon DEF update_item_keys
<1>2. Few(requeued(s, key, max), max)
  BY RequeuedFew, Zenon
<1>3. CASE max > 0
  <2>1. moved = requeued(s, key, max)
    BY <1>3, Zenon DEF requeued
  <2>2. max # 0
    BY <1>3, SMT
  <2> HIDE DEF moved, t
  <2>3. Few(moved, AtLeastOne(max))
    BY <1>2, <2>1, <2>2, Zenon DEF AtLeastOne
  <2>4. \A i \in DOMAIN s : i \notin moved => t[i] = s[i]
    BY <1>1, Zenon
  <2> QED BY <2>3, <2>4, Zenon DEF t, Near
<1>4. CASE ~(max > 0)
  <2>1. moved \subseteq {1}
    BY <1>4, Zenon
  <2>2. max = 0
    BY <1>4, SMT
  <2> HIDE DEF moved, t
  <2>3. IsFiniteSet({1}) /\ Cardinality({1}) = 1
    BY FS_Singleton, Zenon
  <2>4. Few({1}, 1)
    BY <2>3, SMT DEF Few
  <2>5. \A i \in DOMAIN s : i \notin {1} => t[i] = s[i]
    BY <1>1, <2>1, Zenon
  <2>6. Few({1}, AtLeastOne(max))
    BY <2>2, <2>4, Zenon DEF AtLeastOne
  <2> QED BY <2>5, <2>6, Zenon DEF t, Near
<1> QED BY <1>3, <1>4

\* A wake call that may wake as many as there are waiters wakes all who sleep
\* on its address.
LEMMA AllWoken ==
  ASSUME NEW s, NEW b, Tidy(s, b), NEW a, NEW max \in Nat, Cardinality(Waiters) <= max,
         NEW e \in Entries(s), e.key.addr = a, e.waker # Dead, ~hasWoken[e.waker]
  PROVE  e.waker \in WakenIn(s, [addr |-> a, bitset |-> Bits], max)
<1> DEFINE key == [addr |-> a, bitset |-> Bits]
           Wakes(it) == match_up(it.key, key) /\ it.waker # Dead /\ ~hasWoken[it.waker]
           P == {i \in DOMAIN s : Wakes(s[i])}
<1>1. s \in Seq(Item) /\ Simple(s)
  BY Zenon DEF Tidy
<1>2. ASSUME NEW i \in DOMAIN s PROVE s[i].waker \in Waiters \cup {Dead} /\ s[i].key.bitset \subseteq Bits
  <2>1. s[i] \in Item
    BY <1>1, SMT
  <2> QED BY <2>1, SMT DEF Item, Key
<1>3. PICK p \in DOMAIN s : e = s[p]
  BY Zenon DEF Entries
<1>4. key.addr = a /\ key.bitset = Bits
  BY SMT
<1> HIDE DEF key
<1>5. Wakes(s[p])
  <2>1. e.key.bitset # {} /\ e.key.bitset \subseteq Bits
    BY <1>2, <1>3, Zenon DEF Tidy
  <2> QED BY <1>3, <1>4, <2>1, Zenon DEF match_up
<1>6. WakenIn(s, key, max) = {s[i].waker : i \in FirstN(s, Wakes, max)}
  BY Zenon DEF WakenIn
<1>7. p \in P /\ P \in SUBSET DOMAIN s
  BY <1>5, Zenon
<1>8. ASSUME NEW i \in P PROVE s[i].waker \in Waiters
  BY <1>2, Zenon
<1>9. Cardinality({j \in 1 .. p : Wakes(s[j])}) = Rank(P, p)
  <2>1. 1 .. p \subseteq DOMAIN s
    BY <1>1, SMT
  <2>2. {j \in 1 .. p : Wakes(s[j])} = {j \in 1 .. p : j \in P}
    BY <2>1, Zenon
  <2> HIDE DEF P, Wakes
  <2> QED BY <1>1, <1>7, <2>2, RankIs, Zenon
<1>10. ASSUME Rank(P, p) <= max PROVE p \in FirstN(s, Wakes, max)
  BY <1>5, <1>9, <1>10, Zenon DEF FirstN
<1>11. ASSUME NEW i \in P, NEW j \in P, s[i].waker = s[j].waker PROVE i = j
  BY <1>1, <1>11, Zenon DEF Simple
<1> HIDE DEF P, Wakes
<1>12. Cardinality(P) <= Cardinality(Waiters) /\ IsFiniteSet(P)
  <2> DEFINE f == [i \in P |-> s[i].waker]
  <2>1. f \in Injection(P, Waiters)
    BY <1>8, <1>11, Zenon DEF Injection, IsInjective
  <2> HIDE DEF f
  <2> QED BY <2>1, FutexAssumption, FS_Injection, Zenon
<1>13. Cardinality(P) <= max
  <2>1. Cardinality(P) \in Nat /\ Cardinality(Waiters) \in Nat
    BY <1>12, FutexAssumption, FS_CardinalityType, Zenon
  <2> QED BY <1>12, <2>1, SMT
<1>14. Rank(P, p) <= max
  <2>1. FirstOf(P, max) = P
    BY <1>1, <1>7, <1>13, FirstOnes, Zenon
  <2> QED BY <1>7, <2>1, Zenon DEF FirstOf
<1> QED BY <1>3, <1>6, <1>10, <1>14, Zenon DEF key

\* The entry e is as before the step.
Old(e) == \E b \in Buckets : e \in Entries(items[b])

\* An entry of c.addr1 has been moved to c.addr2; its waker is e's.
MovedBy(c, e) ==
  /\ e.key.addr = c.addr2
  /\ \E o : Old(o) /\ o.waker = e.waker /\ o.key.addr = c.addr1

\* The image of few positions.
LEMMA FewWakers ==
  ASSUME NEW s, NEW P, NEW n \in Nat, Few(P, n)
  PROVE  Few({s[i].waker : i \in P}, n)
<1> DEFINE W == {s[i].waker : i \in P}
           f == [i \in P |-> s[i].waker]
<1>1. f \in Surjection(P, W)
  <2>1. f \in [P -> W]
    BY Zenon
  <2>2. \A w \in W : \E i \in P : f[i] = w
    BY Zenon
  <2> HIDE DEF f, W
  <2> QED BY <2>1, <2>2, Zenon DEF Surjection
<1> HIDE DEF f, W
<1>2. IsFiniteSet(P) /\ Cardinality(P) <= n
  BY Zenon DEF Few
<1>3. IsFiniteSet(W) /\ Cardinality(W) <= Cardinality(P)
  BY <1>1, <1>2, FS_Surjection, Zenon
<1>4. Cardinality(P) \in Nat /\ Cardinality(W) \in Nat
  BY <1>2, <1>3, FS_CardinalityType, Zenon
<1>5. Cardinality(W) <= n
  BY <1>2, <1>3, <1>4, SMT
<1> QED BY <1>3, <1>5, Zenon DEF Few, W

\* What is in the buckets after a requeue: entries that were there, and the
\* moved ones, which are few.
LEMMA RequeueEntries ==
  ASSUME load \in Loads, Once, NEW k \in Callers, NEW c \in AllCalls, futex_requeue(k, c)
  PROVE  \E S : /\ Few(S, MayMove(c))
                /\ \A d \in Buckets : \A e \in Entries(items'[d]) :
                     Old(e) \/ (e.waker \in S /\ MovedBy(c, e))
<1> DEFINE b1 == Hash[c.addr1]
           b2 == Hash[c.addr2]
           key == [addr |-> c.addr1, bitset |-> Bits]
           new == [addr |-> c.addr2, bitset |-> Bits]
           woken == WakenIn(items[b1], key, c.max1)
           left == Without(items[b1], woken)
           out == requeued(left, key, c.max2)
           rest == Pick(left, DOMAIN left \ out)
           moved == withKey(left, out, new)
           last == update_item_keys(left, key, new, c.max2)
<1>1. c.addr1 \in Addrs /\ c.addr2 \in Addrs /\ c.max2 \in Nat
  BY CallTypes, Zenon
<1>2. /\ b1 \in Buckets /\ b2 \in Buckets /\ DOMAIN items = Buckets
      /\ Tidy(items[b1], b1) /\ items[b1] \in Seq(Item) /\ items[b2] \in Seq(Item)
  BY <1>1, Zenon DEF Buckets, Once, Tidy
<1>3. items' = IF b1 = b2 THEN [items EXCEPT ![b1] = last]
               ELSE [items EXCEPT ![b1] = rest, ![b2] = @ \o moved]
  BY Zenon DEF futex_requeue
<1>4. new \in Key /\ new.addr = c.addr2 /\ key.addr = c.addr1
  BY <1>1, SMT DEF Key
<1>5. out \in SUBSET DOMAIN left /\ \A i \in out : match_up(left[i].key, key)
  BY Zenon DEF requeued, FirstN
<1> HIDE DEF b1, b2, key, new, woken
<1>6. left \in Seq(Item) /\ Entries(left) \subseteq Entries(items[b1])
  <2>1. left \in Seq(Item)
    BY <1>2, WithoutKeeps, Zenon
  <2>2. Entries(left) = {e \in Entries(items[b1]) : e.waker \notin woken}
    BY <1>2, WithoutKeeps, Zenon
  <2> HIDE DEF left
  <2> QED BY <2>1, <2>2, Zenon
<1> HIDE DEF left
<1>7. ASSUME NEW e \in Entries(left) PROVE Old(e)
  BY <1>2, <1>6, Zenon DEF Old
<1>8. ASSUME NEW i \in DOMAIN left, match_up(left[i].key, key), NEW e,
             e.key = new, e.waker = left[i].waker
      PROVE  MovedBy(c, e)
  <2>1. left[i] \in Entries(left) /\ left[i].key.addr = c.addr1
    BY <1>4, <1>8, Zenon DEF Entries, match_up
  <2> QED BY <1>4, <1>7, <1>8, <2>1, Zenon DEF MovedBy
<1>9. Few({left[i].waker : i \in out}, c.max2)
  <2>1. Few(out, c.max2)
    BY <1>1, <1>6, RequeuedFew, Zenon
  <2> HIDE DEF out
  <2> QED BY <1>1, <2>1, FewWakers, Zenon
<1>10. CASE b1 # b2
  <2> DEFINE S == {left[i].waker : i \in out}
             R == DOMAIN left \ out
  <2>0. R \in SUBSET DOMAIN left
    BY Zenon
  <2> HIDE DEF out, R
  <2>1. Entries(rest) \subseteq Entries(left)
    <3>1. Entries(Pick(left, R)) = {left[i] : i \in R}
      BY <1>6, <2>0, PickKeeps, Zenon
    <3> QED BY <2>0, <3>1, Zenon DEF Entries, R
  <2>2. moved \in Seq(Item) /\ \A e \in Entries(moved) : e.key = new
    BY <1>4, <1>5, <1>6, WithKeyKeeps, Zenon
  <2>3. Wakers(moved) = {left[i].waker : i \in out}
    BY <1>4, <1>5, <1>6, WithKeyKeeps, Zenon
  <2> HIDE DEF rest, moved
  <2>4. ASSUME NEW e \in Entries(moved) PROVE e.waker \in S /\ MovedBy(c, e)
    <3>1. e.waker \in Wakers(moved)
      BY Zenon DEF Wakers
    <3>2. PICK i \in out : e.waker = left[i].waker
      BY <2>3, <3>1, Zenon
    <3> QED BY <1>5, <1>8, <2>2, <3>2, Zenon
  <2>5. Entries(items[b2] \o moved) = Entries(items[b2]) \cup Entries(moved)
    BY <1>2, <2>2, ConcatKeeps, Zenon
  <2>6. /\ items'[b1] = rest /\ items'[b2] = items[b2] \o moved
        /\ \A d \in Buckets : d # b1 /\ d # b2 => items'[d] = items[d]
    BY <1>2, <1>3, <1>10, Zenon
  <2>7. ASSUME NEW d \in Buckets, NEW e \in Entries(items'[d])
        PROVE  Old(e) \/ (e.waker \in S /\ MovedBy(c, e))
    <3>1. CASE d = b1
      BY <1>7, <2>1, <2>6, <3>1, Zenon
    <3>2. CASE d = b2
      <4>1. e \in Entries(items[b2]) \/ e \in Entries(moved)
        BY <2>5, <2>6, <3>2, Zenon
      <4> QED BY <1>2, <2>4, <4>1, Zenon DEF Old
    <3>3. CASE d # b1 /\ d # b2
      BY <2>6, <3>3, Zenon DEF Old
    <3> QED BY <3>1, <3>2, <3>3, Zenon
  <2>8. MayMove(c) = c.max2
    BY <1>10, Zenon DEF MayMove, b1, b2
  <2>9. Few(S, MayMove(c))
    BY <1>9, <2>8, Zenon
  <2> HIDE DEF S
  <2> QED BY <2>7, <2>9, Zenon
<1>11. CASE b1 = b2
  <2>1. /\ DOMAIN last = DOMAIN left
        /\ \A i \in DOMAIN left : last[i].waker = left[i].waker
        /\ \A i \in DOMAIN left :
             last[i] = left[i] \/ (last[i].key = new /\ match_up(left[i].key, key))
    <3>1. new \in Key
      BY <1>4
    <3> QED BY <1>6, <3>1, UpdateKeeps, SMT
  <2>2. PICK P : /\ Few(P, AtLeastOne(c.max2))
                 /\ \A i \in DOMAIN left : i \notin P => last[i] = left[i]
    <3>1. left \in Seq(Item)
      BY <1>6
    <3>2. c.max2 \in Nat
      BY <1>1
    <3>3. Near(last, left, AtLeastOne(c.max2))
      BY <3>1, <3>2, UpdateFew, Zenon
    <3> HIDE DEF last
    <3> QED BY <3>3, Zenon DEF Near
  <2> DEFINE S == {left[i].waker : i \in P}
  <2> HIDE DEF last, out
  <2>3. items'[b1] = last /\ \A d \in Buckets : d # b1 => items'[d] = items[d]
    BY <1>2, <1>3, <1>11, Zenon
  <2>4. ASSUME NEW i \in DOMAIN left
        PROVE  Old(last[i]) \/ (last[i].waker \in S /\ MovedBy(c, last[i]))
    <3>1. CASE last[i] = left[i]
      BY <1>7, <3>1, Zenon DEF Entries
    <3>2. CASE last[i] # left[i]
      <4>1. MovedBy(c, last[i])
        BY <1>8, <2>1, <3>2, Zenon
      <4>2. last[i].waker = left[i].waker /\ i \in P
        BY <2>1, <2>2, <3>2, Zenon
      <4> QED BY <4>1, <4>2, Zenon
    <3> QED BY <3>1, <3>2
  <2>5. Few(S, MayMove(c))
    <3>1. MayMove(c) = AtLeastOne(c.max2)
      BY <1>11, Zenon DEF MayMove, AtLeastOne, b1, b2
    <3>2. AtLeastOne(c.max2) \in Nat
      BY <1>1, SMT DEF AtLeastOne
    <3> QED BY <2>2, <3>1, <3>2, FewWakers, Zenon
  <2>6. ASSUME NEW d \in Buckets, NEW e \in Entries(items'[d])
        PROVE  Old(e) \/ (e.waker \in S /\ MovedBy(c, e))
    <3> HIDE DEF S
    <3>1. CASE d = b1
      <4>1. PICK i \in DOMAIN left : e = last[i]
        BY <2>1, <2>3, <3>1, Zenon DEF Entries
      <4> QED BY <2>4, <4>1, Zenon
    <3>2. CASE d # b1
      BY <2>3, <3>2, Zenon DEF Old
    <3> QED BY <3>1, <3>2
  <2> HIDE DEF S
  <2> QED BY <2>5, <2>6, Zenon
<1> QED BY <1>10, <1>11

\* Waiters whose items are taken out of s.
LEMMA WithoutEntries ==
  ASSUME NEW s, NEW b, Tidy(s, b), NEW W, NEW e
  PROVE  e \in Entries(Without(s, W)) <=> e \in Entries(s) /\ e.waker \notin W
<1>1. s \in Seq(Item)
  BY Zenon DEF Tidy
<1>2. Entries(Without(s, W)) = {x \in Entries(s) : x.waker \notin W}
  BY <1>1, WithoutKeeps, Zenon
<1> QED BY <1>2, Zenon

\* A waiter that takes its item out leaves the items of all others.
LEMMA RemoveEntries ==
  ASSUME Once, NEW w \in Waiters, expects[w][1] \in Addrs, remove_by_waker(w),
         NEW d \in Buckets, NEW e \in Entries(items'[d]), e.waker # Dead
  PROVE  e \in Entries(items[d]) /\ e.waker # w
<1> DEFINE b == Hash[expects[w][1]]
           rest == IF HasItem(items[b], w) THEN [items EXCEPT ![b] = swap_remove(items[b], w)]
                   ELSE items
<1>1. b \in Buckets /\ DOMAIN items = Buckets /\ items[b] \in Seq(Item) /\ items[d] \in Seq(Item)
  BY Zenon DEF Buckets, Once, Tidy
<1>2. items' = [x \in Buckets |-> Bury(rest[x], w)]
  <2>1. \E answer : Finish(w, answer, rest)
    BY Zenon DEF remove_by_waker
  <2> HIDE DEF rest
  <2> QED BY <2>1, Zenon DEF Finish, Bury
<1> HIDE DEF b
<1>3. rest[d] \in Seq(Item) /\ Entries(rest[d]) \subseteq Entries(items[d])
  <2>1. CASE HasItem(items[b], w) /\ d = b
    <3>1. rest[d] = swap_remove(items[b], w)
      BY <1>1, <2>1, Zenon
    <3>2. /\ swap_remove(items[b], w) \in Seq(Item)
          /\ Entries(swap_remove(items[b], w)) \subseteq Entries(items[b])
      BY <1>1, <2>1, SwapRemoveKeeps, Zenon
    <3> HIDE DEF rest
    <3> QED BY <2>1, <3>1, <3>2, Zenon
  <2>2. CASE ~(HasItem(items[b], w) /\ d = b)
    <3>1. rest[d] = items[d]
      BY <1>1, <2>2, Zenon
    <3> HIDE DEF rest
    <3> QED BY <1>1, <3>1, Zenon
  <2> QED BY <2>1, <2>2, Zenon
<1> HIDE DEF rest
<1>4. items'[d] = Bury(rest[d], w)
  BY <1>2, Zenon
<1>5. PICK i \in DOMAIN rest[d] :
        e = IF rest[d][i].waker = w THEN [rest[d][i] EXCEPT !.waker = Dead] ELSE rest[d][i]
  BY <1>4, Zenon DEF Entries, Bury
<1>6. rest[d][i].waker # w
  <2>1. rest[d][i] \in Item
    BY <1>3, SMT
  <2>2. rest[d][i].waker = w => e.waker = Dead
    BY <1>5, <2>1, SMT DEF Item
  <2> QED BY <2>2, Zenon
<1> QED BY <1>3, <1>5, <1>6, Zenon DEF Entries

-----------------------------------------------------------------------------
(* No missed wake *)

\* The item e is where its wait began, or at an address of higher rank.
Gone(e, rank) ==
  e.waker # Dead => \/ e.key.addr = expects[e.waker][1]
                    \/ rank[expects[e.waker][1]] < rank[e.key.addr]

Onwards ==
  \A rank \in [Addrs -> Nat] : Onward(load, rank) =>
    \A b \in Buckets : \A e \in Entries(items[b]) : Gone(e, rank)

\* The waiter has yet to be woken.
Asleep(w) == ~hasWoken[w] /\ pc[w] \in {"pause", "check", "sleep"}

\* The waiter of e sleeps although its word has changed.
Overdue(e) ==
  /\ e.waker # Dead /\ e.key.addr = expects[e.waker][1] /\ Asleep(e.waker)
  /\ word[e.key.addr] # expects[e.waker][2]

\* A caller is about to wake all who wait at a.
Promised(a) == \E k \in Callers : call[k].op = "wake" /\ call[k].addr1 = a

Heard == \A b \in Buckets : \A e \in Entries(items[b]) : Overdue(e) => Promised(e.key.addr)

\* The conditions under which no wake is missed.
Sound(l) == Heeding(l) /\ Forward(l)

WInv == Onwards /\ (Sound(load) => Heard)

LEMMA HeardIs == Heard => NoMissedWake
<1> SUFFICES ASSUME Heard, NEW b \in Buckets, NEW i \in DOMAIN items[b],
                    items[b][i].waker # Dead,
                    items[b][i].key.addr = expects[items[b][i].waker][1],
                    ~hasWoken[items[b][i].waker],
                    pc[items[b][i].waker] \in {"pause", "check", "sleep"},
                    word[items[b][i].key.addr] # expects[items[b][i].waker][2]
             PROVE  Promised(items[b][i].key.addr)
  BY Zenon DEF NoMissedWake, Promised
<1> DEFINE e == items[b][i]
<1>1. e \in Entries(items[b])
  BY Zenon DEF Entries
<1>2. Overdue(e)
  BY Zenon DEF Overdue, Asleep
<1> HIDE DEF e
<1>3. Promised(e.key.addr)
  BY <1>1, <1>2, Zenon DEF Heard
<1> QED BY <1>3, Zenon DEF e

\* The items of live waiters that a step leaves in place.
LEMMA OnwardsStep ==
  ASSUME Onwards, UNCHANGED load,
         \A d \in Buckets : \A e \in Entries(items'[d]) :
           \/ e.waker = Dead
           \/ e.key.addr = expects'[e.waker][1]
           \/ Old(e) /\ expects'[e.waker] = expects[e.waker]
  PROVE  Onwards'
<1> SUFFICES ASSUME NEW rank \in [Addrs -> Nat], Onward(load', rank),
                    NEW d \in Buckets, NEW e \in Entries(items'[d]), e.waker # Dead,
                    e.key.addr # expects'[e.waker][1]
             PROVE  rank[expects'[e.waker][1]] < rank[e.key.addr]
  BY Zenon DEF Onwards, Gone
<1>1. Old(e) /\ expects'[e.waker] = expects[e.waker]
  BY Zenon
<1>2. Gone(e, rank)
  BY <1>1, Zenon DEF Onwards, Old
<1> QED BY <1>1, <1>2, Zenon DEF Gone

\* The wakes that are promised once a waiter is overdue.
LEMMA HeardStep ==
  ASSUME Heard,
         \A d \in Buckets : \A e \in Entries(items'[d]) : Overdue(e)' =>
           \/ Promised(e.key.addr)'
           \/ /\ Old(e) /\ Overdue(e)
              /\ Promised(e.key.addr) => Promised(e.key.addr)'
  PROVE  Heard'
<1> SUFFICES ASSUME NEW d \in Buckets, NEW e \in Entries(items'[d]), Overdue(e)'
             PROVE  Promised(e.key.addr)'
  BY Zenon DEF Heard
<1>1. Old(e) /\ Overdue(e) => Promised(e.key.addr)
  BY Zenon DEF Heard, Old
<1> QED BY <1>1, Zenon

\* A call that is no wake call begins or ends.
LEMMA PromiseKept ==
  ASSUME call \in [Callers -> AllCalls \cup {NoCall}], NEW k \in Callers, call[k].op # "wake",
         NEW c, call' = [call EXCEPT ![k] = c], NEW a, Promised(a)
  PROVE  Promised(a)'
<1>1. PICK j \in Callers : call[j].op = "wake" /\ call[j].addr1 = a
  BY Zenon DEF Promised
<1>2. j # k
  BY <1>1, Zenon
<1>3. call'[j] = call[j]
  BY <1>2, Zenon
<1> QED BY <1>1, <1>3, Zenon DEF Promised

LEMMA EntryWaker ==
  ASSUME Once, NEW b \in Buckets, NEW e \in Entries(items[b])
  PROVE  e.waker \in Waiters \cup {Dead} /\ e.key.addr \in Addrs /\ Hash[e.key.addr] = b
<1>1. items[b] \in Seq(Item) /\ Hash[e.key.addr] = b
  BY Zenon DEF Once, Tidy
<1>2. PICK i \in DOMAIN items[b] : e = items[b][i]
  BY Zenon DEF Entries
<1>3. e \in Item
  BY <1>1, <1>2, SMT
<1> QED BY <1>1, <1>3, SMT DEF Item, Key

\* Waiters go on, or are woken by timers and signals.
LEMMA QuietWakes ==
  ASSUME WInv, UNCHANGED <<load, word, items, expects, call>>,
         \A w \in Waiters : Asleep(w)' => Asleep(w), IInv
  PROVE  WInv'
<1>1. ASSUME NEW d \in Buckets, NEW e \in Entries(items'[d])
      PROVE  Old(e) /\ e.waker \in Waiters \cup {Dead}
  <2>1. e \in Entries(items[d]) /\ Once
    BY Zenon DEF IInv
  <2> QED BY <2>1, EntryWaker, Zenon DEF Old
<1>2. Onwards'
  BY <1>1, OnwardsStep, Zenon DEF WInv
<1>3. ASSUME NEW d \in Buckets, NEW e \in Entries(items'[d]), Overdue(e)' PROVE Overdue(e)
  BY <1>1, <1>3, Zenon DEF Overdue
<1>4. \A a : Promised(a) => Promised(a)'
  BY Zenon DEF Promised
<1>5. ASSUME Sound(load) PROVE Heard'
  <2>1. Heard
    BY <1>5, Zenon DEF WInv
  <2> QED BY <1>1, <1>3, <1>4, <2>1, HeardStep, Zenon
<1> QED BY <1>2, <1>5, Zenon DEF WInv

\* The steps of a waiter before it takes its item out, its timer and signals.
LEMMA QuietSteps ==
  ASSUME IInv, WInv, UNCHANGED load, NEW u \in Waiters,
         \/ pause_timeout(u) \/ checkPending(u) \/ do_wait(u) \/ pauseEnd(u)
         \/ timerCallback(u) \/ wake_signalled_waker(u) \/ expire(u) \/ enqueue_signal(u)
  PROVE  WInv'
<1>1. DOMAIN pc = Waiters /\ DOMAIN hasWoken = Waiters
  BY Zenon DEF IInv, TypeOK
<1> DEFINE Stays == /\ UNCHANGED <<load, word, items, expects, call>>
                    /\ \A w \in Waiters : Asleep(w)' => Asleep(w)
<1>2. ASSUME pause_timeout(u) PROVE Stays
  <2>1. /\ UNCHANGED <<word, items, expects, call, hasWoken>> /\ pc[u] = "pause"
        /\ \E label : pc' = [pc EXCEPT ![u] = label]
    BY <1>2, Zenon DEF pause_timeout, Goto, At
  <2>2. \A w \in Waiters : w = u \/ pc'[w] = pc[w]
    BY <1>1, <2>1, Zenon
  <2> QED BY <2>1, <2>2, Zenon DEF Asleep
<1>3. ASSUME checkPending(u) PROVE Stays
  <2>1. /\ UNCHANGED <<word, items, expects, call, hasWoken>> /\ pc[u] = "check"
        /\ \E label : pc' = [pc EXCEPT ![u] = label]
    BY <1>3, Zenon DEF checkPending, Goto, At
  <2>2. \A w \in Waiters : w = u \/ pc'[w] = pc[w]
    BY <1>1, <2>1, Zenon
  <2> QED BY <2>1, <2>2, Zenon DEF Asleep
<1>4. ASSUME do_wait(u) \/ pauseEnd(u) PROVE Stays
  <2>1. /\ UNCHANGED <<word, items, expects, call>>
        /\ pc' = [pc EXCEPT ![u] = "woken"] \/ pc' = [pc EXCEPT ![u] = "remove"]
        /\ hasWoken' = hasWoken \/ hasWoken' = [hasWoken EXCEPT ![u] = FALSE]
    BY <1>4, Zenon DEF do_wait, pauseEnd, Goto
  <2>2. \A w \in Waiters : w = u \/ (pc'[w] = pc[w] /\ hasWoken'[w] = hasWoken[w])
    BY <1>1, <2>1, Zenon
  <2>3. pc'[u] \in {"woken", "remove"}
    BY <1>1, <2>1, Zenon
  <2>4. ~Asleep(u)'
    BY <2>3, SMT DEF Asleep
  <2> QED BY <2>1, <2>2, <2>4, Zenon DEF Asleep
<1>5. ASSUME timerCallback(u) \/ wake_signalled_waker(u) PROVE Stays
  <2>1. /\ UNCHANGED <<word, items, expects, call, pc>>
        /\ hasWoken' = hasWoken \/ hasWoken' = [hasWoken EXCEPT ![u] = TRUE]
    BY <1>5, Zenon DEF timerCallback, wake_signalled_waker, waitVars
  <2>2. \A w \in Waiters : hasWoken[w] => hasWoken'[w]
    BY <1>1, <2>1, Zenon
  <2> QED BY <2>1, <2>2, Zenon DEF Asleep
<1>6. ASSUME expire(u) \/ enqueue_signal(u) PROVE Stays
  <2>1. UNCHANGED <<word, items, expects, call, pc, hasWoken>>
    BY <1>6, Zenon DEF expire, enqueue_signal, waitVars
  <2> QED BY <2>1, Zenon DEF Asleep
<1>7. Stays
  BY <1>2, <1>3, <1>4, <1>5, <1>6, Zenon
<1> QED BY <1>7, QuietWakes, Zenon

\* futex_wait_bitset: the word is what the waiter expects.
LEMMA WaitWakes ==
  ASSUME IInv, WInv, UNCHANGED load, NEW w \in Waiters, NEW a \in Addrs, NEW v, NEW bitset,
         futex_wait_bitset(w, a, v, bitset)
  PROVE  WInv'
<1> DEFINE it == [key |-> [addr |-> a, bitset |-> bitset], waker |-> w]
           b == Hash[a]
<1>1. it.key.addr = a /\ it.waker = w
  BY Zenon
<1>2. /\ Once /\ b \in Buckets /\ DOMAIN items = Buckets /\ items[b] \in Seq(Item)
      /\ DOMAIN pc = Waiters /\ DOMAIN hasWoken = Waiters /\ DOMAIN expects = Waiters
  BY Zenon DEF IInv, Once, Tidy, TypeOK, Buckets
<1>3. /\ pc[w] = "run" /\ word[a] = v /\ UNCHANGED <<word, call>>
      /\ items' = [items EXCEPT ![b] = Append(@, it)]
      /\ hasWoken' = [hasWoken EXCEPT ![w] = FALSE]
      /\ expects' = [expects EXCEPT ![w] = <<a, v>>]
      /\ pc' = [pc EXCEPT ![w] = "pause"]
  BY Zenon DEF futex_wait_bitset, Goto, At
<1> HIDE DEF it, b
<1>4. ASSUME NEW d \in Buckets, NEW e \in Entries(items'[d]) PROVE e = it \/ e \in Entries(items[d])
  <2>1. CASE d = b
    <3>1. items'[d] = Append(items[b], it)
      BY <1>2, <1>3, <2>1, Zenon
    <3>2. PICK i \in DOMAIN Append(items[b], it) : e = Append(items[b], it)[i]
      BY <3>1, Zenon DEF Entries
    <3>3. (i \in DOMAIN items[b] /\ e = items[b][i]) \/ e = it
      BY <1>2, <3>2, SMT
    <3> QED BY <2>1, <3>3, Zenon DEF Entries
  <2>2. CASE d # b
    BY <1>2, <1>3, <2>2, Zenon
  <2> QED BY <2>1, <2>2
<1>5. ASSUME NEW d \in Buckets, NEW e \in Entries(items[d]), e.waker # Dead
      PROVE  /\ expects'[e.waker] = expects[e.waker] /\ pc'[e.waker] = pc[e.waker]
             /\ hasWoken'[e.waker] = hasWoken[e.waker]
  <2>1. e.waker \in Waiters
    BY <1>2, <1>5, EntryWaker, Zenon
  <2>2. Queued(e.waker)
    BY Zenon DEF Queued, Wakers
  <2>3. e.waker # w
    BY <1>3, <2>1, <2>2, Zenon DEF IInv, Settled
  <2> QED BY <1>2, <1>3, <2>1, <2>3, Zenon
<1>6. expects'[w] = <<a, v>>
  BY <1>2, <1>3, Zenon
<1>7. expects'[w][1] = a /\ expects'[w][2] = v
  BY <1>6, SMT
<1>8. Onwards'
  <2>1. ASSUME NEW d \in Buckets, NEW e \in Entries(items'[d])
        PROVE  \/ e.waker = Dead
               \/ e.key.addr = expects'[e.waker][1]
               \/ Old(e) /\ expects'[e.waker] = expects[e.waker]
    <3>1. CASE e = it
      BY <1>1, <1>7, <3>1, Zenon
    <3>2. CASE e \in Entries(items[d])
      BY <1>5, <3>2, Zenon DEF Old
    <3> QED BY <1>4, <3>1, <3>2, Zenon
  <2> QED BY <2>1, OnwardsStep, Zenon DEF WInv
<1>9. ASSUME NEW d \in Buckets, NEW e \in Entries(items'[d]), Overdue(e)'
      PROVE  Old(e) /\ Overdue(e)
  <2>1. e # it
    BY <1>1, <1>3, <1>7, <1>9, Zenon DEF Overdue
  <2>2. e \in Entries(items[d]) /\ e.waker # Dead
    BY <1>4, <1>9, <2>1, Zenon DEF Overdue
  <2> QED BY <1>3, <1>5, <1>9, <2>2, Zenon DEF Overdue, Asleep, Old
<1>10. \A x : Promised(x) => Promised(x)'
  BY <1>3, Zenon DEF Promised
<1>11. ASSUME Sound(load) PROVE Heard'
  <2>1. Heard
    BY <1>11, Zenon DEF WInv
  <2> QED BY <1>9, <1>10, <2>1, HeardStep, Zenon
<1> QED BY <1>8, <1>11, Zenon DEF WInv

\* remove_by_waker: the others' items stay.
LEMMA RemoveWakes ==
  ASSUME IInv, WInv, UNCHANGED load, NEW w \in Waiters, remove_by_waker(w), Once'
  PROVE  WInv'
<1>1. /\ Once /\ DOMAIN pc = Waiters /\ DOMAIN hasWoken = Waiters /\ DOMAIN expects = Waiters
  BY Zenon DEF IInv, TypeOK
<1>2. pc[w] = "remove" /\ \E answer, rest : Finish(w, answer, rest)
  BY Zenon DEF remove_by_waker, At
<1>3. /\ UNCHANGED <<word, call>>
      /\ hasWoken' = [hasWoken EXCEPT ![w] = TRUE]
      /\ expects' = [expects EXCEPT ![w] = None]
      /\ pc' = [pc EXCEPT ![w] = "run"]
  BY <1>2, Zenon DEF Finish, Goto
<1>4. expects[w][1] \in Addrs
  <2>1. expects[w] \in Addrs \X Values
    <3>1. pc[w] # "run"
      BY <1>2, Zenon
    <3> QED BY <3>1, Zenon DEF IInv, Settled
  <2> QED BY <2>1, SMT
<1>5. ASSUME NEW d \in Buckets, NEW e \in Entries(items'[d]), e.waker # Dead
      PROVE  /\ Old(e) /\ expects'[e.waker] = expects[e.waker] /\ pc'[e.waker] = pc[e.waker]
             /\ hasWoken'[e.waker] = hasWoken[e.waker]
  <2>1. e \in Entries(items[d]) /\ e.waker # w
    BY <1>1, <1>4, <1>5, RemoveEntries, Zenon
  <2>2. e.waker \in Waiters
    BY <1>1, <1>5, <2>1, EntryWaker, Zenon
  <2> QED BY <1>1, <1>3, <2>1, <2>2, Zenon DEF Old
<1>6. Onwards'
  BY <1>5, OnwardsStep, Zenon DEF WInv
<1>7. ASSUME NEW d \in Buckets, NEW e \in Entries(items'[d]), Overdue(e)'
      PROVE  Old(e) /\ Overdue(e)
  <2>1. e.waker # Dead
    BY <1>7, Zenon DEF Overdue
  <2> QED BY <1>3, <1>5, <1>7, <2>1, Zenon DEF Overdue, Asleep
<1>8. \A x : Promised(x) => Promised(x)'
  BY <1>3, Zenon DEF Promised
<1>9. ASSUME Sound(load) PROVE Heard'
  <2>1. Heard
    BY <1>9, Zenon DEF WInv
  <2> QED BY <1>7, <1>8, <2>1, HeardStep, Zenon
<1> QED BY <1>6, <1>9, Zenon DEF WInv

\* What a call that wakes leaves asleep.
LEMMA StillAsleep ==
  ASSUME NEW woken, Wake(woken), UNCHANGED <<pc, expects>>, NEW e, e.waker \in Waiters, Asleep(e.waker)'
  PROVE  Asleep(e.waker) /\ e.waker \notin woken
<1>1. hasWoken'[e.waker] = (hasWoken[e.waker] \/ e.waker \in woken)
  BY Zenon DEF Wake
<1> QED BY <1>1, Zenon DEF Asleep

\* futex_wake_bitset: the wake that was promised has been made.
LEMMA WakeWakes ==
  ASSUME IInv, WInv, UNCHANGED load, NEW k \in Callers, NEW c \in AllCalls,
         futex_wake_bitset(k, c)
  PROVE  WInv'
<1> DEFINE b == Hash[c.addr1]
           woken == WakenIn(items[b], [addr |-> c.addr1, bitset |-> c.bitset], c.max1)
<1>1. /\ Once /\ load \in Loads /\ call \in [Callers -> AllCalls \cup {NoCall}] /\ PlainWakes
      /\ DOMAIN items = Buckets
  BY Zenon DEF IInv, TypeOK
<1>2. c.addr1 \in Addrs /\ c # NoCall
  BY <1>1, CallTypes, Zenon
<1>3. b \in Buckets /\ Tidy(items[b], b)
  BY <1>1, <1>2, Zenon DEF Buckets, Once
<1>4. /\ c.op = "wake" /\ (call[k] = c \/ call[k] = NoCall)
      /\ items' = [items EXCEPT ![b] = Without(@, woken)]
      /\ Wake(woken) /\ call' = [call EXCEPT ![k] = NoCall]
      /\ UNCHANGED <<word, pc, expects>>
  BY Zenon DEF futex_wake_bitset, Return, Makes, waitVars
<1>5. ASSUME call[k].op = "wake", NEW e \in Entries(items[b]), e.key.addr = c.addr1,
             e.waker # Dead, ~hasWoken[e.waker]
      PROVE  e.waker \in woken
  <2>1. call[k] = c
    <3>1. NoCall.op # "wake"
      BY SMT DEF NoCall
    <3> QED BY <1>4, <1>5, <3>1, Zenon
  <2>2. PICK a \in Addrs : c = WakeAll(a)
    BY <1>1, <1>4, <2>1, Zenon DEF PlainWakes
  <2>3. c.addr1 = a /\ c.bitset = Bits /\ c.max1 = Cardinality(Waiters)
    BY <2>2, SMT DEF WakeAll
  <2>4. Cardinality(Waiters) \in Nat /\ Cardinality(Waiters) <= Cardinality(Waiters)
    <3>1. Cardinality(Waiters) \in Nat
      BY FutexAssumption, FS_CardinalityType, Zenon
    <3> QED BY <3>1, SMT
  <2> HIDE DEF b
  <2>5. e.waker \in WakenIn(items[b], [addr |-> a, bitset |-> Bits], Cardinality(Waiters))
    BY <1>3, <1>5, <2>3, <2>4, AllWoken, Zenon
  <2> QED BY <2>3, <2>5, Zenon
<1> HIDE DEF b, woken
<1>6. ASSUME NEW d \in Buckets, NEW e \in Entries(items'[d])
      PROVE  e \in Entries(items[d]) /\ e.waker \in Waiters \cup {Dead} /\ Hash[e.key.addr] = d
  <2>1. e \in Entries(items[d])
    <3>1. CASE d = b
      <4>1. items'[d] = Without(items[b], woken)
        BY <1>1, <1>4, <3>1, Zenon
      <4>2. e \in Entries(Without(items[b], woken))
        BY <4>1, Zenon
      <4> QED BY <1>3, <3>1, <4>2, WithoutEntries, Zenon
    <3>2. CASE d # b
      BY <1>1, <1>4, <3>2, Zenon
    <3> QED BY <3>1, <3>2
  <2> QED BY <1>1, <2>1, EntryWaker, Zenon
<1>7. Onwards'
  BY <1>4, <1>6, OnwardsStep, Zenon DEF WInv, Old
<1>8. ASSUME NEW d \in Buckets, NEW e \in Entries(items'[d]), Overdue(e)'
      PROVE  /\ Old(e) /\ Overdue(e)
             /\ Promised(e.key.addr) => Promised(e.key.addr)'
  <2>1. e.waker # Dead /\ Asleep(e.waker)'
    BY <1>8, Zenon DEF Overdue
  <2>2. Asleep(e.waker) /\ e.waker \notin woken
    BY <1>4, <1>6, <2>1, StillAsleep, Zenon
  <2>3. Old(e) /\ Overdue(e)
    BY <1>4, <1>6, <1>8, <2>2, Zenon DEF Overdue, Old
  <2>4. ASSUME Promised(e.key.addr) PROVE Promised(e.key.addr)'
    <3>1. PICK j \in Callers : call[j].op = "wake" /\ call[j].addr1 = e.key.addr
      BY <2>4, Zenon DEF Promised
    <3>2. j # k
      <4> SUFFICES ASSUME j = k PROVE FALSE
        OBVIOUS
      <4>1. c.addr1 = e.key.addr
        <5>1. NoCall.op # "wake"
          BY SMT DEF NoCall
        <5> QED BY <1>4, <3>1, <5>1, Zenon
      <4>2. e \in Entries(items[b])
        <5>1. e \in Entries(items[d]) /\ Hash[e.key.addr] = d
          BY <1>6, Zenon
        <5>2. d = b
          BY <4>1, <5>1, Zenon DEF b
        <5> QED BY <5>1, <5>2, Zenon
      <4> QED BY <1>5, <2>1, <2>2, <3>1, <4>1, <4>2, Zenon DEF Asleep
    <3>3. call'[j] = call[j]
      BY <1>1, <1>4, <3>2, Zenon
    <3> QED BY <3>1, <3>3, Zenon DEF Promised
  <2> QED BY <2>3, <2>4
<1>9. ASSUME Sound(load) PROVE Heard'
  <2>1. Heard
    BY <1>9, Zenon DEF WInv
  <2> QED BY <1>8, <2>1, HeardStep, Zenon
<1> QED BY <1>7, <1>9, Zenon DEF WInv

\* futex_wake_op: who waits for a word that it changes is woken.
LEMMA WakeOpWakes ==
  ASSUME IInv, WInv, UNCHANGED load, NEW k \in Callers, NEW c \in AllCalls, futex_wake_op(k, c)
  PROVE  WInv'
<1> DEFINE b1 == Hash[c.addr1]
           b2 == Hash[c.addr2]
           old == word[c.addr2]
           woken1 == WakenIn(items[b1], [addr |-> c.addr1, bitset |-> Bits], c.max1)
           woken2 == IF should_wake(c.wakeOp, old)
                     THEN WakenIn(Without(items[b2], woken1), [addr |-> c.addr2, bitset |-> Bits],
                                  c.max2)
                     ELSE {}
           woken == woken1 \cup woken2
<1>1. /\ Once /\ load \in Loads /\ call \in [Callers -> AllCalls \cup {NoCall}]
      /\ word \in [Addrs -> Values]
  BY Zenon DEF IInv, TypeOK
<1>2. c.addr2 \in Addrs /\ c.max2 \in Nat
  BY <1>1, CallTypes, Zenon
<1>3. b2 \in Buckets /\ Tidy(items[b2], b2) /\ old \in Values
  BY <1>1, <1>2, Zenon DEF Buckets, Once
<1>4. /\ c.op = "wakeOp" /\ (call[k] = c \/ call[k] = NoCall)
      /\ word' = [word EXCEPT ![c.addr2] = calculate_new_val(c.wakeOp, old)]
      /\ items' = [b \in Buckets |-> Without(items[b], woken)]
      /\ Wake(woken) /\ call' = [call EXCEPT ![k] = NoCall]
      /\ UNCHANGED <<pc, expects>>
  BY Zenon DEF futex_wake_op, Return, Makes, waitVars
<1>5. c \in load.calls
  <2>1. ASSUME NEW a \in Stores PROVE WakeAll(a).op = "wake"
    BY SMT DEF WakeAll
  <2>2. c.op # "wake"
    BY <1>4, Zenon
  <2> QED BY <2>1, <2>2, Zenon DEF AllCalls, Calls
<1> HIDE DEF b1, b2, old, woken1
<1>6. ASSUME Heeding(load), calculate_new_val(c.wakeOp, old) # old,
             NEW e \in Entries(items[b2]), e.key.addr = c.addr2,
             e.waker # Dead, ~hasWoken[e.waker]
      PROVE  e.waker \in woken
  <2>1. should_wake(c.wakeOp, old) /\ Cardinality(Waiters) <= c.max2
    BY <1>3, <1>4, <1>5, <1>6, Zenon DEF Heeding
  <2>2. CASE e.waker \notin woken1
    <3>1. e \in Entries(Without(items[b2], woken1))
      BY <1>3, <2>2, WithoutEntries, Zenon
    <3>2. Tidy(Without(items[b2], woken1), b2)
      BY <1>3, WithoutTidy, Zenon
    <3>3. e.waker \in WakenIn(Without(items[b2], woken1), [addr |-> c.addr2, bitset |-> Bits], c.max2)
      BY <1>2, <1>6, <2>1, <3>1, <3>2, AllWoken, Zenon
    <3> QED BY <2>1, <3>3, Zenon
  <2> QED BY <2>2, Zenon
<1> HIDE DEF woken
<1>7. ASSUME NEW d \in Buckets, NEW e \in Entries(items'[d])
      PROVE  e \in Entries(items[d]) /\ e.waker \in Waiters \cup {Dead} /\ Hash[e.key.addr] = d
  <2>1. e \in Entries(Without(items[d], woken)) /\ Tidy(items[d], d)
    BY <1>1, <1>4, Zenon DEF Once
  <2>2. e \in Entries(items[d])
    BY <2>1, WithoutEntries, Zenon
  <2> QED BY <1>1, <2>2, EntryWaker, Zenon
<1>8. Onwards'
  BY <1>4, <1>7, OnwardsStep, Zenon DEF WInv, Old
<1>9. \A a : Promised(a) => Promised(a)'
  <2>1. NoCall.op # "wake"
    BY SMT DEF NoCall
  <2>2. call[k].op # "wake"
    BY <1>4, <2>1, Zenon
  <2> QED BY <1>1, <1>4, <2>2, PromiseKept, Zenon
<1>10. ASSUME Heeding(load), NEW d \in Buckets, NEW e \in Entries(items'[d]), Overdue(e)'
       PROVE  Old(e) /\ Overdue(e)
  <2>1. e.waker # Dead /\ Asleep(e.waker)'
    BY <1>10, Zenon DEF Overdue
  <2>2. e.waker \in Waiters /\ e \in Entries(items[d]) /\ Hash[e.key.addr] = d
    BY <1>7, <2>1, Zenon
  <2>3. Asleep(e.waker) /\ e.waker \notin woken
    BY <1>4, <2>1, <2>2, StillAsleep, Zenon
  <2>4. word'[e.key.addr] = word[e.key.addr]
    <3>1. CASE e.key.addr = c.addr2
      <4>1. d = b2
        BY <2>2, <3>1, Zenon DEF b2
      <4>2. calculate_new_val(c.wakeOp, old) = old
        BY <1>6, <1>10, <2>1, <2>2, <2>3, <3>1, <4>1, Zenon DEF Asleep
      <4>3. word'[c.addr2] = word[c.addr2]
        BY <1>1, <1>2, <1>4, <4>2, Zenon DEF old
      <4> QED BY <3>1, <4>3, Zenon
    <3>2. CASE e.key.addr # c.addr2
      <4>1. e.key.addr \in Addrs
        BY <1>1, <2>2, EntryWaker, Zenon
      <4> QED BY <1>1, <1>2, <1>4, <3>2, <4>1, Zenon
    <3> QED BY <3>1, <3>2
  <2> QED BY <1>4, <1>10, <2>2, <2>3, <2>4, Zenon DEF Overdue, Old
<1>11. ASSUME Sound(load) PROVE Heard'
  <2>1. Heard /\ Heeding(load)
    BY <1>11, Zenon DEF WInv, Sound
  <2> QED BY <1>9, <1>10, <2>1, HeardStep, Zenon
<1> QED BY <1>8, <1>11, Zenon DEF WInv

\* futex_requeue: who is moved is no longer where its wait began.
LEMMA RequeueWakes ==
  ASSUME IInv, WInv, UNCHANGED load, NEW k \in Callers, NEW c \in AllCalls, futex_requeue(k, c),
         Once'
  PROVE  WInv'
<1>1. /\ Once /\ load \in Loads /\ call \in [Callers -> AllCalls \cup {NoCall}]
      /\ expects \in [Waiters -> (Addrs \X Values) \cup {None}]
  BY Zenon DEF IInv, TypeOK
<1>2. c.addr1 \in Addrs /\ c.addr2 \in Addrs
  BY <1>1, CallTypes, Zenon
<1>3. /\ c.op = "requeue" /\ (call[k] = c \/ call[k] = NoCall)
      /\ call' = [call EXCEPT ![k] = NoCall]
      /\ UNCHANGED <<word, pc, expects>>
      /\ \E woken : Wake(woken)
  BY Zenon DEF futex_requeue, Return, Makes, waitVars
<1>4. c \in load.calls
  <2>1. ASSUME NEW a \in Stores PROVE WakeAll(a).op = "wake"
    BY SMT DEF WakeAll
  <2>2. c.op # "wake"
    BY <1>3, Zenon
  <2> QED BY <2>1, <2>2, Zenon DEF AllCalls, Calls
<1>5. \A d \in Buckets : \A e \in Entries(items'[d]) : Old(e) \/ MovedBy(c, e)
  BY <1>1, RequeueEntries, Zenon
<1>6. ASSUME NEW d \in Buckets, NEW e \in Entries(items'[d]) PROVE e.waker \in Waiters \cup {Dead}
  <2>1. items'[d] \in Seq(Item)
    BY Zenon DEF Once, Tidy
  <2>2. PICK i \in DOMAIN items'[d] : e = items'[d][i]
    BY Zenon DEF Entries
  <2>3. e \in Item
    BY <2>1, <2>2, SMT
  <2> QED BY <2>3, SMT DEF Item
<1>7. ASSUME NEW rank \in [Addrs -> Nat], Onward(load, rank),
             NEW d \in Buckets, NEW e \in Entries(items'[d]), e.waker # Dead, MovedBy(c, e)
      PROVE  rank[expects[e.waker][1]] < rank[e.key.addr]
  <2>1. PICK o : Old(o) /\ o.waker = e.waker /\ o.key.addr = c.addr1
    BY <1>7, Zenon DEF MovedBy
  <2>2. Gone(o, rank)
    BY <1>7, <2>1, Zenon DEF WInv, Onwards, Old
  <2>3. c.addr1 = expects[e.waker][1] \/ rank[expects[e.waker][1]] < rank[c.addr1]
    BY <1>7, <2>1, <2>2, Zenon DEF Gone
  <2>4. expects[e.waker][1] \in Addrs
    <3>1. e.waker \in Waiters
      BY <1>6, <1>7, Zenon
    <3>2. Queued(o.waker)
      BY <2>1, Zenon DEF Old, Queued, Wakers
    <3>3. expects[e.waker] \in Addrs \X Values
      BY <2>1, <3>1, <3>2, Zenon DEF IInv, Settled
    <3> QED BY <3>3, SMT
  <2>5. rank[c.addr1] < rank[c.addr2] /\ e.key.addr = c.addr2
    BY <1>3, <1>4, <1>7, Zenon DEF Onward, MovedBy
  <2>6. rank[c.addr1] \in Nat /\ rank[c.addr2] \in Nat /\ rank[expects[e.waker][1]] \in Nat
    BY <1>2, <2>4, Zenon
  <2>7. rank[expects[e.waker][1]] < rank[c.addr2]
    BY <2>3, <2>5, <2>6, SMT
  <2> QED BY <2>5, <2>7, Zenon
<1>8. Onwards'
  <2> SUFFICES ASSUME NEW rank \in [Addrs -> Nat], Onward(load, rank),
                      NEW d \in Buckets, NEW e \in Entries(items'[d]), e.waker # Dead
               PROVE  \/ e.key.addr = expects[e.waker][1]
                      \/ rank[expects[e.waker][1]] < rank[e.key.addr]
    BY <1>3, Zenon DEF Onwards, Gone
  <2>1. CASE Old(e)
    BY <2>1, Zenon DEF WInv, Onwards, Old, Gone
  <2>2. CASE MovedBy(c, e)
    BY <1>7, <2>2, Zenon
  <2> QED BY <1>5, <2>1, <2>2, Zenon
<1>9. \A a : Promised(a) => Promised(a)'
  <2>1. NoCall.op # "wake"
    BY SMT DEF NoCall
  <2>2. call[k].op # "wake"
    BY <1>3, <2>1, Zenon
  <2> QED BY <1>1, <1>3, <2>2, PromiseKept, Zenon
<1>10. ASSUME Forward(load), NEW d \in Buckets, NEW e \in Entries(items'[d]), Overdue(e)'
       PROVE  Old(e) /\ Overdue(e)
  <2>1. e.waker # Dead /\ Asleep(e.waker)' /\ e.key.addr = expects[e.waker][1]
    BY <1>3, <1>10, Zenon DEF Overdue
  <2>2. Asleep(e.waker)
    BY <1>3, <1>6, <2>1, StillAsleep, Zenon
  <2>3. ~MovedBy(c, e)
    <3> SUFFICES ASSUME MovedBy(c, e) PROVE FALSE
      OBVIOUS
    <3>1. PICK rank \in [Addrs -> Nat] : Onward(load, rank)
      BY <1>10, Zenon DEF Forward
    <3>2. rank[e.key.addr] < rank[e.key.addr]
      BY <1>7, <2>1, <3>1, Zenon
    <3>3. rank[e.key.addr] \in Nat
      BY <1>2, <3>1, Zenon DEF MovedBy
    <3> QED BY <3>2, <3>3, SMT
  <2> QED BY <1>3, <1>5, <1>10, <2>2, <2>3, Zenon DEF Overdue
<1>11. ASSUME Sound(load) PROVE Heard'
  <2>1. Heard /\ Forward(load)
    BY <1>11, Zenon DEF WInv, Sound
  <2> QED BY <1>9, <1>10, <2>1, HeardStep, Zenon
<1> QED BY <1>8, <1>11, Zenon DEF WInv

\* lock_bucket_pairs.
LEMMA LockWakes ==
  ASSUME IInv, WInv, UNCHANGED load, NEW k \in Callers, NEW c \in AllCalls,
         lock_bucket_pairs(k, c)
  PROVE  WInv'
<1>1. call \in [Callers -> AllCalls \cup {NoCall}]
  BY Zenon DEF IInv, TypeOK
<1>2. /\ call[k] = NoCall /\ call' = [call EXCEPT ![k] = c]
      /\ UNCHANGED <<word, items, hasWoken, pc, expects>>
  BY Zenon DEF lock_bucket_pairs, waitVars
<1>3. \A a : Promised(a) => Promised(a)'
  <2>1. call[k].op # "wake"
    BY <1>2, SMT DEF NoCall
  <2> QED BY <1>1, <1>2, <2>1, PromiseKept, Zenon
<1>4. Onwards'
  BY <1>2, OnwardsStep, Zenon DEF WInv, Old
<1>5. ASSUME NEW d \in Buckets, NEW e \in Entries(items'[d]), Overdue(e)'
      PROVE  Old(e) /\ Overdue(e)
  BY <1>2, <1>5, Zenon DEF Overdue, Asleep, Old
<1>6. ASSUME Sound(load) PROVE Heard'
  <2>1. Heard
    BY <1>6, Zenon DEF WInv
  <2> QED BY <1>3, <1>5, <2>1, HeardStep, Zenon
<1> QED BY <1>4, <1>6, Zenon DEF WInv

\* A store promises a wake.
LEMMA StoreWakes ==
  ASSUME IInv, WInv, UNCHANGED load, NEW k \in Callers, NEW a \in Stores, NEW v, store(k, a, v)
  PROVE  WInv'
<1>1. /\ call \in [Callers -> AllCalls \cup {NoCall}] /\ word \in [Addrs -> Values] /\ Once
      /\ a \in Addrs
  BY FutexAssumption, Zenon DEF IInv, TypeOK, Stores
<1>2. /\ call[k] = NoCall /\ call' = [call EXCEPT ![k] = WakeAll(a)]
      /\ word' = [word EXCEPT ![a] = v]
      /\ UNCHANGED <<items, hasWoken, pc, expects>>
  BY Zenon DEF store, waitVars
<1>3. \A x : Promised(x) => Promised(x)'
  <2>1. call[k].op # "wake"
    BY <1>2, SMT DEF NoCall
  <2> QED BY <1>1, <1>2, <2>1, PromiseKept, Zenon
<1>4. Promised(a)'
  <2>1. call'[k] = WakeAll(a)
    BY <1>1, <1>2, Zenon
  <2>2. call'[k].op = "wake" /\ call'[k].addr1 = a
    BY <2>1, SMT DEF WakeAll
  <2> QED BY <2>2, Zenon DEF Promised
<1>5. Onwards'
  BY <1>2, OnwardsStep, Zenon DEF WInv, Old
<1>6. ASSUME NEW d \in Buckets, NEW e \in Entries(items'[d]), Overdue(e)', e.key.addr # a
      PROVE  Old(e) /\ Overdue(e)
  <2>1. e \in Entries(items[d])
    BY <1>2, Zenon
  <2>2. e.key.addr \in Addrs
    BY <1>1, <2>1, EntryWaker, Zenon
  <2>3. word'[e.key.addr] = word[e.key.addr]
    BY <1>1, <1>2, <1>6, <2>2, Zenon
  <2> QED BY <1>2, <1>6, <2>1, <2>3, Zenon DEF Overdue, Asleep, Old
<1>7. ASSUME Sound(load) PROVE Heard'
  <2>1. Heard
    BY <1>7, Zenon DEF WInv
  <2> QED BY <1>3, <1>4, <1>6, <2>1, HeardStep, Zenon
<1> QED BY <1>5, <1>7, Zenon DEF WInv

-----------------------------------------------------------------------------
(* The theorems *)

LEMMA Initial == Init => IInv
<1> SUFFICES ASSUME Init PROVE IInv
  OBVIOUS
<1> USE DEF Init
<1>1. /\ load \in Loads /\ \A w \in Waiters : pc[w] = "run" /\ counted[w] = 1 /\ returned[w] = "ok"
      /\ timer = [w \in Waiters |-> "none"] /\ pending = [w \in Waiters |-> FALSE]
      /\ waking = [w \in Waiters |-> FALSE]
  BY Zenon
<1>2. ASSUME NEW b \in Buckets PROVE items[b] = <<>> /\ Tidy(items[b], b) /\ Wakers(items[b]) = {}
  <2>1. items[b] = <<>>
    BY Zenon
  <2>2. <<>> \in Seq(Item) /\ DOMAIN <<>> = {}
    BY SMT
  <2>3. Entries(<<>>) = {}
    BY <2>2, Zenon DEF Entries
  <2>4. Simple(<<>>)
    BY <2>2, Zenon DEF Simple
  <2> QED BY <2>1, <2>2, <2>3, <2>4, Zenon DEF Tidy, Wakers
<1>3. Once
  <2>1. items = [b \in Buckets |-> items[b]]
    BY Zenon
  <2> QED BY <1>2, <2>1, Zenon DEF Once
<1>4. \A x : ~Queued(x)
  BY <1>2, Zenon DEF Queued
<1>5. TypeOK
  <2>1. word \in [Addrs -> Values]
    BY Zenon DEF Values
  <2>2. items \in [Buckets -> Seq(Item)]
    BY <1>3, Zenon DEF Once, Tidy
  <2>3. counted \in [Waiters -> Nat]
    BY SMT
  <2>4. /\ pc \in [Waiters -> {"run", "pause", "check", "sleep", "woken", "remove"}]
        /\ timer \in [Waiters -> {"none", "armed", "expired", "fired"}]
        /\ result \in [Waiters -> {"ok", "ETIME", "EINTR"}]
        /\ returned \in [Waiters -> {"ok", "ETIME", "EINTR"}]
    BY Zenon
  <2>5. /\ hasWoken \in [Waiters -> BOOLEAN]
        /\ pending \in [Waiters -> BOOLEAN] /\ waking \in [Waiters -> BOOLEAN]
    BY Zenon
  <2>6. /\ lock \in [Buckets -> Callers \cup {None}]
        /\ call \in [Callers -> AllCalls \cup {NoCall}]
        /\ expects \in [Waiters -> (Addrs \X Values) \cup {None}]
    BY Zenon
  <2> HIDE DEF Init
  <2> QED BY <1>1, <2>1, <2>2, <2>3, <2>4, <2>5, <2>6, Zenon DEF TypeOK
<1>6. Settled
  <2>1. 1 \in {0, 1} /\ 1 # 0
    BY SMT
  <2> QED BY <1>1, <1>4, <2>1, Zenon DEF Settled
<1>7. Held
  BY Zenon DEF Held
<1>8. PlainWakes
  <2>1. NoCall.op # "wake"
    BY SMT DEF NoCall
  <2> QED BY <2>1, Zenon DEF PlainWakes
<1>9. AtHome /\ Calm /\ Clean
  BY <1>1, <1>2, <1>4, Zenon DEF AtHome, Calm, Clean
<1> QED BY <1>3, <1>5, <1>6, <1>7, <1>8, <1>9, Zenon DEF IInv

LEMMA Inductive == IInv /\ [Next]_vars => IInv'
<1> SUFFICES ASSUME IInv, [Next]_vars PROVE IInv'
  OBVIOUS
<1>0. load \in Loads
  BY Zenon DEF IInv, TypeOK
<1>1. CASE UNCHANGED vars
  <2>1. /\ UNCHANGED <<load, word, items, lock, hasWoken, pending, waking, call, counted>>
        /\ UNCHANGED <<pc, timer, result, returned, expects>>
    BY <1>1, Zenon DEF vars, waitVars, signalVars
  <2>2. Calm'
    BY <2>1, Zenon DEF IInv, Calm
  <2> QED BY <2>1, <2>2, PauseTypes, QuietStep, Zenon
<1>2. CASE Next
  <2>1. UNCHANGED load
    BY <1>2, Zenon DEF Next
  <2>2. ASSUME NEW w \in Waiters, WaiterStep(w) \/ expire(w) \/ enqueue_signal(w) PROVE IInv'
    BY <2>1, <2>2, PauseStep, CheckStep, DoWaitStep, PauseEndStep, RemoveStep, AlarmStep, Zenon
       DEF WaiterStep
  <2>3. ASSUME NEW wait \in Waits, NEW v \in Values,
               futex_wait_bitset(wait[1], wait[2], v, wait[3])
        PROVE  IInv'
    <3>1. wait \in Waiters \X Addrs \X ((SUBSET Bits) \ {{}})
      BY <1>0, FutexAssumption, Zenon DEF Waits
    <3>2. wait[1] \in Waiters /\ wait[2] \in Addrs /\ wait[3] \in SUBSET Bits /\ wait[3] # {}
      BY <3>1, SMT
    <3> QED BY <2>1, <2>3, <3>2, WaitStep, Zenon
  <2>4. ASSUME NEW k \in Callers, NEW c \in AllCalls, lock_bucket_pairs(k, c) \/ Run(k, c)
        PROVE  IInv'
    BY <2>1, <2>4, LockStep, RunStep, Zenon
  <2>5. ASSUME NEW k \in Callers, NEW a \in Stores, NEW v \in Values, store(k, a, v) PROVE IInv'
    BY <2>1, <2>5, StoreStep, Zenon
  <2> QED BY <1>2, <2>2, <2>3, <2>4, <2>5, Zenon DEF Next
<1> QED BY <1>1, <1>2, Zenon

LEMMA Invariance == Spec => []IInv
BY Initial, Inductive, PTL DEF Spec

\* NoCircularWait: of the buckets of its pair, a caller holds only the lower one
\* while it waits, so two callers that wait for each other's would hold the same.
THEOREM NoDeadlock == Spec => []NoCircularWait
<1>1. IInv => NoCircularWait
  <2> SUFFICES ASSUME IInv, NEW k1 \in Callers, NEW k2 \in Callers,
                      call[k1] # NoCall, call[k2] # NoCall,
                      NEW b1 \in Pair(call[k2]), NEW b2 \in Pair(call[k1]),
                      lock[b1] = k1, lock[b2] = k2
               PROVE  k1 = k2
    BY Zenon DEF NoCircularWait
  <2>1. /\ Held /\ load \in Loads /\ call \in [Callers -> AllCalls \cup {NoCall}]
        /\ k1 # None /\ k2 # None
    BY FutexAssumption, Zenon DEF IInv, TypeOK
  <2>2. call[k1] \in AllCalls /\ call[k2] \in AllCalls
    BY <2>1, Zenon
  <2>3. /\ Pair(call[k2]) \subseteq Buckets /\ Buckets \subseteq Nat
        /\ \A d \in Pair(call[k2]) : firstLock(call[k2]) <= d
    BY <2>1, <2>2, FirstLockIs, Zenon
  <2>4. Pair(call[k1]) \subseteq Buckets /\ \A d \in Pair(call[k1]) : firstLock(call[k1]) <= d
    BY <2>1, <2>2, FirstLockIs, Zenon
  <2>5. b1 = firstLock(call[k1]) /\ b2 = firstLock(call[k2])
    BY <2>1, <2>3, <2>4, Zenon DEF Held
  <2>6. b1 <= b2 /\ b2 <= b1 /\ b1 \in Nat /\ b2 \in Nat
    BY <2>3, <2>4, <2>5, Zenon
  <2>7. b1 = b2
    BY <2>6, SMT
  <2> QED BY <2>7, Zenon
<1> QED BY <1>1, Invariance, PTL

\* Findable: the types hold, and an item is in the bucket of its key, where
\* futex_wake looks for it, also after any number of requeues.
THEOREM ItemsFindable == Spec => []Findable
<1>1. IInv => Findable
  <2> SUFFICES ASSUME IInv, NEW b \in Buckets, NEW i \in DOMAIN items[b]
               PROVE  Hash[items[b][i].key.addr] = b
    BY Zenon DEF Findable, IInv
  <2>1. Tidy(items[b], b)
    BY Zenon DEF IInv, Once
  <2>2. items[b][i] \in Entries(items[b])
    BY Zenon DEF Entries
  <2> QED BY <2>1, <2>2, Zenon DEF Tidy
<1> QED BY <1>1, Invariance, PTL

\* SuccessIffWoken: futex_wait_bitset reports success exactly if one wake call
\* has counted it, where no requeue moves a waiter to another bucket or no
\* waiter has a timeout or signals.
THEOREM AnswersTrue == Spec => [](Tame(load) => SuccessIffWoken)
<1>1. IInv => (Tame(load) => SuccessIffWoken)
  <2> SUFFICES ASSUME IInv, Tame(load), NEW w \in Waiters
               PROVE  counted[w] <= 1 /\ (At(w, "run") => (returned[w] = "ok" <=> counted[w] = 1))
    BY Zenon DEF SuccessIffWoken
  <2>1. counted[w] \in {0, 1}
    BY Zenon DEF IInv, Settled
  <2>2. counted[w] <= 1
    BY <2>1, SMT
  <2>3. pc[w] = "run" => (returned[w] = "ok" <=> counted[w] = 1)
    BY Zenon DEF IInv, Settled, Clean
  <2> QED BY <2>2, <2>3, Zenon DEF At
<1> QED BY <1>1, Invariance, PTL

\* Also with such moves a wait is counted once, and one that has been counted
\* returns success.
THEOREM CountedOnce ==
  Spec => [](\A w \in Waiters : /\ counted[w] <= 1
                                /\ At(w, "run") /\ counted[w] = 1 => returned[w] = "ok")
<1> DEFINE P == \A w \in Waiters : /\ counted[w] <= 1
                                   /\ At(w, "run") /\ counted[w] = 1 => returned[w] = "ok"
<1>1. IInv => P
  <2> SUFFICES ASSUME IInv, NEW w \in Waiters
               PROVE  counted[w] <= 1 /\ (At(w, "run") /\ counted[w] = 1 => returned[w] = "ok")
    BY Zenon
  <2>1. counted[w] \in {0, 1}
    BY Zenon DEF IInv, Settled
  <2>2. counted[w] <= 1
    BY <2>1, SMT
  <2> QED BY <2>2, Zenon DEF At, IInv, Settled
<1> HIDE DEF P
<1>2. Spec => []P
  BY <1>1, Invariance, PTL
<1> QED BY <1>2 DEF P

\* NoStaleItems: under the same condition no FutexItem outlives its wait, since
\* a wake call or the waiter itself takes it out of its bucket.
THEOREM ItemsDropped == Spec => [](Tame(load) => NoStaleItems)
<1>1. IInv => (Tame(load) => NoStaleItems)
  <2> SUFFICES ASSUME IInv, Tame(load), NEW b \in Buckets, NEW i \in DOMAIN items[b],
                      items[b][i].waker = Dead
               PROVE  FALSE
    BY Zenon DEF NoStaleItems
  <2>1. Dead \in Wakers(items[b])
    BY WakersAre, Zenon
  <2> QED BY <2>1, Zenon DEF IInv, Clean, Queued
<1> QED BY <1>1, Invariance, PTL

LEMMA WakesInitial == Init => WInv
<1> SUFFICES ASSUME Init PROVE WInv
  OBVIOUS
<1>1. ASSUME NEW b \in Buckets PROVE Entries(items[b]) = {}
  <2>1. items[b] = <<>>
    BY Zenon DEF Init
  <2>2. DOMAIN items[b] = {}
    BY <2>1, SMT
  <2> QED BY <2>2, Zenon DEF Entries
<1> QED BY <1>1, Zenon DEF WInv, Onwards, Heard

LEMMA WakesKept == IInv /\ IInv' /\ WInv /\ [Next]_vars => WInv'
<1> SUFFICES ASSUME IInv, IInv', WInv, [Next]_vars PROVE WInv'
  OBVIOUS
<1>0. load \in Loads /\ Once'
  BY Zenon DEF IInv, TypeOK
<1>1. CASE UNCHANGED vars
  <2>1. UNCHANGED <<load, word, items, expects, call, hasWoken, pc>>
    BY <1>1, Zenon DEF vars, waitVars
  <2>2. \A w \in Waiters : Asleep(w)' => Asleep(w)
    BY <2>1, Zenon DEF Asleep
  <2> QED BY <2>1, <2>2, QuietWakes, Zenon
<1>2. CASE Next
  <2>1. UNCHANGED load
    BY <1>2, Zenon DEF Next
  <2>2. ASSUME NEW w \in Waiters, WaiterStep(w) \/ expire(w) \/ enqueue_signal(w) PROVE WInv'
    BY <1>0, <2>1, <2>2, QuietSteps, RemoveWakes, Zenon DEF WaiterStep
  <2>3. ASSUME NEW wait \in Waits, NEW v \in Values,
               futex_wait_bitset(wait[1], wait[2], v, wait[3])
        PROVE  WInv'
    <3>1. wait \in Waiters \X Addrs \X ((SUBSET Bits) \ {{}})
      BY <1>0, FutexAssumption, Zenon DEF Waits
    <3>2. wait[1] \in Waiters /\ wait[2] \in Addrs
      BY <3>1, SMT
    <3> QED BY <2>1, <2>3, <3>2, WaitWakes, Zenon
  <2>4. ASSUME NEW k \in Callers, NEW c \in AllCalls, lock_bucket_pairs(k, c) \/ Run(k, c)
        PROVE  WInv'
    BY <1>0, <2>1, <2>4, LockWakes, WakeWakes, RequeueWakes, WakeOpWakes, Zenon DEF Run
  <2>5. ASSUME NEW k \in Callers, NEW a \in Stores, NEW v \in Values, store(k, a, v) PROVE WInv'
    BY <2>1, <2>5, StoreWakes, Zenon
  <2> QED BY <1>2, <2>2, <2>3, <2>4, <2>5, Zenon DEF Next
<1> QED BY <1>1, <1>2, Zenon

\* NoMissedWake: a waiter whose word has changed is woken by who changed it,
\* where every FUTEX_WAKE_OP that changes a word wakes those who wait for it, and
\* no waiter is moved back to an address it has been moved away from.
THEOREM WakesHeard == Spec => [](Heeding(load) /\ Forward(load) => NoMissedWake)
<1>1. WInv => (Heeding(load) /\ Forward(load) => NoMissedWake)
  BY HeardIs, Zenon DEF WInv, Sound
<1> QED BY <1>1, WakesInitial, WakesKept, Invariance, PTL DEF Spec

\* RequeueAtMost: futex_requeue moves no more waiters than max_nrequeues, or one
\* where it is zero and update_item_keys does the work.
THEOREM FewMoved == Spec => RequeueAtMost
<1> DEFINE A == \A k \in Callers, c \in Calls :
                  futex_requeue(k, c) =>
                    \A a \in {c.addr2} : Cardinality(WaitingAt(a)' \ WaitingAt(a)) <= MayMove(c)
<1>1. ASSUME IInv, NEW k \in Callers, NEW c \in Calls, futex_requeue(k, c)
      PROVE  Cardinality(WaitingAt(c.addr2)' \ WaitingAt(c.addr2)) <= MayMove(c)
  <2> DEFINE came == WaitingAt(c.addr2)' \ WaitingAt(c.addr2)
  <2>1. load \in Loads /\ Once /\ c \in AllCalls
    BY <1>1, Zenon DEF IInv, TypeOK, AllCalls
  <2>2. MayMove(c) \in Nat
    <3>1. c.max2 \in Nat
      BY <2>1, CallTypes, Zenon
    <3> QED BY <3>1, SMT DEF MayMove
  <2>3. PICK S : /\ Few(S, MayMove(c))
                 /\ \A d \in Buckets : \A e \in Entries(items'[d]) :
                      Old(e) \/ (e.waker \in S /\ MovedBy(c, e))
    BY <1>1, <2>1, RequeueEntries, Zenon
  <2>4. ASSUME NEW w \in came PROVE w \in S
    <3>1. PICK b \in Buckets : \E i \in DOMAIN items'[b] :
            items'[b][i].waker = w /\ items'[b][i].key.addr = c.addr2
      BY Zenon DEF WaitingAt
    <3>2. PICK e \in Entries(items'[b]) : e.waker = w /\ e.key.addr = c.addr2
      BY <3>1, Zenon DEF Entries
    <3>3. ~Old(e)
      BY <3>2, Zenon DEF Old, Entries, WaitingAt
    <3> QED BY <2>3, <3>2, <3>3, Zenon
  <2> HIDE DEF came
  <2>5. came \subseteq S /\ IsFiniteSet(S) /\ Cardinality(S) <= MayMove(c)
    BY <2>3, <2>4, Zenon DEF Few
  <2>6. IsFiniteSet(came) /\ Cardinality(came) <= Cardinality(S)
    BY <2>5, FS_Subset, Zenon
  <2>7. Cardinality(S) \in Nat /\ Cardinality(came) \in Nat
    BY <2>5, <2>6, FS_CardinalityType, Zenon
  <2>8. Cardinality(came) <= MayMove(c)
    BY <2>2, <2>5, <2>6, <2>7, SMT
  <2> QED BY <2>8, Zenon DEF came
<1>2. IInv => A
  BY <1>1, Zenon
<1> HIDE DEF A
<1>3. Spec => [][A]_vars
  BY <1>2, Invariance, PTL
<1> QED BY <1>3, Zenon DEF A, RequeueAtMost
=============================================================================
