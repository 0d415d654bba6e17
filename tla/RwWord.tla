------------------------------- MODULE RwWord -------------------------------
(***************************************************************************)
(* The lock word shared by RwLock and RwMutex (ostd/src/sync/rwlock.rs and *)
(* rwmutex.rs), and the atomic operations they apply to it.                *)
(*                                                                         *)
(* w, u and b are the bits WRITER, UPGRADEABLE_READER and BEING_UPGRADED;  *)
(* r is the reader count of bits 60-0, whose top bit is MAX_READER.        *)
(***************************************************************************)
EXTENDS Naturals

CONSTANT MaxReader

ASSUME MaxReaderAssumption == MaxReader \in Nat \ {0}

Word == [w : BOOLEAN, u : BOOLEAN, b : BOOLEAN, r : Nat]

Free == [w |-> FALSE, u |-> FALSE, b |-> FALSE, r |-> 0]

Kinds == {"read", "write", "upread"}

\* Mutant: try_read does not test MAX_READER.
GrantsUncapped(x, k) ==
  CASE k = "read"   -> ~x.w /\ ~x.b
    [] k = "write"  -> x = Free
    [] k = "upread" -> ~x.w /\ ~x.u

\* Mutant: try_read does not test BEING_UPGRADED.
GrantsInUpgrade(x, k) ==
  CASE k = "read"   -> ~x.w /\ x.r < MaxReader
    [] k = "write"  -> x = Free
    [] k = "upread" -> ~x.w /\ ~x.u

\* Mutant: try_upread does not test UPGRADEABLE_READER.
GrantsSecondUpread(x, k) ==
  CASE k = "read"   -> ~x.w /\ ~x.b /\ x.r < MaxReader
    [] k = "write"  -> x = Free
    [] k = "upread" -> ~x.w

\* Whether try_read, try_write or try_upread returns a guard when its first
\* atomic operation finds the word x.
Grants(x, k) ==
  CASE k = "read"   -> ~x.w /\ ~x.b /\ x.r < MaxReader
    [] k = "write"  -> x = Free
    [] k = "upread" -> ~x.w /\ ~x.u

\* The word that first operation leaves: fetch_add, compare_exchange, fetch_or.
After(x, k) ==
  CASE k = "read"   -> [x EXCEPT !.r = @ + 1]
    [] k = "write"  -> IF x = Free THEN [x EXCEPT !.w = TRUE] ELSE x
    [] k = "upread" -> [x EXCEPT !.u = TRUE]

\* Mutant: try_upread takes its bit back whenever it sees a writer.
UndoesAny(x, k) == k = "read" \/ (k = "upread" /\ x.w)

\* Whether an attempt that failed has to take its change back.
Undoes(x, k) == k = "read" \/ (k = "upread" /\ x.w /\ ~x.u)

\* fetch_sub(READER) and fetch_sub(UPGRADEABLE_READER).  Subtracting bit 62
\* when it is clear borrows from bit 63.
SubReader(x) == [x EXCEPT !.r = @ - 1]

SubUpread(x) == [x EXCEPT !.u = ~@, !.w = IF x.u THEN @ ELSE ~@]

\* What a failed attempt takes back.
Undo(x, k) == IF k = "read" THEN SubReader(x) ELSE SubUpread(x)

\* fetch_or(BEING_UPGRADED) and fetch_and(!WRITER).
SetBeing(x) == [x EXCEPT !.b = TRUE]

ClearWriter(x) == [x EXCEPT !.w = FALSE]

\* The operands of the compare_exchange of try_upgrade and try_downgrade.
Upgrading   == [Free EXCEPT !.u = TRUE, !.b = TRUE]
Upgraded    == [Free EXCEPT !.u = TRUE, !.w = TRUE]
Written     == [Free EXCEPT !.w = TRUE]
Downgraded  == [Free EXCEPT !.u = TRUE]
=============================================================================
