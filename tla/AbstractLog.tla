---------------------------- MODULE AbstractLog ----------------------------
(***************************************************************************)
(* What mlsdisk's EditJournal promises about the order of edit groups: a   *)
(* log that commits append to, and of which a crash keeps some prefix, as  *)
(* the "Atomicity" section of its documentation says: a group is there as  *)
(* a whole or not at all, and never without the groups before it.          *)
(***************************************************************************)
EXTENDS Naturals, Sequences

CONSTANT Groups
VARIABLE log

Init == log = <<>>

Commit(g) == log' = Append(log, g)

Crash(n) == log' = SubSeq(log, 1, n)

Next ==
  \/ \E g \in Groups : Commit(g)
  \/ \E n \in 0 .. Len(log) : Crash(n)

Spec == Init /\ [][Next]_log
=============================================================================
