------------------------------ MODULE MCEpoll ------------------------------
(* Instances of Epoll for TLC. *)
EXTENDS Epoll, TLC

CONSTANTS f1, e1, e2, d1, c1, w1, w2, self

MCTasks == {d1, c1, w1, w2}
MCPollees == {f1, self}

\* One entry and one waiter through several changes; two waiters; two entries.
MCBounds ==
  {[waiters |-> {w1}, entries |-> {e1}, modes |-> Modes, changes |-> 2, controls |-> 2],
   [waiters |-> {w1, w2}, entries |-> {e1}, modes |-> {"level"}, changes |-> 1, controls |-> 1],
   [waiters |-> {w1}, entries |-> {e1, e2}, modes |-> {"level"}, changes |-> 1, controls |-> 2]}
=============================================================================
