------------------------------ MODULE Pollee ------------------------------
(***************************************************************************)
(* Pollee (kernel/core/src/process/signal/poll.rs): the cache of an I/O    *)
(* object's events, and poll_with, which many tasks may be in at a time.   *)
(* Registering the poller comes before these steps and acting on the       *)
(* events after them; both are the caller's.                               *)
(***************************************************************************)
EXTENDS Naturals, FiniteSets

CONSTANTS Tasks, Pollees, None

VARIABLES
  pc,        \* the next step of each task
  polling,   \* the pollee that the task is at, if any
  cache,     \* PolleeInner::state
  events     \* what check returned last, and then what poll_with returns

INV_STATE == "invalid"
IoEvents == {"ready", "none"}   \* whether there are events that match the mask

polleeVars == <<polling, cache, events>>

Goto(t, step) == pc' = [pc EXCEPT ![t] = step]

PolleeInit ==
  /\ polling = [t \in Tasks |-> None]
  /\ cache = [p \in Pollees |-> INV_STATE]
  /\ events = [t \in Tasks |-> "none"]

\* The call, made by the step before.
poll_with(t, p) ==
  /\ polling' = [polling EXCEPT ![t] = p]
  /\ Goto(t, "load")

\* The caller has used the events.
Return(t) ==
  /\ polling' = [polling EXCEPT ![t] = None]
  /\ events' = [events EXCEPT ![t] = "none"]

\* Cached events are returned; a task that is checking is not disturbed.
pollLoad(t) ==
  LET state == cache[polling[t]]
  IN /\ pc[t] = "load"
     /\ IF state \in IoEvents
        THEN events' = [events EXCEPT ![t] = state] /\ Goto(t, "polled")
        ELSE Goto(t, IF state = INV_STATE THEN "swap" ELSE "checkOnly") /\ UNCHANGED events
     /\ UNCHANGED <<polling, cache>>

\* The task's address is stored, whatever is there by now.
pollSwap(t) ==
  /\ pc[t] = "swap"
  /\ cache' = [cache EXCEPT ![polling[t]] = t]
  /\ Goto(t, "check")
  /\ UNCHANGED <<polling, events>>

pollCheck(t, found) ==
  /\ pc[t] \in {"check", "checkOnly"}
  /\ events' = [events EXCEPT ![t] = found]
  /\ Goto(t, IF pc[t] = "check" THEN "cache" ELSE "polled")
  /\ UNCHANGED <<polling, cache>>

\* Mutant: the events are stored without the comparison.
pollStore(t) ==
  /\ pc[t] = "cache"
  /\ cache' = [cache EXCEPT ![polling[t]] = events[t]]
  /\ Goto(t, "polled")
  /\ UNCHANGED <<polling, events>>

\* compare_exchange_weak, which may fail for no reason.
pollCache(t) ==
  /\ pc[t] = "cache"
  /\ \/ /\ cache[polling[t]] = t
        /\ cache' = [cache EXCEPT ![polling[t]] = events[t]]
     \/ UNCHANGED cache
  /\ Goto(t, "polled")
  /\ UNCHANGED <<polling, events>>

invalidate(p) == cache' = [cache EXCEPT ![p] = INV_STATE]

-----------------------------------------------------------------------------

PolleeTypeOK ==
  /\ polling \in [Tasks -> Pollees \cup {None}]
  /\ cache \in [Pollees -> {INV_STATE} \cup IoEvents \cup Tasks]
  /\ events \in [Tasks -> IoEvents]
=============================================================================
