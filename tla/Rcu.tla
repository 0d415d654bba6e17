-------------------------------- MODULE Rcu --------------------------------
(***************************************************************************)
(* Read-copy-update: ostd/src/sync/rcu/mod.rs (an Rcu cell, its readers    *)
(* and its writers) and ostd/src/sync/rcu/monitor.rs (the grace periods).  *)
(*                                                                         *)
(* A reader disables preemption, so its CPU cannot switch tasks.  Every    *)
(* context switch tells the monitor that its CPU holds no guard; once all  *)
(* CPUs have said so, the callbacks of the grace period free the objects   *)
(* that were removed from the cell before it began.  A freed object's      *)
(* memory may be used again for a new one.                                 *)
(*                                                                         *)
(* The order of the callbacks inside a grace period makes no difference    *)
(* here, so both queues of callbacks are sets of the objects to free.      *)
(***************************************************************************)
EXTENDS Naturals, FiniteSets

CONSTANTS
  CPUs, Objects,
  Null,   \* the null pointer of an RcuOption
  None    \* no guard, no object

ASSUME RcuAssumption ==
  /\ Null \notin Objects /\ None \notin Objects /\ Null # None

VARIABLES
  ptr,           \* RcuInner::ptr of the cell
  used,          \* the objects whose memory is not free
  guard,         \* RcuReadGuardInner::obj_ptr of each CPU's guard, if any
  removed,       \* what each CPU has taken out of the cell and must retire
  isMonitoring,  \* RcuMonitor::is_monitoring
  isComplete,    \* GracePeriod::is_complete
  cpuMask,       \* GracePeriod::cpu_mask
  callbacks,     \* GracePeriod::callbacks
  nextCallbacks, \* State::next_callbacks
  running,       \* the callbacks that each CPU is invoking
  pc             \* the next step of each CPU

cellVars == <<ptr, used, guard, removed>>
monitorVars == <<isMonitoring, isComplete, cpuMask, callbacks, nextCallbacks>>
vars == <<cellVars, monitorVars, running, pc>>

Init ==
  /\ ptr = Null
  /\ used = {}
  /\ guard = [c \in CPUs |-> None]
  /\ removed = [c \in CPUs |-> None]
  /\ isMonitoring = FALSE
  /\ isComplete = TRUE
  /\ cpuMask = {}
  /\ callbacks = {}
  /\ nextCallbacks = {}
  /\ running = [c \in CPUs |-> {}]
  /\ pc = [c \in CPUs |-> "run"]

At(c, label) == pc[c] = label
Goto(c, label) == pc' = [pc EXCEPT ![c] = label]

\* A pointer that a writer may put into the cell: null or a new object.
New == (Objects \ used) \cup {Null}
Allocate(new) == used' = used \cup ({new} \ {Null})

-----------------------------------------------------------------------------
(* The cell *)

read(c) ==
  /\ At(c, "run") /\ guard[c] = None
  /\ guard' = [guard EXCEPT ![c] = ptr]
  /\ UNCHANGED <<ptr, used, removed, monitorVars, running, pc>>

dropGuard(c) ==
  /\ At(c, "run") /\ guard[c] # None
  /\ guard' = [guard EXCEPT ![c] = None]
  /\ UNCHANGED <<ptr, used, removed, monitorVars, running, pc>>

\* RcuInner::update: swap, then delay_drop what was there.
update(c, new) ==
  /\ At(c, "run")
  /\ ptr' = new
  /\ Allocate(new)
  /\ IF ptr = Null THEN UNCHANGED <<removed, pc>>
     ELSE removed' = [removed EXCEPT ![c] = ptr] /\ Goto(c, "retire")
  /\ UNCHANGED <<guard, monitorVars, running>>

\* Mutant: a store in place of the compare_exchange.
casBlind(c, new) ==
  /\ At(c, "run") /\ guard[c] # None
  /\ ptr' = new /\ Allocate(new)
  /\ IF guard[c] = Null
     THEN guard' = [guard EXCEPT ![c] = None] /\ UNCHANGED <<removed, pc>>
     ELSE /\ removed' = [removed EXCEPT ![c] = guard[c]]
          /\ Goto(c, "retireGuarded") /\ UNCHANGED guard
  /\ UNCHANGED <<monitorVars, running>>

\* RcuReadGuardInner::compare_exchange consumes the guard, but drops it only
\* after delay_drop.  When it fails, the new object goes back to the caller.
compare_exchange(c, new) ==
  /\ At(c, "run") /\ guard[c] # None
  /\ IF ptr # guard[c] \/ ptr = Null
     THEN /\ IF ptr = guard[c] THEN ptr' = new /\ Allocate(new)
             ELSE UNCHANGED <<ptr, used>>
          /\ guard' = [guard EXCEPT ![c] = None]
          /\ UNCHANGED <<removed, pc>>
     ELSE /\ ptr' = new /\ Allocate(new)
          /\ removed' = [removed EXCEPT ![c] = ptr]
          /\ Goto(c, "retireGuarded")
          /\ UNCHANGED guard
  /\ UNCHANGED <<monitorVars, running>>

\* RcuInner::drop frees the object at once: a guard borrows the cell, so there
\* is none left.
drop(c) ==
  /\ At(c, "run") /\ ptr # Null
  /\ \A d \in CPUs : guard[d] = None
  /\ ptr' = Null
  /\ used' = used \ {ptr}
  /\ UNCHANGED <<guard, removed, monitorVars, running, pc>>

-----------------------------------------------------------------------------
(* The monitor *)

\* GracePeriod::restart.
restart(objects) ==
  /\ isComplete' = FALSE
  /\ cpuMask' = {}
  /\ callbacks' = objects

\* Mutant: the callback joins the grace period that is under way.
registerEarly(c) ==
  /\ pc[c] \in {"retire", "retireGuarded"}
  /\ IF isComplete
     THEN /\ restart({removed[c]}) /\ isMonitoring' = TRUE
          /\ UNCHANGED nextCallbacks
     ELSE /\ callbacks' = callbacks \cup {removed[c]}
          /\ UNCHANGED <<isComplete, cpuMask, nextCallbacks, isMonitoring>>
  /\ removed' = [removed EXCEPT ![c] = None]
  /\ guard' = IF At(c, "retireGuarded") THEN [guard EXCEPT ![c] = None] ELSE guard
  /\ Goto(c, "run")
  /\ UNCHANGED <<ptr, used, running>>

\* RcuMonitor::after_grace_period, under the lock of the monitor.
after_grace_period(c) ==
  /\ pc[c] \in {"retire", "retireGuarded"}
  /\ IF isComplete
     THEN /\ restart(nextCallbacks \cup {removed[c]})
          /\ nextCallbacks' = {}
          /\ isMonitoring' = TRUE
     ELSE /\ nextCallbacks' = nextCallbacks \cup {removed[c]}
          /\ UNCHANGED <<isMonitoring, isComplete, cpuMask, callbacks>>
  /\ removed' = [removed EXCEPT ![c] = None]
  /\ guard' = IF At(c, "retireGuarded") THEN [guard EXCEPT ![c] = None] ELSE guard
  /\ Goto(c, "run")
  /\ UNCHANGED <<ptr, used, running>>

\* A context switch, which might_sleep allows only without a guard, calls
\* finish_grace_period: its fast path.
quiesce(c) ==
  /\ At(c, "run") /\ guard[c] = None
  /\ isMonitoring
  /\ Goto(c, "quiesce")
  /\ UNCHANGED <<cellVars, monitorVars, running>>

\* Mutant: no grace period is started for the callbacks that wait.
finishKeepsMonitoringOff(c) ==
  /\ At(c, "quiesce")
  /\ \/ isComplete /\ Goto(c, "run") /\ UNCHANGED <<monitorVars, running>>
     \/ /\ ~isComplete /\ cpuMask \cup {c} # CPUs
        /\ cpuMask' = cpuMask \cup {c}
        /\ Goto(c, "run")
        /\ UNCHANGED <<isMonitoring, isComplete, callbacks, nextCallbacks, running>>
     \/ /\ ~isComplete /\ cpuMask \cup {c} = CPUs
        /\ running' = [running EXCEPT ![c] = callbacks]
        /\ cpuMask' = CPUs /\ isComplete' = TRUE /\ callbacks' = {}
        /\ isMonitoring' = FALSE
        /\ Goto(c, "callbacks")
        /\ UNCHANGED nextCallbacks
  /\ UNCHANGED cellVars

\* The rest of RcuMonitor::finish_grace_period, under the lock: the last CPU
\* takes the callbacks and starts the next grace period, if one is needed.
finish_grace_period(c) ==
  /\ At(c, "quiesce")
  /\ \/ isComplete /\ Goto(c, "run") /\ UNCHANGED <<monitorVars, running>>
     \/ /\ ~isComplete /\ cpuMask \cup {c} # CPUs
        /\ cpuMask' = cpuMask \cup {c}
        /\ Goto(c, "run")
        /\ UNCHANGED <<isMonitoring, isComplete, callbacks, nextCallbacks, running>>
     \/ /\ ~isComplete /\ cpuMask \cup {c} = CPUs
        /\ running' = [running EXCEPT ![c] = callbacks]
        /\ IF nextCallbacks # {}
           THEN restart(nextCallbacks) /\ UNCHANGED isMonitoring
           ELSE /\ isMonitoring' = FALSE
                /\ isComplete' = TRUE
                /\ cpuMask' = CPUs
                /\ callbacks' = {}
        /\ nextCallbacks' = {}
        /\ Goto(c, "callbacks")
  /\ UNCHANGED cellVars

\* The loop over the callbacks, outside the lock; each frees its object.
callback(c) ==
  /\ At(c, "callbacks")
  /\ \/ running[c] = {} /\ Goto(c, "run") /\ UNCHANGED <<used, running>>
     \/ \E o \in running[c] :
          /\ running' = [running EXCEPT ![c] = @ \ {o}]
          /\ used' = used \ {o}
          /\ UNCHANGED pc
  /\ UNCHANGED <<ptr, guard, removed, monitorVars>>

-----------------------------------------------------------------------------

Step(c) == after_grace_period(c) \/ finish_grace_period(c) \/ callback(c)

Next ==
  \E c \in CPUs :
    \/ Step(c) \/ read(c) \/ dropGuard(c) \/ drop(c) \/ quiesce(c)
    \/ \E new \in New : update(c, new) \/ compare_exchange(c, new)

Spec == Init /\ [][Next]_vars

\* A CPU that has begun a step of the cell or the monitor goes on with it.
\* Nothing is assumed of guards and task switches: see Reclaimed.
FairSpec == Spec /\ \A c \in CPUs : WF_vars(Step(c))

-----------------------------------------------------------------------------
(* Properties *)

TypeOK ==
  /\ ptr \in Objects \cup {Null}
  /\ used \subseteq Objects
  /\ guard \in [CPUs -> Objects \cup {Null, None}]
  /\ removed \in [CPUs -> Objects \cup {None}]
  /\ isMonitoring \in BOOLEAN /\ isComplete \in BOOLEAN
  /\ cpuMask \subseteq CPUs
  /\ callbacks \subseteq Objects /\ nextCallbacks \subseteq Objects
  /\ running \in [CPUs -> SUBSET Objects]
  /\ pc \in [CPUs -> {"run", "retire", "retireGuarded", "quiesce", "callbacks"}]

\* The objects that a cell, a reader, or a writer about to retire one can reach.
Reachable ==
  ({ptr} \cup {guard[c] : c \in CPUs} \cup {removed[c] : c \in CPUs}) \ {Null, None}

\* "The guard ensures that P will not be dropped": no guard, and no cell,
\* points to an object that has been freed, whichever CPU freed it and however
\* many grace periods have passed since the guard was taken.
NoUseAfterFree == Reachable \subseteq used

\* "It will only be dropped once": an object waits in one callback at most, and
\* while it does nobody has freed it.
FreedOnce ==
  LET waiting == {callbacks, nextCallbacks} \cup {running[c] : c \in CPUs}
  IN /\ \A s \in waiting : s \subseteq used
     /\ callbacks \cap nextCallbacks = {}
     /\ \A c \in CPUs : running[c] \cap (callbacks \cup nextCallbacks) = {}
     /\ \A c, d \in CPUs : running[c] \cap running[d] # {} => c = d

\* No callback is left behind by the hand-over between grace periods: where
\* callbacks wait, a grace period is under way and the CPUs report to it.
Monitored ==
  /\ callbacks \cup nextCallbacks # {} => ~isComplete
  /\ isMonitoring <=> ~isComplete

\* The inductive invariant.  An object that is in use is in one place, and one
\* that a guard points to is in no callback that runs, nor in one of a grace
\* period to which the guard's CPU has reported.
Pending == callbacks \cup nextCallbacks \cup UNION {running[c] : c \in CPUs}

CellInv == ptr # Null => /\ ptr \in used /\ ptr \notin Pending
                         /\ \A c \in CPUs : removed[c] # ptr
RemovedInv ==
  \A c \in CPUs : removed[c] # None =>
    /\ removed[c] \in used /\ removed[c] \notin Pending
    /\ \A d \in CPUs : removed[d] = removed[c] => c = d
GuardInv ==
  \A c \in CPUs : guard[c] \in Objects =>
    /\ guard[c] \in used
    /\ \A d \in CPUs : guard[c] \notin running[d]
    /\ guard[c] \in callbacks => c \notin cpuMask
PcInv ==
  \A c \in CPUs :
    /\ pc[c] \in {"quiesce", "callbacks"} => guard[c] = None
    /\ pc[c] \in {"retire", "retireGuarded"} <=> removed[c] # None
    /\ running[c] # {} => pc[c] = "callbacks"

IInv == TypeOK /\ CellInv /\ RemovedInv /\ FreedOnce /\ GuardInv /\ PcInv /\ Monitored

\* c switches tasks again and again.  A switch while no grace period is
\* monitored returns at once and leaves no trace.
KeepsSwitching(c) == []<><<quiesce(c)>>_vars \/ []<>~isMonitoring

\* Memory leaks only if a CPU stops switching tasks: while all of them go on,
\* what is in a callback is freed in the end, across every hand-over from one
\* grace period to the next.  The premise is the caller's burden, not a promise
\* of the kernel: the switch is the only place that reports to the monitor, and
\* a CPU in its idle loop with nothing else to run never gets there.
Reclaimed ==
  (\A c \in CPUs : KeepsSwitching(c)) =>
    \A o \in Objects : (o \in callbacks \cup nextCallbacks) ~> (o \notin used)
=============================================================================
