----------------------------- MODULE Scheduler -----------------------------
(***************************************************************************)
(* The scheduler: ostd/src/task/scheduler/mod.rs (park_current,            *)
(* unpark_target, yield_now, might_preempt, exit_current, reschedule),     *)
(* ostd/src/task/processor.rs (the context switch) and the run queues of   *)
(* kernel/core/src/sched/sched_class/mod.rs (ClassScheduler).              *)
(*                                                                         *)
(* The kernel is not preemptible: a CPU runs the kernel code of its task   *)
(* until that code calls the scheduler, and only interrupts (ticks and     *)
(* IPIs) come in between.  What runs under the lock of one run queue is    *)
(* one step.  A waker stands for kernel code or an interrupt handler on a  *)
(* CPU other than the modelled ones.                                       *)
(***************************************************************************)
EXTENDS Naturals

CONSTANTS
  CPUs, Tasks, Wakers,
  Systems,   \* the ways in which the kernel may be set up
  None

Stop == 0
Idle == 3
Classes == Stop .. Idle   \* Stop, RealTime, Fair, Idle, most urgent first

ASSUME SchedulerAssumption ==
  /\ \A s \in Systems :
       /\ s.boot \in [CPUs -> Tasks]
       /\ \A c, d \in CPUs : s.boot[c] = s.boot[d] => c = d
       /\ s.class \in [Tasks -> Classes]
       /\ s.migrating \in BOOLEAN
       /\ s.spawns \subseteq Tasks
       /\ \/ s.migrating   \* the kernel's own scheduler finds an idle task on every CPU
          \/ \A c \in CPUs : s.class[s.boot[c]] = Idle
  /\ None \notin CPUs \cup Tasks
  /\ CPUs \cap Wakers = {}

VARIABLES
  system,      \* how this kernel is set up
  taskCpu,     \* TaskScheduleInfo::cpu of each task
  lastCpu,     \* SchedAttr::last_cpu of each task
  queue,       \* how often each task waits in each CPU's run queue
  current,     \* PerCpuClassRqSet::current of each CPU
  onCpu,       \* CURRENT_TASK_PTR of each CPU
  previous,    \* PREVIOUS_TASK_PTR of each CPU
  switchedTo,  \* Task::switched_to_cpu of each task
  needPreempt, \* the need_preempt bit of each CPU's PREEMPT_INFO
  ipi,         \* the CPUs that have an inter-processor call to set that bit to come
  hasWoken,    \* Waker::has_woken of each task's waiter; TRUE when it has none
  pc,          \* the next step of each CPU
  next,        \* the task that reschedule on each CPU has chosen
  cont,        \* where each task goes on when it is switched to
  job          \* the call of enqueue that each CPU or waker is making

rqVars == <<taskCpu, lastCpu, queue, current>>
cpuVars == <<onCpu, previous, switchedTo, next>>
preemptVars == <<needPreempt, ipi>>
vars == <<system, rqVars, cpuVars, preemptVars, hasWoken, pc, cont, job>>

Boot == system.boot            \* the task each CPU runs first
Class == system.class          \* the class of each task's scheduling policy
Migrating == system.migrating  \* does the injected scheduler wake tasks on any CPU?

PCs == {"run", "swap", "park", "parkLocked", "parkRetry", "yield",
        "mightPreempt", "preempt", "exit", "exitRetry", "spawn", "switch", "switched", "unreachable"}
Actors == CPUs \cup Wakers
NoJob == [step |-> "none", task |-> None, cpu |-> None, still |-> FALSE]

Init ==
  /\ system \in Systems
  /\ taskCpu = [t \in Tasks |->
                  IF \E c \in CPUs : Boot[c] = t
                  THEN CHOOSE c \in CPUs : Boot[c] = t ELSE None]
  /\ lastCpu = taskCpu
  /\ queue = [c \in CPUs |-> [t \in Tasks |-> 0]]
  /\ current = Boot
  /\ onCpu = Boot
  /\ previous = [c \in CPUs |-> None]
  /\ switchedTo = [t \in Tasks |-> \E c \in CPUs : Boot[c] = t]
  /\ needPreempt = [c \in CPUs |-> FALSE]
  /\ ipi = {}
  /\ hasWoken = [t \in Tasks |-> TRUE]
  /\ pc = [c \in CPUs |-> "run"]
  /\ next = [c \in CPUs |-> None]
  /\ cont = [t \in Tasks |-> IF \E c \in CPUs : Boot[c] = t THEN "run" ELSE "new"]
  /\ job = [a \in Actors |-> NoJob]

Goto(c, label) == pc' = [pc EXCEPT ![c] = label]

\* The next step of c is the one named label.
At(c, label) == pc[c] = label

\* The CPU holds the lock of its run queue; interrupts are off then, and from
\* switch_to_task to after_switching_to.
Locked(c) == At(c, "parkLocked")
IrqsOff(c) == Locked(c) \/ At(c, "switched")

\* The entry of reschedule: the flag is cleared before the decision.
Reschedule(c, label) ==
  /\ needPreempt' = [needPreempt EXCEPT ![c] = FALSE]
  /\ Goto(c, label)
  /\ UNCHANGED ipi

\* reschedule breaks its loop with SwitchTo(t).
SwitchTo(c, t) ==
  /\ next' = [next EXCEPT ![c] = t]
  /\ Goto(c, "switch")
  /\ UNCHANGED <<onCpu, previous, switchedTo>>

-----------------------------------------------------------------------------
(* The run queue of one CPU *)

Queued(c) == {t \in Tasks : queue[c][t] > 0}

\* PerCpuClassRqSet::pick_next_entity: a task of the most urgent class that
\* has one.  Which one of that class (its vruntime, its priority) is open.
pick_next_entity(c) == {t \in Queued(c) : \A u \in Queued(c) : Class[t] <= Class[u]}

\* Mutant: the task that was current is not put back.
tryPickDropsOld(c, t, old) ==
  /\ t \in pick_next_entity(c)
  /\ current' = [current EXCEPT ![c] = t]
  /\ queue' = [queue EXCEPT ![c][t] = @ - 1]

\* PerCpuClassRqSet::try_pick_next, once t is picked and old is the task that
\* was current: t is the current task and old, if any, waits.
try_pick_next(c, t, old) ==
  /\ t \in pick_next_entity(c)
  /\ current' = [current EXCEPT ![c] = t]
  /\ queue' = [queue EXCEPT ![c] =
                 [u \in Tasks |-> (@[u] + (IF u = old THEN 1 ELSE 0))
                                        - (IF u = t THEN 1 ELSE 0)]]

\* PerCpuClassRqSet::update_current for Tick and Yield: the answers it may
\* give.  A more urgent class is always preferred, a less urgent one never;
\* inside the class the time slices decide.
update_current(c) ==
  LET higher == \E t \in Queued(c) : Class[t] < Class[current[c]]
      same == \E t \in Queued(c) : Class[t] = Class[current[c]]
  IN IF current[c] = None THEN {Queued(c) # {}}
     ELSE IF higher THEN {TRUE}
     ELSE IF same THEN BOOLEAN ELSE {FALSE}

\* PerCpuClassRqSet::dequeue_current.
dequeue_current(c) ==
  taskCpu' = IF current[c] = None THEN taskCpu
             ELSE [taskCpu EXCEPT ![current[c]] = None]

-----------------------------------------------------------------------------
(* enqueue, which unpark_target and run_new_task call *)

\* Mutant: a task that wakes may go to any CPU.
selectAnywhere(t) == CPUs

\* ClassScheduler::select_cpu: a task goes back to its last CPU; a new one
\* goes to the least loaded, which may be any by the time it gets there.
select_cpu(t) ==
  IF lastCpu[t] = None \/ Migrating THEN CPUs ELSE {lastCpu[t]}

\* The first set_if_is_none of enqueue, before the run queue is locked.
enqueueSelect(a) ==
  LET t == job[a].task
  IN /\ job[a].step = "select"
     /\ IF taskCpu[t] = None
        THEN \E s \in select_cpu(t) :
               /\ taskCpu' = [taskCpu EXCEPT ![t] = s]
               /\ job' = [job EXCEPT ![a] = [@ EXCEPT !.step = "push", !.cpu = s]]
        ELSE /\ job' = [job EXCEPT ![a] = [@ EXCEPT !.step = "push", !.cpu = taskCpu[t],
                                                   !.still = TRUE]]
             /\ UNCHANGED taskCpu
     /\ UNCHANGED <<lastCpu, queue, current, cpuVars, preemptVars, hasWoken, pc, cont>>

\* The caller of enqueue goes on; run_new_task ends in might_preempt.
EndJob(a) ==
  /\ job' = [job EXCEPT ![a] = NoJob]
  /\ pc' = IF a \in CPUs THEN [pc EXCEPT ![a] = "mightPreempt"] ELSE pc

\* Mutant: enqueue does not look again whether the task is queued.
enqueuePushRecheckless(a) ==
  LET t == job[a].task
      s == job[a].cpu
  IN /\ job[a].step = "push" /\ ~Locked(s)
     /\ taskCpu' = [taskCpu EXCEPT ![t] = s]
     /\ lastCpu' = [lastCpu EXCEPT ![t] = s]
     /\ queue' = [queue EXCEPT ![s][t] = @ + 1]
     /\ EndJob(a)
     /\ UNCHANGED <<current, cpuVars, preemptVars, hasWoken, cont>>

\* Mutant: enqueue trusts what it saw before it locked the run queue.
enqueuePushForgetful(a) ==
  LET t == job[a].task
      s == job[a].cpu
  IN /\ job[a].step = "push" /\ ~Locked(s)
     /\ IF job[a].still
        THEN EndJob(a) /\ UNCHANGED rqVars
        ELSE /\ lastCpu' = [lastCpu EXCEPT ![t] = s]
             /\ queue' = [queue EXCEPT ![s][t] = @ + 1]
             /\ job' = [job EXCEPT ![a].step = "ipi"]
             /\ UNCHANGED <<taskCpu, current, pc>>
     /\ UNCHANGED <<cpuVars, preemptVars, hasWoken, cont>>

\* Has t a higher priority than the current task of s?  The policies are
\* compared as a whole; inside a class the priority or nice value decides.
should_preempt(s, t) ==
  IF current[s] = None THEN {TRUE}
  ELSE IF Class[t] = Class[current[s]] /\ Class[t] \notin {Stop, Idle} THEN BOOLEAN
  ELSE {Class[t] < Class[current[s]]}

\* The rest of ClassScheduler::enqueue, under the lock of the run queue.
enqueuePush(a) ==
  LET t == job[a].task
      s == job[a].cpu
  IN /\ job[a].step = "push" /\ ~Locked(s)
     /\ IF job[a].still /\ taskCpu[t] # None
        THEN EndJob(a) /\ UNCHANGED rqVars
        ELSE /\ taskCpu' = [taskCpu EXCEPT ![t] = s]
             /\ lastCpu' = [lastCpu EXCEPT ![t] = s]
             /\ queue' = [queue EXCEPT ![s][t] = @ + 1]
             /\ \E preempts \in should_preempt(s, t) :
                  IF preempts THEN job' = [job EXCEPT ![a].step = "ipi"] /\ UNCHANGED pc
                  ELSE EndJob(a)
             /\ UNCHANGED current
     /\ UNCHANGED <<cpuVars, preemptVars, hasWoken, cont>>

\* set_need_preempt: at once on this CPU, else by an inter-processor call, for
\* which the caller does not wait.
set_need_preempt(a) ==
  /\ job[a].step = "ipi"
  /\ IF job[a].cpu = a
     THEN needPreempt' = [needPreempt EXCEPT ![a] = TRUE] /\ UNCHANGED ipi
     ELSE ipi' = ipi \cup {job[a].cpu} /\ UNCHANGED needPreempt
  /\ EndJob(a)
  /\ UNCHANGED <<rqVars, cpuVars, hasWoken, cont>>

\* The other CPU takes the call when its interrupts are on.
do_inter_processor_call(c) ==
  /\ c \in ipi /\ ~IrqsOff(c)
  /\ ipi' = ipi \ {c}
  /\ needPreempt' = [needPreempt EXCEPT ![c] = TRUE]
  /\ UNCHANGED <<rqVars, cpuVars, hasWoken, pc, cont, job>>

\* Waker::wake_up, up to its call of unpark_target.
wake_up(a, t) ==
  /\ job[a].step = "none"
  /\ ~hasWoken[t]
  /\ hasWoken' = [hasWoken EXCEPT ![t] = TRUE]
  /\ job' = [job EXCEPT ![a] = [NoJob EXCEPT !.step = "select", !.task = t]]
  /\ UNCHANGED <<rqVars, cpuVars, preemptVars, pc, cont>>

\* run_new_task, called by the task that c runs.
run_new_task(c, t) ==
  /\ At(c, "run")
  /\ t \in system.spawns /\ cont[t] = "new"
  /\ \A a \in Actors : job[a].task # t
  /\ taskCpu[t] = None
  /\ Goto(c, "spawn")
  /\ job' = [job EXCEPT ![c] = [NoJob EXCEPT !.step = "select", !.task = t]]
  /\ UNCHANGED <<rqVars, cpuVars, preemptVars, hasWoken, cont>>

-----------------------------------------------------------------------------
(* Sleeping: Waiter::wait and park_current *)

Self(c) == onCpu[c]

\* The idle task of a CPU never waits, yields or exits (kernel/core/src/init.rs).
MayBlock(c) == Class[Self(c)] # Idle

\* A task makes a waiter and waits on it.
wait(c) ==
  /\ At(c, "run") /\ MayBlock(c)
  /\ hasWoken' = [hasWoken EXCEPT ![Self(c)] = FALSE]
  /\ cont' = [cont EXCEPT ![Self(c)] = "wait"]
  /\ Goto(c, "swap")
  /\ UNCHANGED <<rqVars, cpuVars, preemptVars, job>>

\* The task drops its waiter, which closes the waker: after a wait, or
\* because the wait was cancelled.
dropWaiter(c) ==
  /\ hasWoken' = [hasWoken EXCEPT ![Self(c)] = TRUE]
  /\ cont' = [cont EXCEPT ![Self(c)] = "run"]
  /\ Goto(c, "run")

\* The swap of Waker::do_wait.  A woken task waits again on the same waiter,
\* or drops it; wait_until_or_cancelled may drop it without a wake-up.
do_wait(c) ==
  /\ At(c, "swap")
  /\ \/ dropWaiter(c) /\ UNCHANGED preemptVars
     \/ /\ hasWoken[Self(c)]
        /\ hasWoken' = [hasWoken EXCEPT ![Self(c)] = FALSE]
        /\ UNCHANGED <<pc, cont, preemptVars>>
     \/ /\ ~hasWoken[Self(c)]
        /\ Reschedule(c, "park")
        /\ UNCHANGED <<hasWoken, cont>>
  /\ UNCHANGED <<rqVars, cpuVars, job>>

\* The first run of park_current's closure locks the run queue and asks
\* has_unparked.  A waker sets has_woken, and tries set_if_is_none once,
\* without that lock.
parkCheck(c) ==
  /\ At(c, "park")
  /\ Goto(c, IF hasWoken[Self(c)] THEN "swap" ELSE "parkLocked")
  /\ UNCHANGED <<rqVars, cpuVars, preemptVars, hasWoken, cont, job>>

\* The rest of that run, still under the lock: the task leaves the run queue,
\* and another one, if there is any, is picked.
parkDequeue(c) ==
  /\ At(c, "parkLocked")
  /\ dequeue_current(c)
  /\ \/ \E t \in Tasks : try_pick_next(c, t, None) /\ SwitchTo(c, t)
     \/ /\ Queued(c) = {}
        /\ current' = [current EXCEPT ![c] = None]
        /\ Goto(c, "parkRetry")
        /\ UNCHANGED <<queue, cpuVars>>
  /\ UNCHANGED <<lastCpu, preemptVars, hasWoken, cont, job>>

\* The later runs of that closure, while there was nothing to run.  The task
\* may find itself, woken in the meantime.
parkRetry(c) ==
  /\ At(c, "parkRetry")
  /\ \E t \in Tasks :
       /\ try_pick_next(c, t, current[c])
       /\ IF t = Self(c) THEN Goto(c, "swap") /\ UNCHANGED cpuVars
          ELSE SwitchTo(c, t)
  /\ UNCHANGED <<taskCpu, lastCpu, preemptVars, hasWoken, cont, job>>

-----------------------------------------------------------------------------
(* Yielding, preemption and exit *)

yieldStart(c) ==
  /\ At(c, "run") /\ MayBlock(c)
  /\ Reschedule(c, "yield")
  /\ UNCHANGED <<rqVars, cpuVars, hasWoken, cont, job>>

yield_now(c) ==
  /\ At(c, "yield")
  /\ \E replace \in update_current(c) :
       IF replace
       THEN \E t \in Tasks : try_pick_next(c, t, current[c]) /\ SwitchTo(c, t)
       ELSE Goto(c, "run") /\ UNCHANGED <<queue, current, cpuVars>>
  /\ UNCHANGED <<taskCpu, lastCpu, preemptVars, hasWoken, cont, job>>

\* The timer callback of enable_preemption_on_cpu.
tick(c) ==
  /\ ~IrqsOff(c) /\ ~At(c, "unreachable")
  /\ TRUE \in update_current(c)
  /\ needPreempt' = [needPreempt EXCEPT ![c] = TRUE]
  /\ UNCHANGED <<rqVars, cpuVars, ipi, hasWoken, pc, cont, job>>

\* might_preempt up to the decision: on the way to user mode, in halt_cpu and
\* at the end of run_new_task.
mightPreempt(c) ==
  /\ \/ At(c, "run") /\ needPreempt[c]
     \/ At(c, "mightPreempt")
  /\ IF needPreempt[c] THEN Reschedule(c, "preempt")
     ELSE Goto(c, "run") /\ UNCHANGED preemptVars
  /\ UNCHANGED <<rqVars, cpuVars, hasWoken, cont, job>>

\* Mutant: the flag is read again after the run queue has changed.
preemptIfStillNeeded(c) ==
  /\ At(c, "preempt")
  /\ \/ /\ \E t \in Tasks :
             /\ try_pick_next(c, t, current[c])
             /\ IF needPreempt[c] THEN SwitchTo(c, t)
                ELSE Goto(c, "run") /\ UNCHANGED cpuVars
     \/ Queued(c) = {} /\ Goto(c, "run") /\ UNCHANGED <<queue, current, cpuVars>>
  /\ UNCHANGED <<taskCpu, lastCpu, preemptVars, hasWoken, cont, job>>

\* The decision of might_preempt, which does not ask update_current.
might_preempt(c) ==
  /\ At(c, "preempt")
  /\ \/ \E t \in Tasks : try_pick_next(c, t, current[c]) /\ SwitchTo(c, t)
     \/ Queued(c) = {} /\ Goto(c, "run") /\ UNCHANGED <<queue, current, cpuVars>>
  /\ UNCHANGED <<taskCpu, lastCpu, preemptVars, hasWoken, cont, job>>

exitStart(c) ==
  /\ At(c, "run") /\ MayBlock(c)
  /\ cont' = [cont EXCEPT ![Self(c)] = "exited"]
  /\ Reschedule(c, "exit")
  /\ UNCHANGED <<rqVars, cpuVars, hasWoken, job>>

\* The closure of exit_current.
exit_current(c) ==
  /\ \/ /\ At(c, "exit")
        /\ dequeue_current(c)
        /\ \/ \E t \in Tasks : try_pick_next(c, t, None) /\ SwitchTo(c, t)
           \/ /\ Queued(c) = {}
              /\ current' = [current EXCEPT ![c] = None]
              /\ Goto(c, "exitRetry")
              /\ UNCHANGED <<queue, cpuVars>>
     \/ /\ At(c, "exitRetry")
        /\ \E t \in Tasks : try_pick_next(c, t, current[c]) /\ SwitchTo(c, t)
        /\ UNCHANGED taskCpu
  /\ UNCHANGED <<lastCpu, preemptVars, hasWoken, cont, job>>

-----------------------------------------------------------------------------
(* The context switch *)

\* Mutant: the switch does not wait until the task has been released.
switchUnguarded(c) ==
  /\ At(c, "switch")
  /\ switchedTo' = [switchedTo EXCEPT ![next[c]] = TRUE]
  /\ previous' = [previous EXCEPT ![c] = onCpu[c]]
  /\ onCpu' = [onCpu EXCEPT ![c] = next[c]]
  /\ next' = [next EXCEPT ![c] = None]
  /\ Goto(c, "switched")
  /\ UNCHANGED <<rqVars, preemptVars, hasWoken, cont, job>>

\* switch_to_task, which spins in before_switching_to while the next task
\* still runs somewhere.  Interrupts are off until after_switching_to.
switch_to_task(c) ==
  /\ At(c, "switch")
  /\ ~switchedTo[next[c]]
  /\ switchedTo' = [switchedTo EXCEPT ![next[c]] = TRUE]
  /\ previous' = [previous EXCEPT ![c] = onCpu[c]]
  /\ onCpu' = [onCpu EXCEPT ![c] = next[c]]
  /\ next' = [next EXCEPT ![c] = None]
  /\ Goto(c, "switched")
  /\ UNCHANGED <<rqVars, preemptVars, hasWoken, cont, job>>

\* after_switching_to, on the stack of the new task, which then returns from
\* its own call of switch_to_task, or starts; exit_current cannot return.
after_switching_to(c) ==
  /\ At(c, "switched")
  /\ previous' = [previous EXCEPT ![c] = None]
  /\ switchedTo' = [switchedTo EXCEPT ![previous[c]] = FALSE]
  /\ CASE cont[Self(c)] = "wait" -> Goto(c, "swap") /\ UNCHANGED cont
       [] cont[Self(c)] = "exited" -> Goto(c, "unreachable") /\ UNCHANGED cont
       [] OTHER -> Goto(c, "run") /\ cont' = [cont EXCEPT ![Self(c)] = "run"]
  /\ UNCHANGED <<rqVars, onCpu, next, preemptVars, hasWoken, job>>

-----------------------------------------------------------------------------

Step(c) ==
  \/ do_wait(c) \/ parkCheck(c) \/ parkDequeue(c) \/ parkRetry(c)
  \/ yield_now(c) \/ mightPreempt(c) \/ might_preempt(c)
  \/ exit_current(c) \/ switch_to_task(c) \/ after_switching_to(c)

Enqueue(a) == enqueueSelect(a) \/ enqueuePush(a) \/ set_need_preempt(a)

Next ==
  /\ \/ \E c \in CPUs : Step(c) \/ wait(c) \/ yieldStart(c) \/ exitStart(c)
     \/ \E c \in CPUs : tick(c) \/ do_inter_processor_call(c)
     \/ \E c \in CPUs, t \in Tasks : run_new_task(c, t)
     \/ \E w \in Wakers, t \in Tasks : wake_up(w, t)
     \/ \E a \in Actors : Enqueue(a)
  /\ UNCHANGED system

Spec == Init /\ [][Next]_vars

-----------------------------------------------------------------------------
(* Properties *)

TypeOK ==
  /\ system \in Systems
  /\ taskCpu \in [Tasks -> CPUs \cup {None}]
  /\ lastCpu \in [Tasks -> CPUs \cup {None}]
  /\ queue \in [CPUs -> [Tasks -> Nat]]
  /\ current \in [CPUs -> Tasks \cup {None}]
  /\ onCpu \in [CPUs -> Tasks]
  /\ previous \in [CPUs -> Tasks \cup {None}]
  /\ switchedTo \in [Tasks -> BOOLEAN]
  /\ needPreempt \in [CPUs -> BOOLEAN] /\ ipi \subseteq CPUs
  /\ hasWoken \in [Tasks -> BOOLEAN]
  /\ pc \in [CPUs -> PCs]
  /\ next \in [CPUs -> Tasks \cup {None}]
  /\ cont \in [Tasks -> {"new", "run", "wait", "exited"}]
  /\ job \in [Actors -> [step : {"none", "select", "push", "ipi"},
                         task : Tasks \cup {None}, cpu : CPUs \cup {None},
                         still : BOOLEAN]]

\* How often t is in the run queue of c, waiting or current.
Entries(c, t) == queue[c][t] + (IF current[c] = t THEN 1 ELSE 0)
InRunQueue(t) == \E c \in CPUs : Entries(c, t) > 0

\* "A task must not be scheduled to run on more than one CPU at a time": the
\* stack and context of a task are in use by one CPU, from the moment a CPU
\* switches to it until the next task there has released it.
RunsOnce ==
  \A c, d \in CPUs :
    ({onCpu[c], previous[c]} \cap {onCpu[d], previous[d]}) \ {None} # {} => c = d

\* "We guarantee that a task can appear at once in a PerCpuClassRqSet": and in
\* one of them only, the one that its TaskScheduleInfo::cpu names, however the
\* calls of enqueue race with each other and with the task going to sleep.
\* (The types are checked along with it.)
AtMostOnce ==
  /\ TypeOK
  /\ \A t \in Tasks :
       /\ \A c \in CPUs : Entries(c, t) <= 1
       /\ \A c \in CPUs : Entries(c, t) = 1 => taskCpu[t] = c
       /\ taskCpu[t] # None /\ ~InRunQueue(t) =>
            \E a \in Actors : /\ job[a].step = "push" /\ job[a].task = t
                              /\ job[a].cpu = taskCpu[t] /\ ~job[a].still

\* A wake-up is never lost between the check of has_unparked and the dequeue:
\* a task that has left the run queues to wait and whose waker has fired is
\* going to be put back by a call of enqueue.
NoLostWake ==
  \A t \in Tasks :
    cont[t] = "wait" /\ hasWoken[t] /\ ~InRunQueue(t) =>
      \E a \in Actors : job[a].task = t /\ job[a].step \in {"select", "push"}

\* While a CPU executes a task's code, its run queue agrees about which task
\* that is; dequeue_current would otherwise put the wrong one to sleep.
CurrentIsRunning ==
  \A c \in CPUs :
    /\ pc[c] \in PCs \ {"parkRetry", "exitRetry", "switch", "unreachable"} =>
         current[c] = onCpu[c]
    /\ pc[c] = "switch" => current[c] = next[c]

\* c has decided to switch to the task whose context d still uses.
SpinsFor(c, d) == pc[c] = "switch" /\ next[c] = onCpu[d]

\* "Switching to a task already running in the foreground" is never printed
\* under the kernel's own scheduler, which never moves a task to another CPU.
\* Under one that does, a switch may spin until another CPU has switched, but
\* where every CPU has an idle task no two CPUs spin for each other.
NeverSpins ==
  /\ ~Migrating => \A c \in CPUs : pc[c] = "switch" => ~switchedTo[next[c]]
  /\ (\A c \in CPUs : Class[Boot[c]] = Idle) =>
       \A c, d \in CPUs : ~(SpinsFor(c, d) /\ SpinsFor(d, c))

\* The idle task of a CPU is always runnable there, so that a task that parks
\* or exits always finds another to switch to.
IdleIsRunnable ==
  \A c \in CPUs :
    Class[Boot[c]] = Idle => /\ Entries(c, Boot[c]) = 1
                             /\ pc[c] \notin {"parkRetry", "exitRetry"}

\* "The task is exiting and will never be enqueued again."
ExitedStaysOut ==
  \A t \in Tasks : cont[t] = "exited" => \A c \in CPUs : queue[c][t] = 0
=============================================================================
