-------------------------- MODULE SchedulerProofs --------------------------
(***************************************************************************)
(* Proofs about Scheduler: every invariant of its run, for any number of   *)
(* CPUs, tasks and wakers.                                                 *)
(***************************************************************************)
EXTENDS Scheduler, TLAPS

-----------------------------------------------------------------------------
(* The inductive invariant *)

\* The task is in the run queue of c, waiting or current.
Has(c, t) == queue[c][t] = 1 \/ current[c] = t

\* A call of enqueue that is about to push t, and one whose set_if_is_none has
\* succeeded: it alone may push.
Pushing(a, t) == job[a].step = "push" /\ job[a].task = t
Owner(a, t) == Pushing(a, t) /\ ~job[a].still

\* A CPU makes a call of enqueue only inside run_new_task.
Jobs ==
  \A a \in Actors :
    /\ job[a].step # "none" => job[a].task \in Tasks
    /\ job[a].step = "select" => ~job[a].still
    /\ job[a].step \in {"push", "ipi"} => job[a].cpu \in CPUs
    /\ a \in CPUs => (pc[a] = "spawn" <=> job[a].step # "none")

\* A task is in one run queue at most, the one that TaskScheduleInfo::cpu names.
Placed ==
  \A c \in CPUs, t \in Tasks :
    /\ queue[c][t] \in {0, 1}
    /\ queue[c][t] = 1 => current[c] # t
    /\ Has(c, t) => taskCpu[t] = c

\* TaskScheduleInfo::cpu is set for a task outside the run queues only by the
\* one call of enqueue that is going to push it.
Claimed ==
  /\ \A a \in Actors, t \in Tasks :
       Owner(a, t) => /\ taskCpu[t] = job[a].cpu
                      /\ \A c \in CPUs : ~Has(c, t)
                      /\ \A b \in Actors : Owner(b, t) => b = a
  /\ \A t \in Tasks :
       taskCpu[t] # None => (\E c \in CPUs : Has(c, t)) \/ (\E a \in Actors : Owner(a, t))

\* Who executes what: switched_to_cpu is set exactly for the tasks whose
\* context is in use, and each is in use once.
Contexts ==
  /\ \A c \in CPUs : /\ previous[c] # None <=> pc[c] = "switched"
                     /\ previous[c] # onCpu[c]
                     /\ switchedTo[onCpu[c]]
                     /\ previous[c] # None => switchedTo[previous[c]]
  /\ \A c, d \in CPUs :
       c # d => /\ onCpu[c] # onCpu[d]
                /\ onCpu[c] # previous[d]
                /\ previous[c] # None => previous[c] # previous[d]
  /\ \A t \in Tasks : switchedTo[t] => \E c \in CPUs : t \in {onCpu[c], previous[c]}

\* The run queue and the CPU agree about the current task.
Agreed ==
  \A c \in CPUs :
    /\ pc[c] \notin {"parkRetry", "exitRetry", "switch", "unreachable"} => current[c] = onCpu[c]
    /\ pc[c] = "switch" => next[c] \in Tasks /\ current[c] = next[c]
    /\ pc[c] \in {"parkRetry", "exitRetry"} => current[c] = None

\* A task is inside wait or exit_current exactly as its cont says, and the
\* idle task never is.
Inside ==
  /\ \A c \in CPUs :
       /\ pc[c] \in {"swap", "park", "parkLocked", "parkRetry"} => cont[onCpu[c]] = "wait"
       /\ pc[c] \in {"exit", "exitRetry"} => cont[onCpu[c]] = "exited"
  /\ \A t \in Tasks : cont[t] \in {"wait", "exited"} => Class[t] # Idle

\* A call of enqueue that will not miss it if t leaves the run queue of c.
Reaches(a, t, c) ==
  /\ job[a].task = t
  /\ job[a].step = "select" \/ (job[a].step = "push" /\ job[a].cpu = c)

\* A waker that fires after has_unparked was asked has to wait for the lock.
Rescued ==
  \A c \in CPUs :
    pc[c] = "parkLocked" /\ hasWoken[onCpu[c]] => \E a \in Actors : Reaches(a, onCpu[c], c)

\* Under the kernel's own scheduler a task never leaves its CPU.
Homes ==
  ~Migrating =>
    /\ \A c \in CPUs : /\ lastCpu[onCpu[c]] = c
                       /\ previous[c] # None => lastCpu[previous[c]] = c
                       /\ pc[c] = "switch" => next[c] # onCpu[c]
    /\ \A c \in CPUs, t \in Tasks : Has(c, t) => lastCpu[t] = c
    /\ \A a \in Actors, t \in Tasks :
         Pushing(a, t) => IF lastCpu[t] # None THEN job[a].cpu = lastCpu[t]
                          ELSE taskCpu[t] = job[a].cpu

\* An idle task is in the run queue of its CPU.
Idles ==
  \A c \in CPUs : Class[Boot[c]] = Idle => /\ Has(c, Boot[c])
                                           /\ pc[c] \notin {"parkRetry", "exitRetry"}

\* NoLostWake, in terms of Has.
Woken ==
  \A t \in Tasks :
    cont[t] = "wait" /\ hasWoken[t] /\ (\A c \in CPUs : ~Has(c, t)) =>
      \E a \in Actors : job[a].task = t /\ job[a].step \in {"select", "push"}

IInv ==
  /\ TypeOK /\ Jobs /\ Placed /\ Claimed /\ Contexts /\ Agreed /\ Inside
  /\ Rescued /\ Woken /\ Homes /\ Idles

\* Most leaves are plain first-order reasoning, which Zenon is best at; the
\* others name SMT.
USE Zenon

-----------------------------------------------------------------------------
(* Types *)

Job == [step : {"none", "select", "push", "ipi"}, task : Tasks \cup {None},
        cpu : CPUs \cup {None}, still : BOOLEAN]

\* What the assumption and the types say about the set-up of the kernel.
LEMMA Setup ==
  ASSUME TypeOK
  PROVE  /\ Boot \in [CPUs -> Tasks] /\ Class \in [Tasks -> Classes]
         /\ \A c, d \in CPUs : Boot[c] = Boot[d] => c = d
         /\ Migrating \/ \A c \in CPUs : Class[Boot[c]] = Idle
         /\ None \notin CPUs /\ None \notin Tasks /\ CPUs \cap Wakers = {}
BY SchedulerAssumption DEF TypeOK, Boot, Class, Migrating

\* A step that picks t keeps the types of the run queue.
LEMMA PickTyped ==
  ASSUME TypeOK, NEW c \in CPUs, NEW t \in Tasks, NEW old, try_pick_next(c, t, old)
  PROVE  queue' \in [CPUs -> [Tasks -> Nat]] /\ current' \in [CPUs -> Tasks \cup {None}]
<1>1. queue[c] \in [Tasks -> Nat] /\ queue[c][t] > 0
  BY DEF TypeOK, try_pick_next, pick_next_entity, Queued
<1> DEFINE q == [u \in Tasks |-> (queue[c][u] + (IF u = old THEN 1 ELSE 0))
                                      - (IF u = t THEN 1 ELSE 0)]
<1>2. q \in [Tasks -> Nat]
  <2> SUFFICES ASSUME NEW u \in Tasks
               PROVE (queue[c][u] + (IF u = old THEN 1 ELSE 0)) - (IF u = t THEN 1 ELSE 0) \in Nat
    OBVIOUS
  <2> QED BY <1>1, SMT
<1>3. queue' = [queue EXCEPT ![c] = q]
  BY DEF try_pick_next
<1> HIDE DEF q
<1>4. queue' \in [CPUs -> [Tasks -> Nat]]
  BY <1>2, <1>3 DEF TypeOK
<1>5. current' \in [CPUs -> Tasks \cup {None}]
  BY DEF TypeOK, try_pick_next
<1> QED BY <1>4, <1>5

\* Going to a step of a CPU, and breaking the loop of reschedule, keep the types.
LEMMA GotoTyped ==
  ASSUME TypeOK, NEW c \in CPUs
  PROVE  /\ \A label \in PCs : Goto(c, label) => pc' \in [CPUs -> PCs]
         /\ \A label \in PCs : Reschedule(c, label) =>
              /\ pc' \in [CPUs -> PCs]
              /\ needPreempt' \in [CPUs -> BOOLEAN] /\ ipi' = ipi
         /\ \A t \in Tasks : SwitchTo(c, t) =>
              pc' \in [CPUs -> PCs] /\ next' \in [CPUs -> Tasks \cup {None}]
<1>1. \A label \in PCs : Goto(c, label) => pc' \in [CPUs -> PCs]
  BY DEF TypeOK, Goto
<1>2. needPreempt' = [needPreempt EXCEPT ![c] = FALSE] => needPreempt' \in [CPUs -> BOOLEAN]
  BY DEF TypeOK
<1>3. \A t \in Tasks : next' = [next EXCEPT ![c] = t] => next' \in [CPUs -> Tasks \cup {None}]
  BY DEF TypeOK
<1>4. "switch" \in PCs
  BY DEF PCs
<1> QED BY <1>1, <1>2, <1>3, <1>4 DEF Reschedule, SwitchTo

\* The types are kept by the steps of sleeping and of waking up.
LEMMA SleepTyped ==
  ASSUME TypeOK, UNCHANGED system, NEW c \in CPUs,
         wait(c) \/ do_wait(c) \/ parkCheck(c) \/ yieldStart(c) \/ exitStart(c)
           \/ mightPreempt(c) \/ tick(c)
  PROVE  TypeOK'
<1>1. onCpu[c] \in Tasks
  BY DEF TypeOK
<1>2. \A v \in BOOLEAN : hasWoken' = [hasWoken EXCEPT ![onCpu[c]] = v] =>
        hasWoken' \in [Tasks -> BOOLEAN]
  BY <1>1 DEF TypeOK
<1>3. \A v \in {"new", "run", "wait", "exited"} : cont' = [cont EXCEPT ![onCpu[c]] = v] =>
        cont' \in [Tasks -> {"new", "run", "wait", "exited"}]
  BY <1>1 DEF TypeOK
<1>4. UNCHANGED <<system, rqVars, cpuVars, job>>
  BY DEF wait, do_wait, parkCheck, yieldStart, exitStart, mightPreempt, tick
<1>5. pc' \in [CPUs -> PCs]
  <2>1. {"run", "swap", "park", "parkLocked", "yield", "preempt", "exit"} \subseteq PCs
    BY DEF PCs
  <2>2. CASE wait(c) \/ parkCheck(c) \/ yieldStart(c) \/ exitStart(c) \/ mightPreempt(c)
    BY <2>1, <2>2, GotoTyped DEF wait, parkCheck, yieldStart, exitStart, mightPreempt
  <2>3. CASE do_wait(c)
    BY <2>1, <2>3, GotoTyped DEF do_wait, dropWaiter, TypeOK
  <2>4. CASE tick(c)
    BY <2>4 DEF tick, TypeOK
  <2> QED BY <2>2, <2>3, <2>4
<1>6. needPreempt' \in [CPUs -> BOOLEAN] /\ ipi' = ipi
  <2>1. \A v \in BOOLEAN : needPreempt' = [needPreempt EXCEPT ![c] = v] =>
          needPreempt' \in [CPUs -> BOOLEAN]
    BY DEF TypeOK
  <2> QED BY <2>1 DEF wait, do_wait, parkCheck, yieldStart, exitStart, mightPreempt, tick,
                      Reschedule, preemptVars, TypeOK
<1>7. hasWoken' \in [Tasks -> BOOLEAN]
  BY <1>2 DEF wait, do_wait, parkCheck, yieldStart, exitStart, mightPreempt, tick, dropWaiter,
              Self, TypeOK
<1>8. cont' \in [Tasks -> {"new", "run", "wait", "exited"}]
  BY <1>3 DEF wait, do_wait, parkCheck, yieldStart, exitStart, mightPreempt, tick, dropWaiter,
              Self, TypeOK
<1> QED BY <1>4, <1>5, <1>6, <1>7, <1>8 DEF TypeOK, rqVars, cpuVars

\* The types are kept by the decisions of reschedule.
LEMMA PickStepTyped ==
  ASSUME TypeOK, UNCHANGED system, NEW c \in CPUs,
         parkDequeue(c) \/ parkRetry(c) \/ yield_now(c) \/ might_preempt(c) \/ exit_current(c)
  PROVE  TypeOK'
<1>1. UNCHANGED <<system, lastCpu, onCpu, previous, switchedTo, needPreempt, ipi, hasWoken, cont, job>>
  BY DEF parkDequeue, parkRetry, yield_now, might_preempt, exit_current, SwitchTo, cpuVars,
         preemptVars
<1>2. taskCpu' \in [Tasks -> CPUs \cup {None}]
  <2>1. dequeue_current(c) => taskCpu' \in [Tasks -> CPUs \cup {None}]
    BY DEF TypeOK, dequeue_current
  <2> QED BY <2>1 DEF parkDequeue, parkRetry, yield_now, might_preempt, exit_current, TypeOK
<1>3. queue' \in [CPUs -> [Tasks -> Nat]] /\ current' \in [CPUs -> Tasks \cup {None}]
  <2>1. current' = [current EXCEPT ![c] = None] => current' \in [CPUs -> Tasks \cup {None}]
    BY DEF TypeOK
  <2> QED BY <2>1, PickTyped DEF parkDequeue, parkRetry, yield_now, might_preempt, exit_current,
                                 TypeOK
<1>4. pc' \in [CPUs -> PCs] /\ next' \in [CPUs -> Tasks \cup {None}]
  <2>1. {"run", "swap", "parkRetry", "exitRetry"} \subseteq PCs
    BY DEF PCs
  <2> QED BY <2>1, GotoTyped DEF parkDequeue, parkRetry, yield_now, might_preempt, exit_current,
                                 TypeOK, cpuVars
<1> QED BY <1>1, <1>2, <1>3, <1>4 DEF TypeOK

\* enqueue is called for a task and chooses a CPU.
LEMMA Selected ==
  ASSUME TypeOK, Jobs, NEW a \in Actors, enqueueSelect(a)
  PROVE  job[a].task \in Tasks /\ select_cpu(job[a].task) \subseteq CPUs
<1>1. job[a].step = "select"
  BY DEF enqueueSelect
<1>2. job[a].task \in Tasks
  BY <1>1 DEF Jobs
<1> QED BY <1>2, SMT DEF select_cpu, TypeOK

\* The types are kept by the calls of enqueue.
LEMMA EnqueueTyped ==
  ASSUME TypeOK, Jobs, UNCHANGED system, NEW a \in Actors,
         Enqueue(a) \/ (\E t \in Tasks : wake_up(a, t))
           \/ (a \in CPUs /\ \E t \in Tasks : run_new_task(a, t))
  PROVE  TypeOK'
<1> USE DEF Job
<1>1. job \in [Actors -> Job] /\ job[a] \in Job /\ NoJob \in Job
  BY DEF TypeOK, NoJob
<1>2. UNCHANGED <<system, current, cpuVars, cont>>
  BY DEF Enqueue, enqueueSelect, enqueuePush, set_need_preempt, wake_up, run_new_task, rqVars,
         cpuVars
<1>3. EndJob(a) => job' \in [Actors -> Job] /\ pc' \in [CPUs -> PCs]
  <2>1. job' = [job EXCEPT ![a] = NoJob] => job' \in [Actors -> Job]
    BY <1>1
  <2>2. "mightPreempt" \in PCs
    BY DEF PCs
  <2>3. pc' = (IF a \in CPUs THEN [pc EXCEPT ![a] = "mightPreempt"] ELSE pc) =>
          pc' \in [CPUs -> PCs]
    BY <2>2 DEF TypeOK
  <2> QED BY <2>1, <2>3 DEF EndJob
<1>4. job' \in [Actors -> Job]
  <2>1. ASSUME NEW s \in CPUs,
               job' = [job EXCEPT ![a] = [@ EXCEPT !.step = "push", !.cpu = s]]
        PROVE  job' \in [Actors -> Job]
    <3>1. [job[a] EXCEPT !.step = "push", !.cpu = s] \in Job
      BY <1>1
    <3> QED BY <1>1, <2>1, <3>1
  <2>2. ASSUME NEW s \in CPUs,
               job' = [job EXCEPT ![a] = [@ EXCEPT !.step = "push", !.cpu = s, !.still = TRUE]]
        PROVE  job' \in [Actors -> Job]
    <3>1. [job[a] EXCEPT !.step = "push", !.cpu = s, !.still = TRUE] \in Job
      BY <1>1
    <3> QED BY <1>1, <2>2, <3>1
  <2>3. job' = [job EXCEPT ![a].step = "ipi"] => job' \in [Actors -> Job]
    BY <1>1, SMT
  <2>4. ASSUME NEW t \in Tasks,
               job' = [job EXCEPT ![a] = [NoJob EXCEPT !.step = "select", !.task = t]]
        PROVE  job' \in [Actors -> Job]
    <3>1. [NoJob EXCEPT !.step = "select", !.task = t] \in Job
      BY DEF NoJob
    <3> QED BY <1>1, <2>4, <3>1
  <2>5. ASSUME enqueueSelect(a) PROVE job' \in [Actors -> Job]
    <3>1. job[a].task \in Tasks /\ select_cpu(job[a].task) \subseteq CPUs
      BY <2>5, Selected
    <3>2. taskCpu[job[a].task] # None => taskCpu[job[a].task] \in CPUs
      BY <3>1 DEF TypeOK
    <3> QED BY <2>1, <2>2, <2>5, <3>1, <3>2 DEF enqueueSelect
  <2> QED BY <1>1, <1>3, <2>3, <2>4, <2>5
          DEF Enqueue, enqueuePush, set_need_preempt, wake_up, run_new_task
<1>5. pc' \in [CPUs -> PCs]
  <2>1. "spawn" \in PCs
    BY DEF PCs
  <2> QED BY <1>3, <2>1, GotoTyped
          DEF Enqueue, enqueueSelect, enqueuePush, set_need_preempt, wake_up, run_new_task, TypeOK
<1>6. /\ taskCpu' \in [Tasks -> CPUs \cup {None}] /\ lastCpu' \in [Tasks -> CPUs \cup {None}]
      /\ queue' \in [CPUs -> [Tasks -> Nat]]
  <2>1. CASE enqueueSelect(a)
    <3>1. job[a].task \in Tasks /\ select_cpu(job[a].task) \subseteq CPUs
      BY <2>1, Selected
    <3>2. \A s \in CPUs : taskCpu' = [taskCpu EXCEPT ![job[a].task] = s] =>
            taskCpu' \in [Tasks -> CPUs \cup {None}]
      BY <3>1 DEF TypeOK
    <3> QED BY <2>1, <3>1, <3>2 DEF enqueueSelect, TypeOK
  <2>2. CASE enqueuePush(a)
    <3>1. job[a].task \in Tasks /\ job[a].cpu \in CPUs
      BY <2>2 DEF enqueuePush, Jobs
    <3>2. taskCpu' = [taskCpu EXCEPT ![job[a].task] = job[a].cpu] =>
            taskCpu' \in [Tasks -> CPUs \cup {None}]
      BY <3>1 DEF TypeOK
    <3>3. lastCpu' = [lastCpu EXCEPT ![job[a].task] = job[a].cpu] =>
            lastCpu' \in [Tasks -> CPUs \cup {None}]
      BY <3>1 DEF TypeOK
    <3>4. queue' = [queue EXCEPT ![job[a].cpu][job[a].task] = @ + 1] =>
            queue' \in [CPUs -> [Tasks -> Nat]]
      BY <3>1, SMT DEF TypeOK
    <3> QED BY <2>2, <3>2, <3>3, <3>4 DEF enqueuePush, rqVars, TypeOK
  <2> QED BY <2>1, <2>2 DEF Enqueue, set_need_preempt, wake_up, run_new_task, rqVars, TypeOK
<1>7. needPreempt' \in [CPUs -> BOOLEAN] /\ ipi' \subseteq CPUs
  <2>1. CASE set_need_preempt(a)
    <3>1. job[a].cpu \in CPUs
      BY <2>1 DEF set_need_preempt, Jobs
    <3> QED BY <2>1, <3>1 DEF set_need_preempt, TypeOK
  <2> QED BY <2>1 DEF Enqueue, enqueueSelect, enqueuePush, wake_up, run_new_task, preemptVars, TypeOK
<1>8. hasWoken' \in [Tasks -> BOOLEAN]
  BY DEF Enqueue, enqueueSelect, enqueuePush, set_need_preempt, wake_up, run_new_task, TypeOK
<1> QED BY <1>2, <1>4, <1>5, <1>6, <1>7, <1>8 DEF TypeOK, cpuVars

\* The types are kept by the context switch.
LEMMA SwitchTyped ==
  ASSUME TypeOK, Agreed, Contexts, UNCHANGED system, NEW c \in CPUs,
         switch_to_task(c) \/ after_switching_to(c)
  PROVE  TypeOK'
<1>1. CASE switch_to_task(c)
  <2>1. next[c] \in Tasks /\ onCpu[c] \in Tasks /\ "switched" \in PCs
    BY <1>1 DEF switch_to_task, At, Agreed, TypeOK, PCs
  <2>2. UNCHANGED <<system, rqVars, preemptVars, hasWoken, cont, job>>
    BY <1>1 DEF switch_to_task
  <2>3. switchedTo' \in [Tasks -> BOOLEAN] /\ onCpu' \in [CPUs -> Tasks]
    BY <1>1, <2>1 DEF switch_to_task, TypeOK
  <2>4. previous' \in [CPUs -> Tasks \cup {None}] /\ next' \in [CPUs -> Tasks \cup {None}]
    BY <1>1, <2>1 DEF switch_to_task, TypeOK
  <2>5. pc' \in [CPUs -> PCs]
    BY <1>1, <2>1, GotoTyped DEF switch_to_task
  <2> QED BY <2>2, <2>3, <2>4, <2>5 DEF TypeOK, rqVars, preemptVars
<1>2. CASE after_switching_to(c)
  <2>1. /\ previous[c] \in Tasks /\ onCpu[c] \in Tasks
        /\ {"swap", "unreachable", "run"} \subseteq PCs
    BY <1>2, SMT DEF after_switching_to, At, Contexts, TypeOK, PCs
  <2>2. UNCHANGED <<system, rqVars, onCpu, next, preemptVars, hasWoken, job>>
    BY <1>2 DEF after_switching_to
  <2>3. switchedTo' \in [Tasks -> BOOLEAN] /\ previous' \in [CPUs -> Tasks \cup {None}]
    BY <1>2, <2>1 DEF after_switching_to, TypeOK
  <2>4. \E label \in {"swap", "unreachable", "run"} : Goto(c, label)
    BY <1>2 DEF after_switching_to
  <2>5. cont' = cont \/ cont' = [cont EXCEPT ![onCpu[c]] = "run"]
    BY <1>2 DEF after_switching_to, Self
  <2>6. pc' \in [CPUs -> PCs]
    BY <2>1, <2>4, GotoTyped
  <2>7. cont' \in [Tasks -> {"new", "run", "wait", "exited"}]
    BY <2>1, <2>5 DEF TypeOK
  <2> QED BY <2>2, <2>3, <2>6, <2>7 DEF TypeOK, rqVars, preemptVars
<1> QED BY <1>1, <1>2

-----------------------------------------------------------------------------
(* What picking a task does to the run queues *)

\* What try_pick_next leaves in the run queues.
LEMMA Picked ==
  ASSUME TypeOK, Placed, NEW c \in CPUs, NEW t \in Tasks, NEW old, try_pick_next(c, t, old),
         old \in {None, current[c]}
  PROVE  /\ queue[c][t] = 1 /\ t # current[c]
         /\ current'[c] = t /\ \A d \in CPUs \ {c} : current'[d] = current[d]
         /\ \A d \in CPUs \ {c} : queue'[d] = queue[d]
         /\ \A u \in Tasks : queue'[c][u] = IF u = t THEN 0 ELSE IF u = old THEN 1 ELSE queue[c][u]
<1>1. queue[c][t] = 1 /\ t # current[c]
  BY SMT DEF try_pick_next, pick_next_entity, Queued, Placed, TypeOK
<1>2. current'[c] = t /\ \A d \in CPUs \ {c} : current'[d] = current[d]
  BY DEF try_pick_next, TypeOK
<1>3. \A d \in CPUs \ {c} : queue'[d] = queue[d]
  BY DEF try_pick_next, TypeOK
<1>4. ASSUME NEW u \in Tasks
      PROVE  queue'[c][u] = IF u = t THEN 0 ELSE IF u = old THEN 1 ELSE queue[c][u]
  <2>1. queue'[c][u] = (queue[c][u] + (IF u = old THEN 1 ELSE 0)) - (IF u = t THEN 1 ELSE 0)
    BY DEF try_pick_next, TypeOK
  <2>2. queue[c][u] \in {0, 1} /\ (queue[c][u] = 1 => current[c] # u)
    BY DEF Placed
  <2>3. u = old => queue[c][u] = 0
    BY <2>2, Setup
  <2>4. u = t => u # old
    BY <1>1, <2>3, SMT
  <2> QED BY <1>1, <2>1, <2>2, <2>3, <2>4, SMT
<1> QED BY <1>1, <1>2, <1>3, <1>4

\* A task is picked and the current one, if any, is put back.
LEMMA PickKeeps ==
  ASSUME TypeOK, Placed, NEW c \in CPUs, NEW t \in Tasks, try_pick_next(c, t, current[c]),
         taskCpu' = taskCpu
  PROVE  /\ Placed' /\ \A d \in CPUs, u \in Tasks : Has(d, u)' <=> Has(d, u)
         /\ Has(c, t) /\ t # current[c]
         /\ current'[c] = t /\ \A d \in CPUs \ {c} : current'[d] = current[d]
<1> DEFINE old == current[c]
<1>1. /\ queue[c][t] = 1 /\ t # old
      /\ current'[c] = t /\ \A d \in CPUs \ {c} : current'[d] = current[d]
      /\ \A d \in CPUs \ {c} : queue'[d] = queue[d]
      /\ \A u \in Tasks : queue'[c][u] = IF u = t THEN 0 ELSE IF u = old THEN 1 ELSE queue[c][u]
  BY Picked, SMT
<1>2. ASSUME NEW d \in CPUs, NEW u \in Tasks
      PROVE  /\ Has(d, u)' <=> Has(d, u)
             /\ queue'[d][u] \in {0, 1} /\ (queue'[d][u] = 1 => current'[d] # u)
  BY <1>1, SMT DEF Has, Placed
<1> QED BY <1>1, <1>2, SMT DEF Placed, Has

\* The current task leaves the run queue, and another one, if any, is picked.
LEMMA PickDrops ==
  ASSUME TypeOK, Placed, NEW c \in CPUs, current[c] \in Tasks, dequeue_current(c),
         \/ \E t \in Tasks : try_pick_next(c, t, None)
         \/ current' = [current EXCEPT ![c] = None] /\ queue' = queue
  PROVE  /\ Placed'
         /\ \A d \in CPUs, u \in Tasks : Has(d, u)' <=> Has(d, u) /\ u # current[c]
         /\ taskCpu'[current[c]] = None
         /\ \A u \in Tasks \ {current[c]} : taskCpu'[u] = taskCpu[u]
         /\ \A d \in CPUs \ {c} : current'[d] = current[d]
<1> DEFINE old == current[c]
<1>1. /\ taskCpu'[old] = None
      /\ \A u \in Tasks \ {old} : taskCpu'[u] = taskCpu[u]
  BY Setup DEF dequeue_current, TypeOK
<1>2. \A d \in CPUs : d # c => ~Has(d, old)
  BY SMT DEF Has, Placed
<1>3. queue[c][old] = 0 /\ old # None
  BY Setup DEF Placed
<1>4. ASSUME NEW d \in CPUs, NEW u \in Tasks
      PROVE  /\ Has(d, u)' <=> Has(d, u) /\ u # old
             /\ queue'[d][u] \in {0, 1} /\ (queue'[d][u] = 1 => current'[d] # u)
             /\ d # c => current'[d] = current[d]
  <2>1. CASE \E t \in Tasks : try_pick_next(c, t, None)
    <3>1. PICK t \in Tasks : try_pick_next(c, t, None)
      BY <2>1
    <3>2. /\ queue[c][t] = 1 /\ t # old
          /\ current'[c] = t /\ (d # c => current'[d] = current[d] /\ queue'[d] = queue[d])
          /\ queue'[c][u] = IF u = t THEN 0 ELSE IF u = None THEN 1 ELSE queue[c][u]
      BY <3>1, Picked, SMT
    <3>3. u # None /\ queue[d][u] \in {0, 1} /\ (queue[d][u] = 1 => current[d] # u)
      BY Setup DEF Placed
    <3> QED BY <1>2, <1>3, <3>2, <3>3, SMT DEF Has
  <2>2. CASE current' = [current EXCEPT ![c] = None] /\ queue' = queue
    <3>1. current'[c] = None /\ (d # c => current'[d] = current[d])
      BY <2>2 DEF TypeOK
    <3>2. u # None /\ queue[d][u] \in {0, 1} /\ (queue[d][u] = 1 => current[d] # u)
      BY Setup DEF Placed
    <3> QED BY <1>2, <1>3, <2>2, <3>1, <3>2 DEF Has
  <2> QED BY <2>1, <2>2
<1>5. \A d \in CPUs, u \in Tasks : Has(d, u)' => taskCpu'[u] = d
  BY <1>1, <1>4, SMT DEF Placed
<1> QED BY <1>1, <1>4, <1>5 DEF Placed

-----------------------------------------------------------------------------
(* What keeps the conjuncts of the invariant *)

\* The run queues are left alone.
LEMMA QueuesKept ==
  ASSUME UNCHANGED <<queue, current, taskCpu>>
  PROVE  (Placed => Placed') /\ \A c \in CPUs, t \in Tasks : Has(c, t)' <=> Has(c, t)
<1>1. \A c \in CPUs, t \in Tasks : Has(c, t)' <=> Has(c, t)
  BY DEF Has
<1> QED BY <1>1, SMT DEF Placed

\* The calls of enqueue that own a task stay the same.
LEMMA ClaimsKept ==
  ASSUME Claimed, taskCpu' = taskCpu, \A c \in CPUs, t \in Tasks : Has(c, t)' <=> Has(c, t),
         \A a \in Actors, t \in Tasks : /\ Owner(a, t)' <=> Owner(a, t)
                                        /\ Owner(a, t) => job'[a].cpu = job[a].cpu
  PROVE  Claimed'
BY DEF Claimed

\* No CPU switches.
LEMMA ContextsKept ==
  ASSUME Contexts, UNCHANGED <<onCpu, previous, switchedTo>>,
         \A c \in CPUs : pc'[c] = "switched" <=> pc[c] = "switched"
  PROVE  Contexts'
BY DEF Contexts

\* No task parks or loses the call of enqueue that will find it.
LEMMA RescuesKept ==
  ASSUME Rescued,
         \A c \in CPUs : pc'[c] = "parkLocked" =>
           /\ pc[c] = "parkLocked" /\ onCpu'[c] = onCpu[c]
           /\ hasWoken'[onCpu[c]] => hasWoken[onCpu[c]],
         \A a \in Actors, t \in Tasks, c \in CPUs :
           pc[c] = "parkLocked" /\ Reaches(a, t, c) => Reaches(a, t, c)',
         \A c \in CPUs : onCpu[c] \in Tasks
  PROVE  Rescued'
<1> SUFFICES ASSUME NEW c \in CPUs, pc'[c] = "parkLocked", hasWoken'[onCpu'[c]]
             PROVE  \E a \in Actors : Reaches(a, onCpu[c], c)' /\ onCpu'[c] = onCpu[c]
  BY SMT DEF Rescued, Reaches
<1>1. pc[c] = "parkLocked" /\ hasWoken[onCpu[c]] /\ onCpu'[c] = onCpu[c] /\ onCpu[c] \in Tasks
  OBVIOUS
<1>2. PICK a \in Actors : Reaches(a, onCpu[c], c)
  BY <1>1 DEF Rescued
<1>3. Reaches(a, onCpu[c], c)'
  BY <1>1, <1>2 DEF Reaches
<1> QED BY <1>1, <1>3

\* No woken task leaves the run queues or loses its call of enqueue.
LEMMA WakesKept ==
  ASSUME Woken,
         \A t \in Tasks : cont'[t] = "wait" /\ hasWoken'[t] /\ (\A c \in CPUs : ~Has(c, t)') =>
           cont[t] = "wait" /\ hasWoken[t] /\ (\A c \in CPUs : ~Has(c, t)),
         \A a \in Actors : job[a].step \in {"select", "push"} =>
           job'[a].task = job[a].task /\ job'[a].step \in {"select", "push"}
  PROVE  Woken'
BY SMT DEF Woken

\* No task is moved to another CPU.
LEMMA HomesKept ==
  ASSUME Homes, UNCHANGED <<system, lastCpu, taskCpu, onCpu>>,
         \A c \in CPUs, t \in Tasks : Has(c, t)' <=> Has(c, t),
         \A a \in Actors, t \in Tasks : Pushing(a, t)' =>
           Pushing(a, t) /\ job'[a].cpu = job[a].cpu,
         \A c \in CPUs : /\ previous'[c] \in {previous[c], None}
                         /\ pc'[c] = "switch" => pc[c] = "switch" /\ next'[c] = next[c]
  PROVE  Homes'
<1> SUFFICES ASSUME ~Migrating PROVE Homes'
  BY DEF Homes, Migrating
<1>1. \A c \in CPUs : /\ lastCpu'[onCpu'[c]] = c
                      /\ previous'[c] # None => lastCpu'[previous'[c]] = c
                      /\ pc'[c] = "switch" => next'[c] # onCpu'[c]
  BY DEF Homes
<1>2. \A c \in CPUs, t \in Tasks : Has(c, t)' => lastCpu'[t] = c
  BY DEF Homes
<1>3. \A a \in Actors, t \in Tasks :
        Pushing(a, t)' => IF lastCpu'[t] # None THEN job'[a].cpu = lastCpu'[t]
                          ELSE taskCpu'[t] = job'[a].cpu
  BY SMT DEF Homes
<1> QED BY <1>1, <1>2, <1>3 DEF Homes

\* No idle task leaves its run queue.
LEMMA IdlesKept ==
  ASSUME TypeOK, Idles, system' = system,
         \A c \in CPUs, t \in Tasks : Has(c, t) => Has(c, t)',
         \A c \in CPUs : pc'[c] \in {"parkRetry", "exitRetry"} => pc'[c] = pc[c]
  PROVE  Idles'
<1>1. \A c \in CPUs : Boot[c] \in Tasks /\ Boot'[c] = Boot[c] /\ Class' = Class
  BY Setup DEF Boot, Class
<1>2. \A c \in CPUs : Has(c, Boot[c]) => Has(c, Boot[c])'
  BY <1>1 DEF Boot
<1> QED BY <1>1, <1>2 DEF Idles

-----------------------------------------------------------------------------
(* Steps of one CPU that leave the run queues alone *)

\* A step that changes nothing but needPreempt and ipi keeps the invariant.
LEMMA Untouched ==
  ASSUME IInv, TypeOK', UNCHANGED <<system, rqVars, cpuVars, hasWoken, pc, cont, job>>
  PROVE  IInv'
<1>1. UNCHANGED <<system, taskCpu, lastCpu, queue, current, onCpu, previous, switchedTo, next, pc, job>>
  BY DEF rqVars, cpuVars
<1>2. Placed' /\ \A c \in CPUs, t \in Tasks : Has(c, t)' <=> Has(c, t)
  BY <1>1, QueuesKept DEF IInv
<1>3. \A a \in Actors, t \in Tasks : (Pushing(a, t)' <=> Pushing(a, t)) /\ (Owner(a, t)' <=> Owner(a, t))
  BY <1>1 DEF Pushing, Owner
<1>4. Claimed' /\ Contexts' /\ Homes' /\ Idles'
  BY <1>1, <1>2, <1>3, ClaimsKept, ContextsKept, HomesKept, IdlesKept DEF IInv
<1>5. Jobs' /\ Agreed'
  BY <1>1 DEF IInv, Jobs, Agreed
<1>6. Inside'
  BY <1>1 DEF IInv, Inside, Class
<1>7. Rescued' /\ Woken'
  BY <1>1, <1>2, SMT DEF IInv, Rescued, Reaches, Woken
<1> QED BY <1>2, <1>4, <1>5, <1>6, <1>7 DEF IInv

\* The steps at which a CPU runs its current task.
Calm == {"run", "swap", "park", "yield", "mightPreempt", "preempt"}

\* A step of the task that c runs, which concerns only its own cont and waiter.
LEMMA Local ==
  ASSUME IInv, TypeOK', NEW c \in CPUs, NEW label, Goto(c, label),
         UNCHANGED <<system, rqVars, cpuVars, job>>,
         pc[c] \in Calm, label \in Calm \cup {"parkLocked", "exit"},
         \A t \in Tasks \ {onCpu[c]} : cont'[t] = cont[t] /\ hasWoken'[t] = hasWoken[t],
         label \in {"swap", "park", "parkLocked"} => cont'[onCpu[c]] = "wait",
         label = "exit" => cont'[onCpu[c]] = "exited",
         cont'[onCpu[c]] \in {"wait", "exited"} => Class[onCpu[c]] # Idle,
         label = "parkLocked" => ~hasWoken'[onCpu[c]]
  PROVE  IInv'
<1>1. /\ pc'[c] = label /\ \A d \in CPUs \ {c} : pc'[d] = pc[d]
      /\ current[c] = onCpu[c] /\ onCpu[c] \in Tasks
  BY DEF IInv, TypeOK, Goto, Agreed, Calm
<1>2. UNCHANGED <<system, taskCpu, lastCpu, queue, current, onCpu, previous, switchedTo, next, job>>
  BY DEF rqVars, cpuVars
<1>3. Placed' /\ \A d \in CPUs, t \in Tasks : Has(d, t)' <=> Has(d, t)
  BY <1>2, QueuesKept DEF IInv
<1>4. \A a \in Actors, t \in Tasks : (Pushing(a, t)' <=> Pushing(a, t)) /\ (Owner(a, t)' <=> Owner(a, t))
  BY <1>2 DEF Pushing, Owner
<1>5. \A d \in CPUs :
        /\ pc'[d] = pc[d] \/ (d = c /\ pc'[d] = label)
        /\ pc'[d] = "spawn" <=> pc[d] = "spawn"
        /\ pc'[d] = "switched" <=> pc[d] = "switched"
        /\ pc'[d] = "switch" => pc[d] = "switch"
        /\ pc'[d] \in {"parkRetry", "exitRetry"} => pc'[d] = pc[d]
        /\ pc'[d] = "parkLocked" /\ d # c => pc[d] = "parkLocked"
  BY <1>1 DEF Calm
<1>6. Claimed'
  BY <1>2, <1>3, <1>4, ClaimsKept DEF IInv
<1>7. Contexts'
  BY <1>2, <1>5, ContextsKept DEF IInv
<1>8. Homes'
  BY <1>2, <1>3, <1>4, <1>5, HomesKept DEF IInv
<1>9. Idles'
  BY <1>2, <1>3, <1>5, IdlesKept DEF IInv
<1>10. Jobs'
  BY <1>2, <1>5, SMT DEF IInv, Jobs
<1>11. Agreed'
  BY <1>1, <1>2, SMT DEF IInv, Agreed, Calm
<1>12. \A d \in CPUs \ {c} : onCpu[d] \in Tasks \ {onCpu[c]}
  BY DEF IInv, TypeOK, Contexts
<1>13. Inside'
  <2>1. \A t \in Tasks : cont'[t] \in {"wait", "exited"} => Class[t] # Idle
    BY DEF IInv, Inside
  <2> QED BY <1>1, <1>2, <1>5, <1>12, <2>1, SMT DEF IInv, Inside, Class, Calm
<1>14. Rescued'
  BY <1>1, <1>2, <1>12, SMT DEF IInv, Rescued, Reaches
<1>15. Woken'
  <2>1. Has(c, onCpu[c])
    BY <1>1 DEF Has
  <2> QED BY <1>2, <1>3, <2>1, SMT DEF IInv, Woken
<1> QED BY <1>3, <1>6, <1>7, <1>8, <1>9, <1>10, <1>11, <1>13, <1>14, <1>15 DEF IInv

\* The steps of sleeping, yielding, exiting and might_preempt before the run
\* queue is looked at.
LEMMA LocalStep ==
  ASSUME IInv, TypeOK', UNCHANGED system, NEW c \in CPUs,
         wait(c) \/ do_wait(c) \/ parkCheck(c) \/ yieldStart(c) \/ exitStart(c) \/ mightPreempt(c)
  PROVE  IInv'
<1> DEFINE t == onCpu[c]
<1>1. UNCHANGED <<system, rqVars, cpuVars, job>>
  BY DEF wait, do_wait, parkCheck, yieldStart, exitStart, mightPreempt
<1>2. t \in Tasks /\ cont \in [Tasks -> {"new", "run", "wait", "exited"}]
        /\ hasWoken \in [Tasks -> BOOLEAN]
  BY DEF IInv, TypeOK
<1>3. /\ pc[c] = "swap" \/ pc[c] = "park" => cont[t] = "wait"
      /\ cont[t] \in {"wait", "exited"} => Class[t] # Idle
  BY <1>2 DEF IInv, Inside
<1>4. CASE wait(c)
  <2>1. /\ Goto(c, "swap") /\ pc[c] \in Calm /\ Class[t] # Idle
        /\ hasWoken' = [hasWoken EXCEPT ![t] = FALSE] /\ cont' = [cont EXCEPT ![t] = "wait"]
    BY <1>4 DEF wait, At, MayBlock, Self, Calm
  <2> QED BY <1>1, <1>2, <2>1, Local DEF Calm
<1>5. CASE do_wait(c)
  <2>1. pc[c] = "swap"
    BY <1>5 DEF do_wait, At
  <2>2. CASE dropWaiter(c)
    <3>1. /\ Goto(c, "run")
          /\ hasWoken' = [hasWoken EXCEPT ![t] = TRUE] /\ cont' = [cont EXCEPT ![t] = "run"]
      BY <2>2 DEF dropWaiter, Self
    <3> QED BY <1>1, <1>2, <2>1, <3>1, Local DEF Calm
  <2>3. CASE hasWoken' = [hasWoken EXCEPT ![t] = FALSE] /\ UNCHANGED <<pc, cont, preemptVars>>
    <3>1. Goto(c, "swap")
      BY <2>1, <2>3 DEF Goto, IInv, TypeOK
    <3> QED BY <1>1, <1>2, <1>3, <2>1, <2>3, <3>1, Local DEF Calm
  <2>4. CASE Reschedule(c, "park") /\ UNCHANGED <<hasWoken, cont>>
    <3>1. Goto(c, "park")
      BY <2>4 DEF Reschedule
    <3> QED BY <1>1, <1>3, <2>1, <2>4, <3>1, Local DEF Calm
  <2> QED BY <1>5, <2>2, <2>3, <2>4 DEF do_wait, Self
<1>6. CASE parkCheck(c)
  <2>1. /\ pc[c] = "park" /\ UNCHANGED <<hasWoken, cont>>
        /\ Goto(c, IF hasWoken[t] THEN "swap" ELSE "parkLocked")
    BY <1>6 DEF parkCheck, At, Self
  <2> QED BY <1>1, <1>2, <1>3, <2>1, Local DEF Calm
<1>7. CASE yieldStart(c)
  <2>1. pc[c] = "run" /\ UNCHANGED <<hasWoken, cont>> /\ Goto(c, "yield")
    BY <1>7 DEF yieldStart, At, Reschedule
  <2> QED BY <1>1, <1>3, <2>1, Local DEF Calm
<1>8. CASE exitStart(c)
  <2>1. /\ Goto(c, "exit") /\ pc[c] \in Calm /\ Class[t] # Idle
        /\ hasWoken' = hasWoken /\ cont' = [cont EXCEPT ![t] = "exited"]
    BY <1>8 DEF exitStart, At, MayBlock, Self, Calm, Reschedule
  <2> QED BY <1>1, <1>2, <2>1, Local DEF Calm
<1>9. CASE mightPreempt(c)
  <2>1. /\ pc[c] \in Calm /\ UNCHANGED <<hasWoken, cont>>
        /\ Goto(c, "preempt") \/ Goto(c, "run")
    BY <1>9 DEF mightPreempt, At, Reschedule, Calm
  <2> QED BY <1>1, <1>3, <2>1, Local DEF Calm
<1> QED BY <1>4, <1>5, <1>6, <1>7, <1>8, <1>9

-----------------------------------------------------------------------------
(* The decisions of reschedule *)

\* Only the pc of c has changed, to label.
Moves(c, label) == pc'[c] = label /\ \A d \in CPUs \ {c} : pc'[d] = pc[d]

\* A task is picked and the current one put back: the CPU goes on to switch to
\* it, or finds that it is the one that was parking.
LEMMA KeepStep ==
  ASSUME IInv, TypeOK', NEW c \in CPUs, NEW t \in Tasks, try_pick_next(c, t, current[c]),
         UNCHANGED <<system, taskCpu, lastCpu, onCpu, previous, switchedTo, hasWoken, cont, job>>,
         pc[c] \notin {"spawn", "switched", "switch"},
         \/ Moves(c, "switch") /\ next'[c] = t /\ (Migrating \/ t # onCpu[c])
         \/ Moves(c, "swap") /\ next'[c] = next[c] /\ t = onCpu[c] /\ pc[c] = "parkRetry",
         \A d \in CPUs \ {c} : next'[d] = next[d]
  PROVE  IInv'
<1>1. /\ Placed' /\ \A d \in CPUs, u \in Tasks : Has(d, u)' <=> Has(d, u)
      /\ current'[c] = t /\ \A d \in CPUs \ {c} : current'[d] = current[d]
  BY PickKeeps DEF IInv
<1>2. /\ pc'[c] \in {"switch", "swap"} /\ \A d \in CPUs \ {c} : pc'[d] = pc[d]
      /\ pc'[c] = "switch" => next'[c] = t /\ (Migrating \/ t # onCpu[c])
      /\ pc'[c] = "swap" => t = onCpu[c] /\ pc[c] = "parkRetry"
  BY DEF Moves
<1>3. \A a \in Actors, u \in Tasks : (Pushing(a, u)' <=> Pushing(a, u)) /\ (Owner(a, u)' <=> Owner(a, u))
  BY DEF Pushing, Owner
<1>4. Claimed'
  BY <1>1, <1>3, ClaimsKept DEF IInv
<1>5. Contexts'
  BY <1>2, ContextsKept DEF IInv
<1>6. Jobs'
  BY <1>2 DEF IInv, Jobs
<1>7. Agreed'
  BY <1>1, <1>2 DEF IInv, Agreed
<1>8. Inside'
  BY <1>2 DEF IInv, Inside, Class
<1>9. Rescued'
  BY <1>2, SMT DEF IInv, Rescued, Reaches
<1>10. Woken'
  BY <1>1 DEF IInv, Woken
<1>11. Homes'
  <2> SUFFICES ASSUME ~Migrating PROVE Homes'
    BY DEF Homes, Migrating
  <2>1. \A d \in CPUs : pc'[d] = "switch" => next'[d] # onCpu'[d]
    BY <1>2 DEF IInv, Homes
  <2> QED BY <1>1, <1>3, <2>1 DEF IInv, Homes
<1>12. Idles'
  BY <1>1, <1>2, IdlesKept DEF IInv
<1> QED BY <1>1, <1>4, <1>5, <1>6, <1>7, <1>8, <1>9, <1>10, <1>11, <1>12 DEF IInv

\* The current task leaves the run queue, to wait or because it exits.  If it
\* was woken meanwhile, a call of enqueue waits for the lock to put it back; and
\* there is another task to pick if the CPU has an idle task.
LEMMA DropStep ==
  ASSUME IInv, TypeOK', NEW c \in CPUs, dequeue_current(c),
         UNCHANGED <<system, lastCpu, onCpu, previous, switchedTo, hasWoken, cont, job>>,
         pc[c] \in {"parkLocked", "exit"},
         \/ \E t \in Tasks : /\ try_pick_next(c, t, None)
                             /\ Moves(c, "switch") /\ next'[c] = t
         \/ /\ Queued(c) = {} /\ current' = [current EXCEPT ![c] = None] /\ queue' = queue
            /\ Moves(c, IF pc[c] = "exit" THEN "exitRetry" ELSE "parkRetry"),
         \A d \in CPUs \ {c} : next'[d] = next[d]
  PROVE  IInv'
<1> DEFINE old == onCpu[c]
<1>1. current[c] = old /\ old \in Tasks /\ Has(c, old)
  BY DEF IInv, Agreed, TypeOK, Has
<1>2. /\ Placed'
      /\ \A d \in CPUs, u \in Tasks : Has(d, u)' <=> Has(d, u) /\ u # old
      /\ taskCpu'[old] = None
      /\ \A u \in Tasks \ {old} : taskCpu'[u] = taskCpu[u]
      /\ \A d \in CPUs \ {c} : current'[d] = current[d]
  BY <1>1, PickDrops DEF IInv
<1>3. Class[old] # Idle
  BY <1>1 DEF IInv, Inside
<1>4. Class[Boot[c]] = Idle => queue[c][Boot[c]] = 1 /\ Queued(c) # {}
  <2> SUFFICES ASSUME Class[Boot[c]] = Idle PROVE queue[c][Boot[c]] = 1 /\ Queued(c) # {}
    OBVIOUS
  <2>1. Boot[c] \in Tasks /\ Boot[c] # old /\ Has(c, Boot[c])
    BY <1>3, Setup DEF IInv, Idles
  <2> QED BY <1>1, <2>1, SMT DEF Has, Queued
<1>5. \E label \in {"switch", "parkRetry", "exitRetry"} : Moves(c, label)
  OBVIOUS
<1>6. Jobs'
  BY <1>5, SMT DEF IInv, Jobs, Moves
<1>7. Claimed'
  <2>1. \A a \in Actors : ~Owner(a, old)
    BY <1>1 DEF IInv, Claimed
  <2> QED BY <1>1, <1>2, <2>1, SMT DEF IInv, Claimed, Owner, Pushing
<1>8. Contexts'
  BY <1>5, SMT DEF IInv, Contexts, Moves
<1>9. Agreed'
  <2>1. CASE \E t \in Tasks : /\ try_pick_next(c, t, None)
                              /\ Moves(c, "switch") /\ next'[c] = t
    <3>1. PICK t \in Tasks : try_pick_next(c, t, None) /\ Moves(c, "switch") /\ next'[c] = t
      BY <2>1
    <3>2. current'[c] = t
      BY <3>1, Picked DEF IInv
    <3> QED BY <1>2, <3>1, <3>2, SMT DEF IInv, Agreed, Moves
  <2>2. CASE current' = [current EXCEPT ![c] = None]
             /\ Moves(c, IF pc[c] = "exit" THEN "exitRetry" ELSE "parkRetry")
    <3>1. current'[c] = None
      BY <2>2 DEF IInv, TypeOK
    <3> QED BY <1>2, <2>2, <3>1, SMT DEF IInv, Agreed, Moves
  <2> QED BY <2>1, <2>2
<1>10. Inside'
  BY SMT DEF IInv, Inside, Class, Moves
<1>11. Rescued'
  BY <1>5, SMT DEF IInv, Rescued, Reaches, Moves
<1>12. Woken'
  <2>1. cont[old] = "wait" /\ hasWoken[old] =>
          \E a \in Actors : job[a].task = old /\ job[a].step \in {"select", "push"}
    BY SMT DEF IInv, Inside, Rescued, Reaches
  <2> QED BY <1>2, <2>1, SMT DEF IInv, Woken
<1>13. Homes'
  <2>1. ASSUME ~Migrating PROVE pc'[c] = "switch" /\ next'[c] # old
    <3>1. PICK t \in Tasks : try_pick_next(c, t, None) /\ Moves(c, "switch") /\ next'[c] = t
      BY <1>4, <2>1, Setup DEF IInv
    <3> QED BY <1>1, <3>1, Picked DEF IInv, Moves
  <2>2. ~Migrating => lastCpu[old] = c /\ lastCpu[old] # None
    BY <1>1, Setup, SMT DEF IInv, Homes
  <2> QED BY <1>2, <1>5, <2>1, <2>2, SMT DEF IInv, Homes, Pushing, Migrating, Moves
<1>14. Idles'
  <2>1. \A d \in CPUs : Boot[d] \in Tasks /\ Boot'[d] = Boot[d] /\ Class' = Class
    BY Setup DEF IInv, Boot, Class
  <2>2. \A d \in CPUs : Has(d, Boot[d])' <=> Has(d, Boot[d]) /\ Boot[d] # old
    BY <1>2, <2>1 DEF Boot
  <2>3. \A d \in CPUs : Class[Boot[d]] = Idle => Boot[d] # old
    BY <1>3
  <2>4. Class[Boot[c]] = Idle => Moves(c, "switch")
    BY <1>4
  <2> QED BY <1>5, <2>1, <2>2, <2>3, <2>4 DEF IInv, Idles, Moves
<1> QED BY <1>2, <1>6, <1>7, <1>8, <1>9, <1>10, <1>11, <1>12, <1>13, <1>14 DEF IInv

\* The steps of park_current, yield_now, might_preempt and exit_current under
\* the lock of the run queue.
LEMMA PickStep ==
  ASSUME IInv, TypeOK', UNCHANGED system, NEW c \in CPUs,
         parkDequeue(c) \/ parkRetry(c) \/ yield_now(c) \/ might_preempt(c) \/ exit_current(c)
  PROVE  IInv'
<1>1. /\ \A t \in Tasks : SwitchTo(c, t) =>
           /\ Moves(c, "switch") /\ next'[c] = t /\ \A d \in CPUs \ {c} : next'[d] = next[d]
           /\ UNCHANGED <<onCpu, previous, switchedTo>>
      /\ \A label : Goto(c, label) => Moves(c, label)
  BY SMT DEF IInv, TypeOK, SwitchTo, Goto, Moves
<1>2. CASE parkDequeue(c)
  <2>1. /\ pc[c] = "parkLocked" /\ dequeue_current(c)
        /\ UNCHANGED <<lastCpu, hasWoken, cont, job>>
        /\ \/ \E t \in Tasks : try_pick_next(c, t, None) /\ SwitchTo(c, t)
           \/ /\ Queued(c) = {} /\ current' = [current EXCEPT ![c] = None]
              /\ Goto(c, "parkRetry") /\ UNCHANGED <<queue, cpuVars>>
    BY <1>2 DEF parkDequeue, At
  <2> QED BY <1>1, <2>1, DropStep DEF cpuVars
<1>3. CASE parkRetry(c)
  <2>1. PICK t \in Tasks :
          /\ pc[c] = "parkRetry" /\ try_pick_next(c, t, current[c])
          /\ UNCHANGED <<taskCpu, lastCpu, hasWoken, cont, job>>
          /\ \/ t = onCpu[c] /\ Goto(c, "swap") /\ UNCHANGED cpuVars
             \/ t # onCpu[c] /\ SwitchTo(c, t)
    BY <1>3 DEF parkRetry, At, Self
  <2> QED BY <1>1, <2>1, KeepStep DEF cpuVars
<1>4. ASSUME pc[c] \in Calm, UNCHANGED <<taskCpu, lastCpu, hasWoken, cont, job>>,
             \/ \E t \in Tasks : try_pick_next(c, t, current[c]) /\ SwitchTo(c, t)
             \/ Goto(c, "run") /\ UNCHANGED <<queue, current, cpuVars>>
      PROVE  IInv'
  <2>1. current[c] = onCpu[c] /\ pc[c] \notin {"spawn", "switched", "switch"}
    BY <1>4 DEF IInv, Agreed, Calm
  <2>2. ASSUME NEW t \in Tasks, try_pick_next(c, t, current[c]), SwitchTo(c, t)
        PROVE  IInv'
    <3>1. t # onCpu[c]
      BY <2>1, <2>2, Picked DEF IInv
    <3> QED BY <1>1, <1>4, <2>1, <2>2, <3>1, KeepStep
  <2>3. CASE Goto(c, "run") /\ UNCHANGED <<queue, current, cpuVars>>
    <3>1. cont[onCpu[c]] \in {"wait", "exited"} => Class[onCpu[c]] # Idle
      BY DEF IInv, Inside, TypeOK
    <3> QED BY <1>4, <2>3, <3>1, Local DEF Calm, rqVars
  <2> QED BY <1>4, <2>2, <2>3
<1>5. CASE yield_now(c)
  <2>1. /\ pc[c] = "yield" /\ UNCHANGED <<taskCpu, lastCpu, hasWoken, cont, job>>
        /\ \/ \E t \in Tasks : try_pick_next(c, t, current[c]) /\ SwitchTo(c, t)
           \/ Goto(c, "run") /\ UNCHANGED <<queue, current, cpuVars>>
    BY <1>5 DEF yield_now, At
  <2> QED BY <1>4, <2>1 DEF Calm
<1>6. CASE might_preempt(c)
  <2>1. /\ pc[c] = "preempt" /\ UNCHANGED <<taskCpu, lastCpu, hasWoken, cont, job>>
        /\ \/ \E t \in Tasks : try_pick_next(c, t, current[c]) /\ SwitchTo(c, t)
           \/ Goto(c, "run") /\ UNCHANGED <<queue, current, cpuVars>>
    BY <1>6 DEF might_preempt, At
  <2> QED BY <1>4, <2>1 DEF Calm
<1>7. CASE exit_current(c)
  <2>1. UNCHANGED <<lastCpu, hasWoken, cont, job>>
    BY <1>7 DEF exit_current
  <2>2. CASE pc[c] = "exit"
    <3>1. /\ dequeue_current(c)
          /\ \/ \E t \in Tasks : try_pick_next(c, t, None) /\ SwitchTo(c, t)
             \/ /\ Queued(c) = {} /\ current' = [current EXCEPT ![c] = None]
                /\ Goto(c, "exitRetry") /\ UNCHANGED <<queue, cpuVars>>
      BY <1>7, <2>2 DEF exit_current, At
    <3> QED BY <1>1, <2>1, <2>2, <3>1, DropStep DEF cpuVars
  <2>3. CASE pc[c] = "exitRetry"
    <3>1. PICK t \in Tasks :
            try_pick_next(c, t, current[c]) /\ SwitchTo(c, t) /\ UNCHANGED taskCpu
      BY <1>7, <2>3 DEF exit_current, At
    <3>2. Migrating
      BY <2>3, Setup DEF IInv, Idles
    <3> QED BY <1>1, <2>1, <2>3, <3>1, <3>2, KeepStep
  <2> QED BY <1>7, <2>2, <2>3 DEF exit_current, At
<1> QED BY <1>2, <1>3, <1>5, <1>6, <1>7

-----------------------------------------------------------------------------
(* enqueue *)

\* The caller of enqueue takes a step, or is done and goes on.
CallerMoves(a) ==
  \/ pc' = pc /\ job[a].step # "none" /\ job'[a].step # "none"
  \/ /\ pc' = IF a \in CPUs THEN [pc EXCEPT ![a] = "mightPreempt"] ELSE pc
     /\ job[a].step # "none" /\ job'[a].step = "none"

\* What a CPU executes is not touched by a call of enqueue.
LEMMA CallerKeeps ==
  ASSUME IInv, TypeOK', NEW a \in Actors, CallerMoves(a),
         UNCHANGED <<system, current, onCpu, previous, switchedTo, next, cont>>
  PROVE  /\ Contexts' /\ Agreed' /\ Inside'
         /\ \A c \in CPUs : /\ pc'[c] = "spawn" <=> pc[c] = "spawn" /\ (c = a => job'[a].step # "none")
                            /\ pc'[c] = "parkLocked" <=> pc[c] = "parkLocked"
                            /\ pc'[c] = "switch" <=> pc[c] = "switch"
                            /\ pc'[c] \in {"parkRetry", "exitRetry"} => pc'[c] = pc[c]
<1>1. \A c \in CPUs : pc'[c] = pc[c] \/ (pc[c] = "spawn" /\ pc'[c] = "mightPreempt")
  BY SMT DEF CallerMoves, IInv, TypeOK, Jobs
<1>2. Contexts' /\ Agreed'
  <2>1. Contexts'
    BY <1>1, SMT DEF IInv, Contexts
  <2>2. Agreed'
    BY <1>1 DEF IInv, Agreed
  <2> QED BY <2>1, <2>2
<1>3. Inside'
  BY <1>1 DEF IInv, Inside, Class
<1>4. \A c \in CPUs : pc'[c] = "spawn" <=> pc[c] = "spawn" /\ (c = a => job'[a].step # "none")
  BY SMT DEF CallerMoves, IInv, TypeOK, Jobs
<1> QED BY <1>1, <1>2, <1>3, <1>4

\* A call of enqueue finds that the task is queued already, or has sent its
\* inter-processor call.  It was nobody's hope: the task is in a run queue, or
\* another call is about to push it.
LEMMA EndStep ==
  ASSUME IInv, TypeOK', NEW a \in Actors, job[a].step \in {"push", "ipi"}, EndJob(a),
         UNCHANGED <<system, rqVars, cpuVars, hasWoken, cont>>,
         job[a].step = "push" =>
           job[a].still /\ taskCpu[job[a].task] # None /\ ~Locked(job[a].cpu)
  PROVE  IInv'
<1>1. /\ job'[a] = NoJob /\ job'[a].step = "none" /\ \A b \in Actors \ {a} : job'[b] = job[b]
      /\ CallerMoves(a)
  BY DEF EndJob, CallerMoves, NoJob, IInv, TypeOK
<1>2. UNCHANGED <<system, taskCpu, lastCpu, queue, current, onCpu, previous, switchedTo, next>>
  BY DEF rqVars, cpuVars
<1>3. /\ Contexts' /\ Agreed' /\ Inside'
      /\ \A c \in CPUs : /\ pc'[c] = "spawn" <=> pc[c] = "spawn" /\ c # a
                         /\ pc'[c] = "parkLocked" <=> pc[c] = "parkLocked"
                         /\ pc'[c] = "switch" <=> pc[c] = "switch"
                         /\ pc'[c] \in {"parkRetry", "exitRetry"} => pc'[c] = pc[c]
  BY <1>1, <1>2, CallerKeeps
<1>4. Placed' /\ \A d \in CPUs, t \in Tasks : Has(d, t)' <=> Has(d, t)
  BY <1>2, QueuesKept DEF IInv
<1>5. \A b \in Actors, t \in Tasks :
        /\ Pushing(b, t)' => Pushing(b, t) /\ job'[b].cpu = job[b].cpu
        /\ Owner(b, t)' <=> Owner(b, t)
        /\ Owner(b, t) => job'[b].cpu = job[b].cpu
  BY <1>1 DEF Pushing, Owner
<1>6. Claimed'
  BY <1>2, <1>4, <1>5, ClaimsKept DEF IInv
<1>7. Homes'
  BY <1>2, <1>3, <1>4, <1>5, HomesKept DEF IInv
<1>8. Idles'
  BY <1>2, <1>3, <1>4, IdlesKept DEF IInv
<1>9. Jobs'
  BY <1>1, <1>3, SMT DEF IInv, Jobs
<1>10. Rescued'
  <2>1. \A b \in Actors, t \in Tasks, c \in CPUs :
          pc[c] = "parkLocked" /\ Reaches(b, t, c) => Reaches(b, t, c)'
    BY <1>1 DEF Reaches, Locked, At
  <2>2. \A c \in CPUs : onCpu[c] \in Tasks
    BY DEF IInv, TypeOK
  <2> QED BY <1>2, <1>3, <2>1, <2>2, RescuesKept DEF IInv
<1>11. Woken'
  <2> SUFFICES ASSUME NEW t \in Tasks, cont[t] = "wait", hasWoken[t], \A c \in CPUs : ~Has(c, t)
               PROVE  \E b \in Actors : job'[b].task = t /\ job'[b].step \in {"select", "push"}
    BY <1>4 DEF Woken
  <2>1. PICK b \in Actors : job[b].task = t /\ job[b].step \in {"select", "push"}
    BY DEF IInv, Woken
  <2>2. CASE b # a
    BY <1>1, <2>1, <2>2
  <2>3. CASE b = a
    <3>1. PICK e \in Actors : Owner(e, t)
      BY <2>1, <2>3 DEF IInv, Claimed
    <3>2. e # a /\ job[e].task = t /\ job[e].step = "push"
      BY <3>1, <2>1, <2>3 DEF Owner, Pushing
    <3> QED BY <1>1, <3>2
  <2> QED BY <2>2, <2>3
<1> QED BY <1>3, <1>4, <1>6, <1>7, <1>8, <1>9, <1>10, <1>11 DEF IInv

\* A call of enqueue pushes the task, which nobody else has pushed or may push.
LEMMA PushStep ==
  ASSUME IInv, TypeOK', NEW a \in Actors, NEW t \in Tasks, NEW s \in CPUs,
         job[a].step = "push", job[a].task = t, job[a].cpu = s, ~Locked(s),
         ~(job[a].still /\ taskCpu[t] # None),
         taskCpu' = [taskCpu EXCEPT ![t] = s], lastCpu' = [lastCpu EXCEPT ![t] = s],
         queue' = [queue EXCEPT ![s][t] = @ + 1],
         (job' = [job EXCEPT ![a].step = "ipi"] /\ UNCHANGED pc) \/ EndJob(a),
         UNCHANGED <<system, current, cpuVars, hasWoken, cont>>
  PROVE  IInv'
<1>1. /\ \A b \in Actors \ {a} : job'[b] = job[b]
      /\ job'[a].step \in {"ipi", "none"} /\ CallerMoves(a)
      /\ job'[a].step = "ipi" => job'[a].task = t /\ job'[a].cpu = s
  BY SMT DEF EndJob, CallerMoves, NoJob, IInv, TypeOK
<1>2. /\ \A c \in CPUs : ~Has(c, t)
      /\ \A b \in Actors : Owner(b, t) => b = a
      /\ job[a].still => taskCpu[t] = None
      /\ ~job[a].still => taskCpu[t] = s
  <2>1. CASE job[a].still
    <3>1. taskCpu[t] = None /\ \A c \in CPUs : c # None
      BY <2>1, Setup DEF IInv
    <3>2. \A b \in Actors : ~Owner(b, t)
      BY <3>1, SMT DEF IInv, Claimed, Jobs, Owner, Pushing
    <3> QED BY <2>1, <3>1, <3>2, SMT DEF IInv, Placed
  <2>2. CASE ~job[a].still
    BY <2>2, SMT DEF IInv, Claimed, Owner, Pushing
  <2> QED BY <2>1, <2>2
<1>3. /\ taskCpu'[t] = s /\ \A u \in Tasks \ {t} : taskCpu'[u] = taskCpu[u]
      /\ lastCpu'[t] = s /\ \A u \in Tasks \ {t} : lastCpu'[u] = lastCpu[u]
  BY SMT DEF IInv, TypeOK
<1>4. \A c \in CPUs, u \in Tasks : queue'[c][u] = IF c = s /\ u = t THEN 1 ELSE queue[c][u]
  <2>1. queue[s][t] = 0
    BY <1>2, SMT DEF IInv, Placed, Has
  <2> QED BY <2>1, SMT DEF IInv, TypeOK
<1>5. \A c \in CPUs, u \in Tasks : Has(c, u)' <=> Has(c, u) \/ (c = s /\ u = t)
  BY <1>4, SMT DEF Has
<1>6. /\ Contexts' /\ Agreed' /\ Inside'
      /\ \A c \in CPUs :
           /\ pc'[c] = "spawn" <=> pc[c] = "spawn" /\ (c = a => job'[a].step # "none")
           /\ pc'[c] = "parkLocked" <=> pc[c] = "parkLocked"
           /\ pc'[c] = "switch" <=> pc[c] = "switch"
           /\ pc'[c] \in {"parkRetry", "exitRetry"} => pc'[c] = pc[c]
  BY <1>1, CallerKeeps DEF cpuVars
<1>7. Jobs'
  BY <1>1, <1>6, SMT DEF IInv, Jobs
<1>8. Placed'
  <2>1. current[s] # t
    BY <1>2 DEF Has
  <2> QED BY <1>2, <1>3, <1>4, <1>5, <2>1, SMT DEF IInv, Placed
<1>9. Claimed'
  <2>1. \A b \in Actors, u \in Tasks : Owner(b, u)' <=> Owner(b, u) /\ b # a
    BY <1>1 DEF Owner, Pushing
  <2>2. \A b \in Actors, u \in Tasks : Owner(b, u) /\ b # a => u # t /\ job'[b] = job[b]
    BY <1>1, <1>2
  <2>3. \A u \in Tasks \ {t} : ~Owner(a, u)
    BY DEF Owner, Pushing
  <2> QED BY <1>3, <1>5, <2>1, <2>2, <2>3, SMT DEF IInv, Claimed
<1>10. Rescued'
  <2>1. \A c \in CPUs : pc[c] = "parkLocked" => ~Reaches(a, onCpu[c], c)
    BY DEF Reaches, Locked, At
  <2> QED BY <1>1, <1>6, <2>1, SMT DEF IInv, Rescued, Reaches, cpuVars
<1>11. Woken'
  BY <1>1, <1>5, SMT DEF IInv, Woken
<1>12. Homes'
  <2> SUFFICES ASSUME ~Migrating PROVE Homes'
    BY DEF Homes, Migrating
  <2>1. lastCpu[t] # None => lastCpu[t] = s
    BY DEF IInv, Homes, Pushing
  <2>2. s # None /\ \A c \in CPUs : c # None
    BY Setup DEF IInv
  <2>3. \A c \in CPUs : lastCpu'[onCpu[c]] = c /\ (previous[c] # None => lastCpu'[previous[c]] = c)
    BY <1>3, <2>1, <2>2, SMT DEF IInv, Homes, TypeOK
  <2>4. \A c \in CPUs, u \in Tasks : Has(c, u)' => lastCpu'[u] = c
    BY <1>3, <1>5, <1>2, SMT DEF IInv, Homes
  <2>5. ASSUME NEW b \in Actors, NEW u \in Tasks, Pushing(b, u)'
        PROVE  IF lastCpu'[u] # None THEN job'[b].cpu = lastCpu'[u] ELSE taskCpu'[u] = job'[b].cpu
    <3>1. b # a /\ job'[b] = job[b] /\ Pushing(b, u)
      BY <1>1, <2>5 DEF Pushing
    <3>2. IF lastCpu[u] # None THEN job[b].cpu = lastCpu[u] ELSE taskCpu[u] = job[b].cpu
      BY <3>1 DEF IInv, Homes
    <3>3. lastCpu[t] = None => taskCpu[t] = s
      BY DEF IInv, Homes, Pushing
    <3> QED BY <1>3, <2>1, <2>2, <3>1, <3>2, <3>3, SMT
  <2> QED BY <1>6, <2>3, <2>4, <2>5, SMT DEF IInv, Homes, cpuVars
<1>13. Idles'
  <2>1. \A d \in CPUs : Boot[d] \in Tasks /\ Boot'[d] = Boot[d] /\ Class' = Class
    BY Setup DEF IInv, Boot, Class
  <2>2. \A d \in CPUs : Has(d, Boot[d]) => Has(d, Boot[d])'
    BY <1>5, <2>1 DEF Boot
  <2> QED BY <1>6, <2>1, <2>2 DEF IInv, Idles
<1> QED BY <1>6, <1>7, <1>8, <1>9, <1>10, <1>11, <1>12, <1>13 DEF IInv

\* The first set_if_is_none of enqueue: the call becomes the one that may push,
\* or remembers on which CPU the task was.
LEMMA SelectStep ==
  ASSUME IInv, TypeOK', UNCHANGED system, NEW a \in Actors, enqueueSelect(a)
  PROVE  IInv'
<1> DEFINE t == job[a].task
<1>1. t \in Tasks /\ job[a].step = "select" /\ ~job[a].still
  <2>1. job[a].step = "select"
    BY DEF enqueueSelect
  <2> QED BY <2>1, Selected DEF IInv, Jobs
<1>2. UNCHANGED <<lastCpu, queue, current, cpuVars, hasWoken, pc, cont>>
  BY DEF enqueueSelect
<1>3. \E s \in CPUs :
        /\ job'[a].step = "push" /\ job'[a].task = t /\ job'[a].cpu = s
        /\ \A b \in Actors \ {a} : job'[b] = job[b]
        /\ \/ /\ taskCpu[t] = None /\ taskCpu'[t] = s /\ s \in select_cpu(t)
              /\ \A u \in Tasks \ {t} : taskCpu'[u] = taskCpu[u]
              /\ ~job'[a].still
           \/ taskCpu[t] = s /\ taskCpu' = taskCpu /\ job'[a].still
  <2>1. job[a] \in Job /\ a \in DOMAIN job
    BY DEF IInv, TypeOK, Job
  <2>2. CASE taskCpu[t] = None
    <3>1. PICK s \in select_cpu(t) :
            /\ taskCpu' = [taskCpu EXCEPT ![t] = s]
            /\ job' = [job EXCEPT ![a] = [@ EXCEPT !.step = "push", !.cpu = s]]
      BY <2>2 DEF enqueueSelect
    <3>2. s \in CPUs
      BY <1>1, Selected DEF IInv
    <3>3. taskCpu'[t] = s /\ \A u \in Tasks \ {t} : taskCpu'[u] = taskCpu[u]
      BY <1>1, <3>1 DEF IInv, TypeOK
    <3>4. job'[a] = [job[a] EXCEPT !.step = "push", !.cpu = s]
          /\ \A b \in Actors \ {a} : job'[b] = job[b]
      BY <3>1, SMT DEF IInv, TypeOK
    <3>5. job'[a].step = "push" /\ job'[a].task = t /\ job'[a].cpu = s /\ job'[a].still = job[a].still
      BY <2>1, <3>4 DEF Job
    <3> QED BY <1>1, <2>2, <3>2, <3>3, <3>4, <3>5
  <2>3. CASE taskCpu[t] # None
    <3>1. /\ taskCpu' = taskCpu
          /\ job' = [job EXCEPT ![a] = [@ EXCEPT !.step = "push", !.cpu = taskCpu[t], !.still = TRUE]]
      BY <2>3 DEF enqueueSelect
    <3>2. taskCpu[t] \in CPUs
      BY <1>1, <2>3, SMT DEF IInv, TypeOK
    <3>3. job'[a] = [job[a] EXCEPT !.step = "push", !.cpu = taskCpu[t], !.still = TRUE]
          /\ \A b \in Actors \ {a} : job'[b] = job[b]
      BY <3>1 DEF IInv, TypeOK
    <3>4. job'[a].step = "push" /\ job'[a].task = t /\ job'[a].cpu = taskCpu[t] /\ job'[a].still
      BY <2>1, <3>3 DEF Job
    <3> QED BY <3>1, <3>2, <3>3, <3>4
  <2> QED BY <2>2, <2>3
<1>4. PICK s \in CPUs :
        /\ job'[a].step = "push" /\ job'[a].task = t /\ job'[a].cpu = s
        /\ \A b \in Actors \ {a} : job'[b] = job[b]
        /\ \/ /\ taskCpu[t] = None /\ taskCpu'[t] = s /\ s \in select_cpu(t)
              /\ \A u \in Tasks \ {t} : taskCpu'[u] = taskCpu[u]
              /\ ~job'[a].still
           \/ taskCpu[t] = s /\ taskCpu' = taskCpu /\ job'[a].still
  BY <1>3
<1>5. \A c \in CPUs, u \in Tasks : Has(c, u)' <=> Has(c, u)
  BY <1>2 DEF Has
<1>6. /\ \A c \in CPUs : c # None
      /\ taskCpu[t] = None => /\ \A c \in CPUs : ~Has(c, t)
                              /\ \A b \in Actors : Pushing(b, t) => ~Owner(b, t)
  <2>1. \A c \in CPUs : c # None
    BY Setup DEF IInv
  <2> QED BY <1>1, <2>1, SMT DEF IInv, Placed, Claimed, Jobs, Owner, Pushing
<1>7. Jobs'
  BY <1>1, <1>2, <1>4, SMT DEF IInv, Jobs
<1>8. Placed'
  BY <1>1, <1>2, <1>4, <1>5, <1>6, SMT DEF IInv, Placed
<1>9. Contexts' /\ Agreed' /\ Inside'
  <2>1. Contexts'
    BY <1>2 DEF IInv, Contexts, cpuVars
  <2>2. Agreed'
    BY <1>2 DEF IInv, Agreed, cpuVars
  <2>3. Inside'
    BY <1>2 DEF IInv, Inside, Class, cpuVars
  <2> QED BY <2>1, <2>2, <2>3
<1>10. \A b \in Actors, u \in Tasks :
         /\ Pushing(b, u)' <=> Pushing(b, u) \/ (b = a /\ u = t)
         /\ Owner(b, u)' <=> Owner(b, u) \/ (b = a /\ u = t /\ taskCpu[t] = None)
  BY <1>1, <1>4, <1>6, SMT DEF Pushing, Owner
<1>11. Claimed'
  <2>1. \A b \in Actors, u \in Tasks : Owner(b, u) => b # a /\ job'[b] = job[b]
    BY <1>1, <1>4 DEF Owner, Pushing
  <2>2. \A b \in Actors : taskCpu[t] = None => ~Owner(b, t)
    BY <1>6 DEF Owner
  <2> QED BY <1>1, <1>4, <1>5, <1>6, <1>10, <2>1, <2>2, SMT DEF IInv, Claimed
<1>12. Rescued'
  <2> SUFFICES ASSUME NEW c \in CPUs, pc[c] = "parkLocked", hasWoken[onCpu[c]]
               PROVE  \E b \in Actors : Reaches(b, onCpu[c], c)'
    BY <1>2 DEF Rescued, Reaches, cpuVars
  <2>1. PICK b \in Actors : Reaches(b, onCpu[c], c)
    BY DEF IInv, Rescued
  <2>2. onCpu'[c] = onCpu[c]
    BY <1>2 DEF cpuVars
  <2>3. CASE b = a
    <3>1. onCpu[c] = t /\ Has(c, t)
      BY <1>1, <2>1, <2>3 DEF IInv, Agreed, Reaches, Has
    <3>2. taskCpu[t] = c
      BY <1>1, <3>1 DEF IInv, Placed
    <3> QED BY <1>4, <1>6, <2>2, <3>1, <3>2 DEF Reaches
  <2>4. CASE b # a
    BY <1>4, <2>1, <2>2, <2>4 DEF Reaches
  <2> QED BY <2>3, <2>4
<1>13. Woken'
  <2>1. \A b \in Actors : job[b].step \in {"select", "push"} =>
          job'[b].task = job[b].task /\ job'[b].step \in {"select", "push"}
    BY <1>1, <1>4
  <2> QED BY <1>2, <1>5, <2>1, WakesKept DEF IInv
<1>14. Homes'
  <2> SUFFICES ASSUME ~Migrating PROVE Homes'
    BY DEF Homes, Migrating
  <2>1. ASSUME NEW b \in Actors, NEW u \in Tasks, Pushing(b, u)'
        PROVE  IF lastCpu[u] # None THEN job'[b].cpu = lastCpu[u] ELSE taskCpu'[u] = job'[b].cpu
    <3>1. CASE b # a
      <4>1. Pushing(b, u) /\ job'[b] = job[b] /\ job[b].cpu \in CPUs
        BY <1>4, <1>10, <2>1, <3>1 DEF IInv, Jobs, Pushing
      <4>2. IF lastCpu[u] # None THEN job[b].cpu = lastCpu[u] ELSE taskCpu[u] = job[b].cpu
        BY <4>1 DEF IInv, Homes
      <4> QED BY <1>4, <1>6, <4>1, <4>2
    <3>2. CASE b = a
      <4>1. u = t
        BY <1>1, <1>10, <2>1, <3>2 DEF Pushing
      <4>2. CASE taskCpu[t] = None
        BY <1>4, <1>6, <3>2, <4>1, <4>2 DEF select_cpu
      <4>3. CASE taskCpu[t] # None
        <5>1. taskCpu[t] = s /\ taskCpu'[t] = s /\ job'[a].cpu = s
          BY <1>4, <4>3
        <5>2. lastCpu[t] # None => lastCpu[t] = s
          BY <1>1, <4>3, <5>1, SMT DEF IInv, Claimed, Placed, Homes, Owner
        <5> QED BY <3>2, <4>1, <5>1, <5>2
      <4> QED BY <4>2, <4>3
    <3> QED BY <3>1, <3>2
  <2> QED BY <1>2, <1>5, <2>1, SMT DEF IInv, Homes, cpuVars
<1>15. Idles'
  BY <1>2 DEF IInv, Idles, Has, Class, Boot
<1> QED BY <1>7, <1>8, <1>9, <1>11, <1>12, <1>13, <1>14, <1>15 DEF IInv

\* The steps of enqueue.
LEMMA EnqueueStep ==
  ASSUME IInv, TypeOK', UNCHANGED system, NEW a \in Actors, Enqueue(a)
  PROVE  IInv'
<1>1. CASE enqueueSelect(a)
  BY <1>1, SelectStep
<1>2. CASE enqueuePush(a)
  <2>1. /\ job[a].step = "push" /\ ~Locked(job[a].cpu)
        /\ UNCHANGED <<cpuVars, hasWoken, cont>>
    BY <1>2 DEF enqueuePush
  <2>2. job[a].task \in Tasks /\ job[a].cpu \in CPUs
    BY <2>1 DEF IInv, Jobs
  <2>3. CASE job[a].still /\ taskCpu[job[a].task] # None
    <3>1. EndJob(a) /\ UNCHANGED rqVars
      BY <1>2, <2>3 DEF enqueuePush
    <3> QED BY <2>1, <2>3, <3>1, EndStep
  <2>4. CASE ~(job[a].still /\ taskCpu[job[a].task] # None)
    <3>1. /\ taskCpu' = [taskCpu EXCEPT ![job[a].task] = job[a].cpu]
          /\ lastCpu' = [lastCpu EXCEPT ![job[a].task] = job[a].cpu]
          /\ queue' = [queue EXCEPT ![job[a].cpu][job[a].task] = @ + 1]
          /\ (job' = [job EXCEPT ![a].step = "ipi"] /\ UNCHANGED pc) \/ EndJob(a)
          /\ UNCHANGED current
      BY <1>2, <2>4 DEF enqueuePush
    <3> QED BY <2>1, <2>2, <2>4, <3>1, PushStep
  <2> QED BY <2>3, <2>4
<1>3. CASE set_need_preempt(a)
  <2>1. job[a].step = "ipi" /\ EndJob(a) /\ UNCHANGED <<rqVars, cpuVars, hasWoken, cont>>
    BY <1>3 DEF set_need_preempt
  <2> QED BY <2>1, EndStep
<1> QED BY <1>1, <1>2, <1>3 DEF Enqueue

\* A call of enqueue begins.
LEMMA CallStep ==
  ASSUME IInv, TypeOK', NEW a \in Actors, NEW t \in Tasks,
         UNCHANGED <<system, rqVars, cpuVars, cont>>,
         job[a].step = "none", job'[a].step = "select", job'[a].task = t, ~job'[a].still,
         \A b \in Actors \ {a} : job'[b] = job[b],
         \/ a \in Wakers /\ pc' = pc
         \/ a \in CPUs /\ pc[a] = "run" /\ Moves(a, "spawn"),
         \A u \in Tasks \ {t} : hasWoken'[u] = hasWoken[u]
  PROVE  IInv'
<1>1. UNCHANGED <<system, taskCpu, lastCpu, queue, current, onCpu, previous, switchedTo, next, cont>>
  BY DEF rqVars, cpuVars
<1>2. \A c \in CPUs : pc'[c] = pc[c] \/ (c = a /\ pc[c] = "run" /\ pc'[c] = "spawn")
  BY DEF Moves
<1>3. Placed' /\ \A c \in CPUs, u \in Tasks : Has(c, u)' <=> Has(c, u)
  BY <1>1, QueuesKept DEF IInv
<1>4. \A b \in Actors, u \in Tasks :
        /\ Pushing(b, u)' => Pushing(b, u) /\ job'[b].cpu = job[b].cpu
        /\ Owner(b, u)' <=> Owner(b, u)
        /\ Owner(b, u) => job'[b].cpu = job[b].cpu
  BY DEF Pushing, Owner
<1>5. Claimed'
  BY <1>1, <1>3, <1>4, ClaimsKept DEF IInv
<1>6. Contexts'
  BY <1>1, <1>2, ContextsKept DEF IInv
<1>7. Homes'
  <2>1. \A c \in CPUs : pc'[c] = "switch" => pc[c] = "switch" /\ next'[c] = next[c]
    BY <1>1, <1>2
  <2> QED BY <1>1, <1>3, <1>4, <2>1, HomesKept DEF IInv
<1>8. Idles'
  BY <1>1, <1>2, <1>3, IdlesKept DEF IInv
<1>9. Jobs'
  <2>1. a \in CPUs => pc'[a] = "spawn"
    BY Setup DEF IInv, Moves
  <2> QED BY <1>2, <2>1, SMT DEF IInv, Jobs
<1>10. Agreed'
  BY <1>1, <1>2 DEF IInv, Agreed
<1>11. Inside'
  BY <1>1, <1>2 DEF IInv, Inside, Class
<1>12. Rescued'
  <2> SUFFICES ASSUME NEW c \in CPUs, pc[c] = "parkLocked", hasWoken'[onCpu[c]]
               PROVE  \E b \in Actors : Reaches(b, onCpu[c], c)'
    BY <1>1, <1>2, SMT DEF Rescued, Reaches
  <2>1. CASE onCpu[c] = t
    BY <1>1, <2>1 DEF Reaches
  <2>2. CASE onCpu[c] # t
    <3>1. PICK b \in Actors : Reaches(b, onCpu[c], c)
      BY <2>2 DEF IInv, Rescued, TypeOK
    <3>2. b # a
      BY <3>1 DEF Reaches
    <3> QED BY <1>1, <3>1, <3>2 DEF Reaches
  <2> QED BY <2>1, <2>2
<1>13. Woken'
  <2> SUFFICES ASSUME NEW u \in Tasks, cont[u] = "wait", hasWoken'[u], \A c \in CPUs : ~Has(c, u)
               PROVE  \E b \in Actors : job'[b].task = u /\ job'[b].step \in {"select", "push"}
    BY <1>1, <1>3 DEF Woken
  <2>1. CASE u # t
    <3>1. PICK b \in Actors : job[b].task = u /\ job[b].step \in {"select", "push"}
      BY <2>1 DEF IInv, Woken
    <3> QED BY <3>1
  <2> QED BY <2>1
<1> QED BY <1>3, <1>5, <1>6, <1>7, <1>8, <1>9, <1>10, <1>11, <1>12, <1>13 DEF IInv

\* A waker fires: has_woken and the call of enqueue come together.
LEMMA WakeUpStep ==
  ASSUME IInv, TypeOK', UNCHANGED system, NEW a \in Wakers, NEW t \in Tasks, wake_up(a, t)
  PROVE  IInv'
<1>1. /\ job[a].step = "none" /\ hasWoken' = [hasWoken EXCEPT ![t] = TRUE]
      /\ job' = [job EXCEPT ![a] = [NoJob EXCEPT !.step = "select", !.task = t]]
      /\ UNCHANGED <<system, rqVars, cpuVars, pc, cont>> /\ a \in Actors
  BY DEF wake_up, Actors
<1>2. /\ job'[a].step = "select" /\ job'[a].task = t /\ ~job'[a].still
      /\ \A b \in Actors \ {a} : job'[b] = job[b]
  BY <1>1, SMT DEF IInv, TypeOK, NoJob
<1>3. \A u \in Tasks \ {t} : hasWoken'[u] = hasWoken[u]
  BY <1>1, SMT DEF IInv, TypeOK
<1> QED BY <1>1, <1>2, <1>3, CallStep

\* A task starts another one.
LEMMA NewTaskStep ==
  ASSUME IInv, TypeOK', UNCHANGED system, NEW c \in CPUs, NEW t \in Tasks, run_new_task(c, t)
  PROVE  IInv'
<1>1. /\ pc[c] = "run" /\ Goto(c, "spawn")
      /\ job' = [job EXCEPT ![c] = [NoJob EXCEPT !.step = "select", !.task = t]]
      /\ UNCHANGED <<system, rqVars, cpuVars, hasWoken, cont>> /\ c \in Actors
  BY DEF run_new_task, At, Actors
<1>2. /\ job'[c].step = "select" /\ job'[c].task = t /\ ~job'[c].still
      /\ \A b \in Actors \ {c} : job'[b] = job[b]
  BY <1>1, SMT DEF IInv, TypeOK, NoJob
<1>3. job[c].step = "none" /\ Moves(c, "spawn")
  BY <1>1, SMT DEF IInv, TypeOK, Jobs, Moves, Goto
<1> QED BY <1>1, <1>2, <1>3, CallStep

-----------------------------------------------------------------------------
(* The context switch *)

\* A CPU switches to the task it has picked, which no CPU has on its hands.
LEMMA SwitchStep ==
  ASSUME IInv, TypeOK', UNCHANGED system, NEW c \in CPUs, switch_to_task(c)
  PROVE  IInv'
<1> DEFINE n == next[c]
<1>1. /\ pc[c] = "switch" /\ ~switchedTo[n] /\ UNCHANGED <<rqVars, hasWoken, cont, job>>
      /\ switchedTo' = [switchedTo EXCEPT ![n] = TRUE]
      /\ previous' = [previous EXCEPT ![c] = onCpu[c]]
      /\ onCpu' = [onCpu EXCEPT ![c] = n]
      /\ next' = [next EXCEPT ![c] = None] /\ Goto(c, "switched")
  BY DEF switch_to_task, At
<1>2. n \in Tasks /\ current[c] = n /\ Has(c, n) /\ previous[c] = None
  BY <1>1 DEF IInv, Agreed, Contexts, Has
<1>3. /\ Moves(c, "switched")
      /\ onCpu'[c] = n /\ \A d \in CPUs \ {c} : onCpu'[d] = onCpu[d]
      /\ previous'[c] = onCpu[c] /\ \A d \in CPUs \ {c} : previous'[d] = previous[d]
      /\ \A d \in CPUs \ {c} : next'[d] = next[d]
      /\ \A t \in Tasks : switchedTo'[t] <=> switchedTo[t] \/ t = n
  BY <1>1, <1>2, SMT DEF IInv, TypeOK, Goto, Moves
<1>4. \A d \in CPUs : onCpu[d] # n /\ previous[d] # n /\ onCpu[d] \in Tasks /\ onCpu[d] # None
  BY <1>1, <1>2, Setup, SMT DEF IInv, Contexts, TypeOK
<1>5. Placed' /\ \A d \in CPUs, t \in Tasks : Has(d, t)' <=> Has(d, t)
  BY <1>1, QueuesKept DEF IInv, rqVars
<1>6. \A a \in Actors, t \in Tasks : (Pushing(a, t)' <=> Pushing(a, t)) /\ (Owner(a, t)' <=> Owner(a, t))
  BY <1>1 DEF Pushing, Owner
<1>7. Contexts'
  <2>1. \A d \in CPUs : /\ previous'[d] # None <=> pc'[d] = "switched"
                        /\ previous'[d] # onCpu'[d]
                        /\ switchedTo'[onCpu'[d]]
                        /\ previous'[d] # None => switchedTo'[previous'[d]]
    <3>1. \A d \in CPUs : /\ switchedTo[onCpu[d]] /\ previous[d] # onCpu[d]
                          /\ previous[d] # None => previous[d] \in Tasks /\ switchedTo[previous[d]]
                          /\ previous[d] # None <=> pc[d] = "switched"
      BY SMT DEF IInv, Contexts, TypeOK
    <3>2. \A d \in CPUs \ {c} : /\ pc'[d] = pc[d] /\ previous'[d] = previous[d]
                                /\ onCpu'[d] = onCpu[d]
      BY <1>3 DEF Moves
    <3>3. /\ pc'[c] = "switched" /\ previous'[c] = onCpu[c] /\ onCpu[c] # None
          /\ onCpu'[c] = n /\ n # onCpu[c] /\ switchedTo'[n] /\ switchedTo'[onCpu[c]]
      BY <1>2, <1>3, <1>4, <3>1 DEF Moves
    <3>4. \A d \in CPUs : switchedTo'[onCpu[d]] /\ (previous[d] # None => switchedTo'[previous[d]])
      BY <1>3, <1>4, <3>1
    <3> HIDE DEF n
    <3>5. ASSUME NEW d \in CPUs
          PROVE  /\ previous'[d] # None <=> pc'[d] = "switched"
                 /\ previous'[d] # onCpu'[d]
                 /\ switchedTo'[onCpu'[d]]
                 /\ previous'[d] # None => switchedTo'[previous'[d]]
      <4>1. CASE d = c
        BY <3>3, <4>1
      <4>2. CASE d # c
        <5>1. pc'[d] = pc[d] /\ previous'[d] = previous[d] /\ onCpu'[d] = onCpu[d]
          BY <3>2, <4>2, SMT
        <5> QED BY <3>1, <3>4, <5>1
      <4> QED BY <4>1, <4>2
    <3> QED BY <3>5
  <2>2. \A d, e \in CPUs :
          d # e => /\ onCpu'[d] # onCpu'[e]
                   /\ onCpu'[d] # previous'[e]
                   /\ previous'[d] # None => previous'[d] # previous'[e]
    BY <1>3, <1>4, SMT DEF IInv, Contexts
  <2>3. ASSUME NEW t \in Tasks, switchedTo'[t]
        PROVE  \E d \in CPUs : t \in {onCpu'[d], previous'[d]}
    <3>1. CASE t = n
      BY <1>3, <3>1
    <3>2. CASE t # n
      <4>1. PICK d \in CPUs : t \in {onCpu[d], previous[d]}
        BY <1>3, <2>3, <3>2 DEF IInv, Contexts
      <4>2. t # None
        BY Setup DEF IInv
      <4> QED BY <1>2, <1>3, <4>1, <4>2, SMT
    <3> QED BY <3>1, <3>2
  <2> QED BY <2>1, <2>2, <2>3 DEF Contexts
<1>8. Claimed'
  BY <1>1, <1>5, <1>6, ClaimsKept DEF IInv, rqVars
<1>9. Idles'
  BY <1>3, <1>5, IdlesKept DEF IInv, Moves
<1>10. Jobs'
  BY <1>1, <1>3 DEF IInv, Jobs, Moves
<1>11. Agreed'
  BY <1>1, <1>2, <1>3, SMT DEF IInv, Agreed, Moves, rqVars
<1>12. Inside'
  BY <1>1, <1>3, SMT DEF IInv, Inside, Class, Moves
<1>13. Rescued'
  <2>1. \A d \in CPUs : pc'[d] = "parkLocked" => pc[d] = "parkLocked" /\ onCpu'[d] = onCpu[d]
    BY <1>3 DEF Moves
  <2>2. \A a \in Actors, t \in Tasks, d \in CPUs : Reaches(a, t, d) => Reaches(a, t, d)'
    BY <1>1 DEF Reaches
  <2> QED BY <1>1, <1>4, <2>1, <2>2, RescuesKept DEF IInv
<1>14. Woken'
  BY <1>1, <1>5, WakesKept DEF IInv
<1>15. Homes'
  <2> SUFFICES ASSUME ~Migrating PROVE Homes'
    BY DEF Homes, Migrating
  <2>1. lastCpu' = lastCpu /\ taskCpu' = taskCpu /\ lastCpu[n] = c
    BY <1>1, <1>2 DEF IInv, Homes, rqVars
  <2>2. \A d \in CPUs : /\ lastCpu[onCpu'[d]] = d
                        /\ previous'[d] # None => lastCpu[previous'[d]] = d
                        /\ pc'[d] = "switch" => next'[d] # onCpu'[d]
    <3>1. \A d \in CPUs \ {c} : /\ onCpu'[d] = onCpu[d] /\ previous'[d] = previous[d]
                                /\ pc'[d] = pc[d] /\ next'[d] = next[d]
      BY <1>3 DEF Moves
    <3>2. /\ pc'[c] = "switched" /\ onCpu'[c] = n /\ previous'[c] = onCpu[c]
      BY <1>3 DEF Moves
    <3>3. \A d \in CPUs : /\ lastCpu[onCpu[d]] = d
                          /\ previous[d] # None => lastCpu[previous[d]] = d
                          /\ pc[d] = "switch" => next[d] # onCpu[d]
      BY DEF IInv, Homes
    <3> QED BY <2>1, <3>1, <3>2, <3>3, SMT
  <2>3. \A d \in CPUs, t \in Tasks : Has(d, t)' => lastCpu'[t] = d
    BY <1>5, <2>1 DEF IInv, Homes
  <2>4. \A a \in Actors, t \in Tasks :
          Pushing(a, t)' => IF lastCpu'[t] # None THEN job'[a].cpu = lastCpu'[t]
                            ELSE taskCpu'[t] = job'[a].cpu
    BY <1>1, <1>6, <2>1 DEF IInv, Homes
  <2> HIDE DEF n
  <2> QED BY <2>1, <2>2, <2>3, <2>4 DEF Homes
<1> QED BY <1>5, <1>7, <1>8, <1>9, <1>10, <1>11, <1>12, <1>13, <1>14, <1>15 DEF IInv

\* The new task releases the one that ran before it, and goes on.
LEMMA AfterStep ==
  ASSUME IInv, TypeOK', UNCHANGED system, NEW c \in CPUs, after_switching_to(c)
  PROVE  IInv'
<1> DEFINE p == previous[c]
           t == onCpu[c]
<1>1. /\ pc[c] = "switched" /\ UNCHANGED <<rqVars, onCpu, next, hasWoken, job>>
      /\ previous' = [previous EXCEPT ![c] = None]
      /\ switchedTo' = [switchedTo EXCEPT ![p] = FALSE]
  BY DEF after_switching_to, At
<1>2. p \in Tasks /\ t \in Tasks /\ p # t /\ current[c] = t /\ p # None
  <2>1. p # None /\ p # t /\ current[c] = t
    BY <1>1 DEF IInv, Contexts, Agreed
  <2> QED BY <2>1 DEF IInv, TypeOK
<1>3. \E label \in {"run", "swap", "unreachable"} :
        /\ Goto(c, label) /\ (label = "swap" => cont[t] = "wait")
        /\ cont' = cont \/ cont' = [cont EXCEPT ![t] = "run"]
        /\ label = "swap" => cont' = cont
  BY DEF after_switching_to, Self
<1>4. PICK label \in {"run", "swap", "unreachable"} :
        /\ Moves(c, label) /\ (label = "swap" => cont'[t] = "wait")
        /\ \A u \in Tasks : cont'[u] = cont[u] \/ (u = t /\ cont'[u] = "run")
  BY <1>2, <1>3, SMT DEF Goto, Moves, IInv, TypeOK
<1>5. /\ previous'[c] = None /\ \A d \in CPUs \ {c} : previous'[d] = previous[d]
      /\ \A u \in Tasks : switchedTo'[u] <=> switchedTo[u] /\ u # p
  BY <1>1, <1>2, SMT DEF IInv, TypeOK
<1>6. Placed' /\ \A d \in CPUs, u \in Tasks : Has(d, u)' <=> Has(d, u)
  BY <1>1, QueuesKept DEF IInv, rqVars
<1>7. \A a \in Actors, u \in Tasks : (Pushing(a, u)' <=> Pushing(a, u)) /\ (Owner(a, u)' <=> Owner(a, u))
  BY <1>1 DEF Pushing, Owner
<1>8. Contexts'
  <2>1. \A d \in CPUs : onCpu[d] \in Tasks /\ onCpu[d] # p
    BY <1>2, SMT DEF IInv, Contexts, TypeOK
  <2>2. \A d \in CPUs \ {c} : previous[d] # p /\ (previous[d] # None => previous[d] \in Tasks)
    BY <1>2, SMT DEF IInv, Contexts, TypeOK
  <2>3. \A d \in CPUs : /\ previous'[d] # None <=> pc'[d] = "switched"
                        /\ previous'[d] # onCpu'[d]
                        /\ switchedTo'[onCpu'[d]]
                        /\ previous'[d] # None => switchedTo'[previous'[d]]
    <3>1. t # None
      BY <1>2, Setup DEF IInv
    <3> QED BY <1>1, <1>4, <1>5, <2>1, <2>2, <3>1, SMT DEF IInv, Contexts, Moves
  <2>4. \A d, e \in CPUs :
          d # e => /\ onCpu'[d] # onCpu'[e]
                   /\ onCpu'[d] # previous'[e]
                   /\ previous'[d] # None => previous'[d] # previous'[e]
    <3>1. \A d \in CPUs : onCpu[d] # None
      BY <2>1, Setup, SMT DEF IInv
    <3> QED BY <1>1, <1>5, <3>1, SMT DEF IInv, Contexts
  <2>5. \A u \in Tasks : switchedTo'[u] => \E d \in CPUs : u \in {onCpu'[d], previous'[d]}
    BY <1>1, <1>5, SMT DEF IInv, Contexts
  <2> QED BY <2>3, <2>4, <2>5 DEF Contexts
<1>9. \A d \in CPUs \ {c} : onCpu[d] \in Tasks /\ onCpu[d] # t
  BY DEF IInv, Contexts, TypeOK
<1>10. Claimed'
  BY <1>1, <1>6, <1>7, ClaimsKept DEF IInv, rqVars
<1>11. Idles'
  BY <1>4, <1>6, IdlesKept DEF IInv, Moves
<1>12. Jobs'
  BY <1>1, <1>4 DEF IInv, Jobs, Moves
<1>13. Agreed'
  BY <1>1, <1>2, <1>4 DEF IInv, Agreed, Moves, rqVars
<1>14. Inside'
  BY <1>1, <1>4, <1>9, SMT DEF IInv, Inside, Class, Moves
<1>15. Rescued'
  <2>1. \A d \in CPUs : pc'[d] = "parkLocked" => pc[d] = "parkLocked"
    BY <1>4 DEF Moves
  <2>2. \A a \in Actors, u \in Tasks, d \in CPUs : Reaches(a, u, d) => Reaches(a, u, d)'
    BY <1>1 DEF Reaches
  <2> QED BY <1>1, <1>2, <1>9, <2>1, <2>2, RescuesKept DEF IInv
<1>16. Woken'
  <2>1. \A u \in Tasks : cont'[u] = "wait" => cont[u] = "wait"
    BY <1>4
  <2> QED BY <1>1, <1>6, <2>1, WakesKept DEF IInv
<1>17. Homes'
  <2>1. \A d \in CPUs : /\ previous'[d] \in {previous[d], None}
                        /\ pc'[d] = "switch" => pc[d] = "switch" /\ next'[d] = next[d]
    BY <1>1, <1>4, <1>5 DEF Moves
  <2>2. UNCHANGED <<system, lastCpu, taskCpu, onCpu, job>>
    BY <1>1 DEF rqVars
  <2> QED BY <1>6, <1>7, <2>1, <2>2, HomesKept DEF IInv
<1> QED BY <1>6, <1>8, <1>10, <1>11, <1>12, <1>13, <1>14, <1>15, <1>16, <1>17 DEF IInv

-----------------------------------------------------------------------------
(* The theorems *)

\* The tasks that the CPUs run when the scheduler starts.
LEMMA Initial ==
  Init => IInv
<1> SUFFICES ASSUME Init PROVE IInv
  OBVIOUS
<1>1. /\ Boot \in [CPUs -> Tasks] /\ Class \in [Tasks -> Classes]
      /\ \A c, d \in CPUs : Boot[c] = Boot[d] => c = d
      /\ None \notin CPUs /\ None \notin Tasks /\ CPUs \cap Wakers = {}
  BY SchedulerAssumption DEF Init, Boot, Class
<1>2. /\ taskCpu \in [Tasks -> CPUs \cup {None}] /\ lastCpu = taskCpu
      /\ \A c \in CPUs : taskCpu[Boot[c]] = c
      /\ \A t \in Tasks : taskCpu[t] # None => \E c \in CPUs : Boot[c] = t
  <2>1. \A t \in Tasks : \/ taskCpu[t] = None /\ \A c \in CPUs : Boot[c] # t
                         \/ taskCpu[t] \in CPUs /\ Boot[taskCpu[t]] = t
    <3> SUFFICES ASSUME NEW t \in Tasks
                 PROVE  \/ taskCpu[t] = None /\ \A c \in CPUs : Boot[c] # t
                        \/ taskCpu[t] \in CPUs /\ Boot[taskCpu[t]] = t
      OBVIOUS
    <3>1. taskCpu[t] = IF \E c \in CPUs : Boot[c] = t
                       THEN CHOOSE c \in CPUs : Boot[c] = t ELSE None
      BY DEF Init
    <3> QED BY <3>1
  <2>2. taskCpu = [t \in Tasks |-> taskCpu[t]]
    BY DEF Init
  <2> QED BY <1>1, <2>1, <2>2 DEF Init
<1>3. /\ queue = [c \in CPUs |-> [t \in Tasks |-> 0]] /\ current = Boot /\ onCpu = Boot
      /\ previous = [c \in CPUs |-> None] /\ pc = [c \in CPUs |-> "run"]
      /\ next = [c \in CPUs |-> None] /\ job = [a \in Actors |-> NoJob]
      /\ hasWoken = [t \in Tasks |-> TRUE]
      /\ switchedTo = [t \in Tasks |-> \E c \in CPUs : Boot[c] = t]
      /\ needPreempt = [c \in CPUs |-> FALSE] /\ ipi = {}
      /\ cont = [t \in Tasks |-> IF \E c \in CPUs : Boot[c] = t THEN "run" ELSE "new"]
  BY DEF Init
<1>4. TypeOK
  <2>1. system \in Systems /\ taskCpu \in [Tasks -> CPUs \cup {None}]
          /\ lastCpu \in [Tasks -> CPUs \cup {None}]
    BY <1>2 DEF Init
  <2>2. /\ queue \in [CPUs -> [Tasks -> Nat]] /\ pc \in [CPUs -> PCs]
        /\ cont \in [Tasks -> {"new", "run", "wait", "exited"}]
    BY <1>3 DEF PCs
  <2>3. current \in [CPUs -> Tasks \cup {None}] /\ onCpu \in [CPUs -> Tasks]
    BY <1>1, <1>3
  <2>4. previous \in [CPUs -> Tasks \cup {None}] /\ next \in [CPUs -> Tasks \cup {None}]
    BY <1>3
  <2>5. /\ switchedTo \in [Tasks -> BOOLEAN]
        /\ needPreempt \in [CPUs -> BOOLEAN] /\ ipi \subseteq CPUs
        /\ hasWoken \in [Tasks -> BOOLEAN]
    BY <1>3
  <2>6. job \in [Actors -> Job]
    BY <1>3 DEF Job, NoJob
  <2> QED BY <2>1, <2>2, <2>3, <2>4, <2>5, <2>6 DEF TypeOK, Job
<1>5. \A c \in CPUs, t \in Tasks : /\ queue[c][t] = 0 /\ (Has(c, t) <=> t = Boot[c])
                                   /\ Boot[c] \in Tasks
  BY <1>1, <1>3, SMT DEF Has
<1>6. \A a \in Actors : job[a] = NoJob /\ job[a].step = "none"
  BY <1>3 DEF NoJob
<1>7. \A a \in Actors, t \in Tasks : ~Pushing(a, t) /\ ~Owner(a, t)
  BY <1>6 DEF Pushing, Owner
<1>8. Jobs
  BY <1>3, <1>6 DEF Jobs
<1>9. Placed /\ Claimed
  <2>1. Placed
    BY <1>2, <1>5, SMT DEF Placed
  <2>2. \A t \in Tasks : taskCpu[t] # None => \E c \in CPUs : Has(c, t)
    BY <1>2, <1>5, SMT
  <2> QED BY <1>7, <2>1, <2>2, SMT DEF Claimed
<1>10. Contexts
  <2>1. \A c \in CPUs : /\ onCpu[c] = Boot[c] /\ Boot[c] \in Tasks /\ Boot[c] # None
                        /\ previous[c] = None /\ pc[c] = "run"
    BY <1>1, <1>3
  <2>2. \A t \in Tasks : switchedTo[t] <=> \E c \in CPUs : Boot[c] = t
    BY <1>3
  <2> QED BY <1>1, <2>1, <2>2, SMT DEF Contexts
<1>11. Agreed
  BY <1>3 DEF Agreed
<1>12. Inside /\ Rescued /\ Woken
  BY <1>3 DEF Inside, Rescued, Woken
<1>13. Homes
  BY <1>1, <1>2, <1>3, <1>5, <1>7 DEF Homes
<1>14. Idles
  BY <1>1, <1>3 DEF Idles, Has
<1> QED BY <1>4, <1>8, <1>9, <1>10, <1>11, <1>12, <1>13, <1>14 DEF IInv

\* The invariant is inductive: one case per action.
LEMMA Inductive ==
  IInv /\ [Next]_vars => IInv'
<1> SUFFICES ASSUME IInv, [Next]_vars PROVE IInv'
  OBVIOUS
<1>1. CASE UNCHANGED vars
  <2>1. UNCHANGED <<system, rqVars, cpuVars, hasWoken, pc, cont, job, preemptVars>>
    BY <1>1 DEF vars
  <2>2. TypeOK'
    BY <2>1 DEF IInv, TypeOK, rqVars, cpuVars, preemptVars
  <2> QED BY <2>1, <2>2, Untouched
<1>2. CASE Next
  <2>1. /\ UNCHANGED system
        /\ TypeOK /\ Jobs /\ Agreed /\ Contexts
    BY <1>2 DEF Next, IInv
  <2>2. ASSUME NEW c \in CPUs,
               wait(c) \/ do_wait(c) \/ parkCheck(c) \/ yieldStart(c) \/ exitStart(c) \/ mightPreempt(c)
        PROVE  IInv'
    <3>1. TypeOK'
      BY <2>1, <2>2, SleepTyped
    <3> QED BY <2>1, <2>2, <3>1, LocalStep
  <2>3. ASSUME NEW c \in CPUs, tick(c) PROVE IInv'
    <3>1. TypeOK'
      BY <2>1, <2>3, SleepTyped
    <3>2. UNCHANGED <<system, rqVars, cpuVars, hasWoken, pc, cont, job>>
      BY <2>1, <2>3 DEF tick
    <3> QED BY <3>1, <3>2, Untouched
  <2>9. ASSUME NEW c \in CPUs, do_inter_processor_call(c) PROVE IInv'
    <3>1. UNCHANGED <<system, rqVars, cpuVars, hasWoken, pc, cont, job>>
      BY <2>1, <2>9 DEF do_inter_processor_call
    <3>2. needPreempt' \in [CPUs -> BOOLEAN] /\ ipi' \subseteq CPUs
      BY <2>1, <2>9 DEF do_inter_processor_call, TypeOK
    <3>3. TypeOK'
      BY <2>1, <3>1, <3>2 DEF TypeOK, rqVars, cpuVars
    <3> QED BY <3>1, <3>3, Untouched
  <2>4. ASSUME NEW c \in CPUs,
               parkDequeue(c) \/ parkRetry(c) \/ yield_now(c) \/ might_preempt(c) \/ exit_current(c)
        PROVE  IInv'
    <3>1. TypeOK'
      BY <2>1, <2>4, PickStepTyped
    <3> QED BY <2>1, <2>4, <3>1, PickStep
  <2>5. ASSUME NEW c \in CPUs, switch_to_task(c) \/ after_switching_to(c) PROVE IInv'
    <3>1. TypeOK'
      BY <2>1, <2>5, SwitchTyped
    <3> QED BY <2>1, <2>5, <3>1, SwitchStep, AfterStep, SMT
  <2>6. ASSUME NEW c \in CPUs, NEW t \in Tasks, run_new_task(c, t) PROVE IInv'
    <3>1. TypeOK'
      BY <2>1, <2>6, EnqueueTyped DEF Actors
    <3> QED BY <2>1, <2>6, <3>1, NewTaskStep
  <2>7. ASSUME NEW w \in Wakers, NEW t \in Tasks, wake_up(w, t) PROVE IInv'
    <3>1. TypeOK'
      BY <2>1, <2>7, EnqueueTyped DEF Actors
    <3> QED BY <2>1, <2>7, <3>1, WakeUpStep
  <2>8. ASSUME NEW a \in Actors, Enqueue(a) PROVE IInv'
    <3>1. TypeOK'
      BY <2>1, <2>8, EnqueueTyped
    <3> QED BY <2>1, <2>8, <3>1, EnqueueStep
  <2> QED BY <1>2, <2>2, <2>3, <2>4, <2>5, <2>6, <2>7, <2>8, <2>9, SMT DEF Next, Step
<1> QED BY <1>1, <1>2

\* Every reachable state of the scheduler satisfies the invariant.
THEOREM Invariance ==
  Spec => []IInv
BY Initial, Inductive, PTL DEF Spec

\* The entries of a run queue, in terms of Has.
LEMMA EntriesOfHas ==
  ASSUME TypeOK, Placed, NEW c \in CPUs, NEW t \in Tasks
  PROVE  Entries(c, t) = IF Has(c, t) THEN 1 ELSE 0
<1>1. queue[c][t] \in {0, 1} /\ (queue[c][t] = 1 => current[c] # t)
  BY DEF Placed
<1> QED BY <1>1, SMT DEF Entries, Has

\* No two CPUs ever use the context of one task.
THEOREM RunningOnce ==
  Spec => []RunsOnce
<1>1. IInv => RunsOnce
  BY Setup, SMT DEF IInv, Contexts, RunsOnce, TypeOK
<1> QED BY <1>1, Invariance, PTL

\* A task is at most once in the run queues, and where its
\* TaskScheduleInfo::cpu says; the types hold.
THEOREM QueuedOnce ==
  Spec => []AtMostOnce
<1>1. ASSUME IInv PROVE AtMostOnce
  <2>1. TypeOK /\ Placed /\ Claimed /\ \A c \in CPUs : c # None
    BY <1>1, Setup DEF IInv
  <2>2. ASSUME NEW t \in Tasks
        PROVE  /\ \A c \in CPUs : Entries(c, t) <= 1
               /\ \A c \in CPUs : Entries(c, t) = 1 => taskCpu[t] = c
               /\ taskCpu[t] # None /\ ~InRunQueue(t) =>
                    \E a \in Actors : /\ job[a].step = "push" /\ job[a].task = t
                                      /\ job[a].cpu = taskCpu[t] /\ ~job[a].still
    <3>1. \A c \in CPUs : Entries(c, t) = IF Has(c, t) THEN 1 ELSE 0
      BY <2>1, EntriesOfHas
    <3>2. \A c \in CPUs : Has(c, t) => taskCpu[t] = c
      BY <2>1 DEF Placed
    <3>3. InRunQueue(t) <=> \E c \in CPUs : Has(c, t)
      BY <3>1, SMT DEF InRunQueue
    <3>4. taskCpu[t] # None /\ ~InRunQueue(t) =>
            \E a \in Actors : Owner(a, t) /\ job[a].cpu = taskCpu[t]
      BY <2>1, <3>3 DEF Claimed
    <3> QED BY <3>1, <3>2, <3>4, SMT DEF Owner, Pushing
  <2> QED BY <2>1, <2>2 DEF AtMostOnce
<1> QED BY <1>1, Invariance, PTL

\* A task that has left the run queues and was woken is about to be put back.
THEOREM WokenIsQueued ==
  Spec => []NoLostWake
<1>1. ASSUME IInv PROVE NoLostWake
  <2>1. TypeOK /\ Placed
    BY <1>1 DEF IInv
  <2>2. \A t \in Tasks : InRunQueue(t) <=> \E c \in CPUs : Has(c, t)
    BY <2>1, EntriesOfHas, SMT DEF InRunQueue
  <2> QED BY <1>1, <2>2 DEF IInv, Woken, NoLostWake
<1> QED BY <1>1, Invariance, PTL

\* The run queue of a CPU knows which task the CPU runs, or switches to.
THEOREM QueueAgrees ==
  Spec => []CurrentIsRunning
<1>1. IInv => CurrentIsRunning
  BY DEF IInv, Agreed, CurrentIsRunning
<1> QED BY <1>1, Invariance, PTL

\* The part of NeverSpins that a scheduler with migration keeps too.
Apart ==
  (\A c \in CPUs : Class[Boot[c]] = Idle) =>
    \A c, d \in CPUs : ~(SpinsFor(c, d) /\ SpinsFor(d, c))

\* Where the closures that pick a task are run.
Picks(c) == parkDequeue(c) \/ parkRetry(c) \/ yield_now(c) \/ might_preempt(c) \/ exit_current(c)

\* A CPU that has never been without a task picks, while it still runs the
\* current task of its run queue, another one.
LEMMA PickAnother ==
  ASSUME IInv, NEW c \in CPUs, Picks(c), pc'[c] = "switch", pc[c] \notin {"parkRetry", "exitRetry"}
  PROVE  /\ onCpu' = onCpu /\ current[c] = onCpu[c] /\ next'[c] # onCpu[c]
         /\ \A d \in CPUs \ {c} : pc'[d] = pc[d] /\ next'[d] = next[d]
<1>1. TypeOK /\ Placed /\ Agreed
  BY DEF IInv
<1>2. \A label : Goto(c, label) => pc'[c] = label
  BY <1>1 DEF Goto, TypeOK
<1>3. pc[c] \in {"parkLocked", "yield", "preempt", "exit"}
  BY DEF Picks, parkDequeue, parkRetry, yield_now, might_preempt, exit_current, At
<1>4. \E t \in Tasks : SwitchTo(c, t) /\ (try_pick_next(c, t, None) \/ try_pick_next(c, t, current[c]))
  BY <1>2 DEF Picks, parkDequeue, parkRetry, yield_now, might_preempt, exit_current
<1>5. PICK t \in Tasks : SwitchTo(c, t) /\ (try_pick_next(c, t, None) \/ try_pick_next(c, t, current[c]))
  BY <1>4
<1>6. t # current[c]
  BY <1>1, <1>5, Picked
<1>7. current[c] = onCpu[c]
  BY <1>1, <1>3 DEF Agreed
<1>8. onCpu' = onCpu /\ next'[c] = t /\ \A d \in CPUs \ {c} : pc'[d] = pc[d] /\ next'[d] = next[d]
  BY <1>1, <1>5 DEF SwitchTo, Goto, TypeOK
<1> QED BY <1>6, <1>7, <1>8

\* Every other step leaves a CPU that is switching as it is, and makes none
\* switch.
LEMMA SwitchingKept ==
  ASSUME IInv, [Next]_vars, \A e \in CPUs : ~Picks(e), NEW c \in CPUs, pc'[c] = "switch"
  PROVE  pc[c] = "switch" /\ next'[c] = next[c] /\ onCpu'[c] = onCpu[c]
<1>1. TypeOK
  BY DEF IInv
<1>2. \A e \in CPUs : \A label : Goto(e, label) /\ label # "switch" => pc[c] = "switch" /\ e # c
  BY <1>1 DEF Goto, TypeOK
<1>3. ASSUME NEW e \in CPUs,
             \/ wait(e) \/ do_wait(e) \/ parkCheck(e) \/ yieldStart(e) \/ exitStart(e)
             \/ mightPreempt(e) \/ tick(e) \/ do_inter_processor_call(e)
      PROVE  pc[c] = "switch" /\ UNCHANGED cpuVars
  BY <1>2, <1>3 DEF wait, do_wait, dropWaiter, parkCheck, yieldStart, exitStart, mightPreempt, tick,
                    do_inter_processor_call, Reschedule
<1>4. ASSUME NEW e \in CPUs, switch_to_task(e) \/ after_switching_to(e)
      PROVE  pc[c] = "switch" /\ next'[c] = next[c] /\ onCpu'[c] = onCpu[c]
  <2>1. pc[c] = "switch" /\ e # c
    BY <1>2, <1>4 DEF switch_to_task, after_switching_to
  <2> QED BY <1>1, <1>4, <2>1 DEF switch_to_task, after_switching_to, TypeOK
<1>5. ASSUME NEW a \in Actors,
             Enqueue(a) \/ \E t \in Tasks : wake_up(a, t) \/ (a \in CPUs /\ run_new_task(a, t))
      PROVE  pc[c] = "switch" /\ UNCHANGED cpuVars
  <2>1. EndJob(a) => pc[c] = "switch"
    BY <1>1, SMT DEF EndJob, TypeOK
  <2> QED BY <1>2, <1>5, <2>1 DEF Enqueue, enqueueSelect, enqueuePush, set_need_preempt, wake_up,
                                  run_new_task
<1>6. CASE UNCHANGED vars
  BY <1>6 DEF vars, cpuVars
<1>7. CASE Next
  BY <1>3, <1>4, <1>5, <1>7 DEF Next, Step, Picks, Actors, cpuVars
<1> QED BY <1>6, <1>7

\* Two CPUs cannot come to wait for each other: the one that picks second
\* would still have its task, which the first one has taken, as the current
\* task of its run queue.
LEMMA ApartKept ==
  IInv /\ Apart /\ [Next]_vars => Apart'
<1> SUFFICES ASSUME IInv, Apart, [Next]_vars PROVE Apart'
  OBVIOUS
<1>0. (\A c \in CPUs : Class[Boot[c]] = Idle)' => \A c \in CPUs : Class[Boot[c]] = Idle
  <2>1. UNCHANGED system
    BY DEF Next, vars
  <2> QED BY <2>1 DEF Class, Boot
<1> SUFFICES ASSUME \A c \in CPUs : Class[Boot[c]] = Idle,
                    NEW c \in CPUs, NEW d \in CPUs, SpinsFor(c, d)', SpinsFor(d, c)'
             PROVE  FALSE
  BY <1>0 DEF Apart
<1>1. /\ pc'[c] = "switch" /\ next'[c] = onCpu'[d]
      /\ pc'[d] = "switch" /\ next'[d] = onCpu'[c]
  BY DEF SpinsFor
<1>2. ASSUME NEW e \in CPUs, NEW f \in CPUs, Picks(e), pc'[e] = "switch", next'[e] = onCpu'[f],
             pc'[f] = "switch", next'[f] = onCpu'[e]
      PROVE  FALSE
  <2>1. pc[e] \notin {"parkRetry", "exitRetry"}
    BY DEF IInv, Idles
  <2>2. /\ onCpu' = onCpu /\ current[e] = onCpu[e] /\ next'[e] # onCpu[e]
        /\ \A g \in CPUs \ {e} : pc'[g] = pc[g] /\ next'[g] = next[g]
    BY <1>2, <2>1, PickAnother
  <2>3. e # f
    BY <1>2, <2>2
  <2>4. pc[f] = "switch" /\ next[f] = onCpu[e]
    BY <1>2, <2>2, <2>3
  <2>5. current[f] = onCpu[e] /\ onCpu[e] \in Tasks
    BY <2>4 DEF IInv, Agreed, TypeOK
  <2>6. taskCpu[onCpu[e]] = e /\ taskCpu[onCpu[e]] = f
    BY <2>2, <2>5 DEF IInv, Placed, Has
  <2> QED BY <2>3, <2>6
<1>3. CASE \E e \in CPUs : Picks(e) /\ e \in {c, d}
  BY <1>1, <1>2, <1>3
<1>4. CASE \A e \in CPUs : ~Picks(e)
  <2>1. /\ pc[c] = "switch" /\ next'[c] = next[c] /\ onCpu'[c] = onCpu[c]
        /\ pc[d] = "switch" /\ next'[d] = next[d] /\ onCpu'[d] = onCpu[d]
    BY <1>1, <1>4, SwitchingKept
  <2> QED BY <1>1, <2>1 DEF Apart, SpinsFor
<1>5. ASSUME NEW e \in CPUs \ {c, d}, Picks(e) PROVE FALSE
  <2>1. /\ onCpu' = onCpu /\ \A g \in CPUs \ {e} : pc'[g] = pc[g] /\ next'[g] = next[g]
    <3>1. \A label : Goto(e, label) => \A g \in CPUs \ {e} : pc'[g] = pc[g]
      BY DEF Goto, IInv, TypeOK
    <3>2. \A t : SwitchTo(e, t) => onCpu' = onCpu /\ \A g \in CPUs \ {e} : pc'[g] = pc[g] /\ next'[g] = next[g]
      BY <3>1 DEF SwitchTo, IInv, TypeOK
    <3> QED BY <1>5, <3>1, <3>2 DEF Picks, parkDequeue, parkRetry, yield_now, might_preempt,
                                    exit_current, cpuVars
  <2> QED BY <1>1, <1>5, <2>1 DEF Apart, SpinsFor
<1> QED BY <1>3, <1>4, <1>5

\* The spin of switch_to_task never waits under the kernel's own scheduler, and
\* under any scheduler two CPUs with idle tasks never wait for each other.
THEOREM SwitchesAtOnce ==
  Spec => []NeverSpins
<1>1. ASSUME IInv, ~Migrating, NEW c \in CPUs, pc[c] = "switch"
      PROVE  ~switchedTo[next[c]]
  <2>1. /\ next[c] \in Tasks /\ current[c] = next[c] /\ next[c] # onCpu[c]
        /\ previous[c] = None /\ lastCpu[next[c]] = c
    BY <1>1, SMT DEF IInv, Agreed, Homes, Has, Contexts
  <2>2. \A d \in CPUs : next[c] \in {onCpu[d], previous[d]} => d = c /\ next[c] = onCpu[c]
    <3>1. next[c] # None
      BY <1>1, <2>1, Setup DEF IInv
    <3> QED BY <1>1, <2>1, <3>1, SMT DEF IInv, Homes
  <2> QED BY <1>1, <2>1, <2>2 DEF IInv, Contexts
<1>2. IInv /\ Apart => NeverSpins
  BY <1>1 DEF NeverSpins, Apart
<1>3. Init => Apart
  BY DEF Init, Apart, SpinsFor
<1>4. Spec => []Apart
  BY <1>3, ApartKept, Invariance, PTL DEF Spec
<1> QED BY <1>2, <1>4, Invariance, PTL

\* A CPU with an idle task never runs out of tasks.
THEOREM IdleStays ==
  Spec => []IdleIsRunnable
<1>1. ASSUME IInv PROVE IdleIsRunnable
  <2>1. TypeOK /\ Placed
    BY <1>1 DEF IInv
  <2>2. \A c \in CPUs : Boot[c] \in Tasks
    BY <2>1, Setup
  <2>3. \A c \in CPUs : Has(c, Boot[c]) => Entries(c, Boot[c]) = 1
    BY <2>1, <2>2, EntriesOfHas
  <2> QED BY <1>1, <2>3, SMT DEF IInv, Idles, IdleIsRunnable
<1> QED BY <1>1, Invariance, PTL
=============================================================================
