# TLA+ specifications of Asterinas

This directory holds TLA+ models of the parts of Asterinas where threads, CPUs
and interrupts meet, or a crash can come in between, the TLC instances that check
them, and TLAPS proofs of the properties that matter most. Every definition is translated from the Rust source;
`PROJECT.json` maps each one to its lines.

1. [The system](#the-system)
2. [Modules and how they correspond to the code](#modules-and-how-they-correspond-to-the-code)
3. [Runs](#runs)
4. [Disagreements between code and documentation](#disagreements-between-code-and-documentation)
5. [Fairness](#fairness)
6. [Proofs](#proofs)
7. [What is not modelled](#what-is-not-modelled)
8. [Plan](#plan)

## The system

Asterinas has two layers. `ostd` is the small framework that owns the hardware:
CPUs, memory, tasks, scheduling hooks and synchronisation; all unsafe code is
there. `kernel` builds Linux's system calls on it in safe Rust: processes,
signals, futexes, files, sockets. The kernel injects its scheduler into `ostd`
through a trait.

Kernel code is not preempted: it runs until it calls the scheduler, and only
interrupts come in between. With several CPUs every pair of atomic operations or
critical sections can still interleave.

### Inventory

Sizes, where a part is a file or a directory of its own, are in lines of Rust.

| part | state and operations | what is hard about it | model |
|---|---|---|---|
| wait queues (`ostd/src/sync/wait.rs`, 400) | a queue of wakers with a lock-free copy of its length; a flag per waker; wait, wake one, wake all | lost wakeups between test, enqueue and park | `WaitQueue` |
| `Mutex` (168) | a flag and a wait queue | the flag is cleared before the queue is read | `Mutex` |
| `RwLock` (424) | one word with a count and three bits; spinning | refused attempts are visible in the word; upgrade | `RwLock` |
| `RwMutex` (402) | the same word and a wait queue | which drops wake whom | `RwMutex` |
| RCU (`sync/rcu`, 1050) | pointer cells; the grace-period monitor | objects retired during a grace period; reuse of memory | `Rcu` |
| `SpinLock`, `RwArc`, guards (413) | test-and-set; reader count | small | as atomic steps |
| scheduler core (`ostd/src/task`, 1698) | current and previous task, `switched_to_cpu`, `need_preempt` | park against unpark; two CPUs and one task | `Scheduler` |
| class scheduler (`kernel/core/src/sched`, 1545) | run queues, the CPU of each task | enqueue races with sleep and exit | `Scheduler` |
| inter-processor calls (264), TLB flushes (386) | call queues, pending flags, deferred frames | late flushes, two CPUs waiting for each other | planned |
| frames, page tables, address spaces (`ostd/src/mm`, 13960) | reference counts, page-table nodes with locks | lock-free descent, nodes cut off while they are read | planned |
| CPU-local data (1495), interrupts (618), softirqs (820) | per-CPU | context assertions | no |
| futexes (733) | hashed buckets of waiters | wake, timeout, signal and requeue of one waiter | `Futex` |
| pause (`process/signal/pause.rs`, 311) | a waiter with timer and signal | three sources of wake-up | partly, in `Futex` |
| processes: exit, wait, groups, sessions | the tree of processes, PID table, zombies | parent and child exit at once | planned |
| signals, job control | queues, masks, stop state | delivery against masking and exit | planned |
| clone, execve, credentials, namespaces | construction of state | multi-threaded execve | no |
| readiness: `Pollee` (543), epoll and other events (1487) | cached events, observers, interest and ready lists | stale caches, one-shot entries, events between look and sleep | `Pollee`, `Epoll` |
| timers (1652) | a heap of callbacks per clock | cancel against expiry | planned |
| work queues, threads (1621) | pending items, workers, monitor | wake-ups by a periodic monitor only | planned |
| System V semaphores (1287) | values and pending operations | timeout against completion, removal | planned |
| page cache, VMOs (3522) | page state, page lock, writeback flag | completion without the lock | planned |
| pipes (796), ring buffer (575) | indices and two ends | closing one end while the other sleeps | planned |
| file locks (range lock, flock) | sets of ranges and sleepers | conflicts, splitting | planned |
| `Vmar` (4080), VFS (9162), file systems | maps and trees | mostly data structures | no |
| sockets (14831), `aster-bigtcp` (6474) | socket states, back logs | connect, accept and close at once | no |
| MlsDisk (13656) | edit journal, log store, LSM tree | crash between any two writes | journal: `EditJournal` |
| block layer, virtio, NVMe and other drivers | request queues, registers | devices | no |
| system calls (16255) | decoding of arguments | none of its own | no |
| boot, architecture code, OSDK | | outside a state-machine model | no |

Interactions: every sleeping operation of either layer ends in a `Waiter` and a
`Waker` of the wait queue; these call `park_current` and `unpark_target` of the
scheduler core, which call the class scheduler; every context switch reports a
quiescent state to RCU; TLB flushes and page tables free their memory through RCU.
Futexes, semaphores, pollees and timers share wakers. A file's pollee notifies the
entries of epoll files, and an epoll file's own pollee the threads that wait for it.

## Modules and how they correspond to the code

The granularity is the same everywhere. One atomic operation, or one critical
section under a spin lock, is one step; `pc` names the next step of a thread or
CPU. Everything between two such steps that touches only the thread's own data
is part of one of them. A definition has the name of the function it models;
where a function is several steps the names tell them apart (`parkCheck`,
`parkDequeue`). The operators that a comment calls mutants are not part of any
specification: each states a plausible mistake in the definition after it.

All models are sequentially consistent. The acquire and release orderings are
argued about in comments of the source (`wait.rs` at its top, `poll.rs`); these
arguments are not modelled.

### WaitQueue and Mutex

`wakers` and `numWakers` are the fields of `WaitQueue`, `hasWoken` is the flag of
each thread's waker, `parked` holds the threads that are in no run queue. The flag
store of `unlock`, the emptiness test, the pop and the swap of `has_woken`
interleave freely with the waiter's steps.

`target` is what a wake call took out of the queue. A thread has at most one open
waker. `wake_up` on a closed waker returns false, whichever wait it belonged to,
so closing turns every reference to the waker into `Dead`.

`Mutex` EXTENDS `WaitQueue` and supplies the condition, `acquire_lock`. Its names differ
from those of `RwMutex` (`MutexSpec`, `tryAgain`, `NoLostMutexWakeup`), so that one module
can hold the proofs of both sleeping locks.

### RwWord, AbstractRwLock, RwLock and RwMutex

`RwWord` is the lock word that both locks use: the count of readers and the three
bits as a record, with the atomic operations on it. `AbstractRwLock` is what a
user expects: guards appear and disappear, and no two conflict. In `RwLock` a
failed attempt is two steps, as in the code, so that others see the word in
between. `RwMutex` puts the same calls on the wait queue. `silent` in `RwMutex` is
a history variable: it says that a refused `try_read` or `try_upread` has at some
time left the word free without waking anybody, and stays set from then on. No
action reads it. `NoLostWakeup` claims something only while it is not set, so the
passing run covers the behaviours before the first such call, and `rwmutex_try`
shows what such a call does. It also claims something only of a lock word that is free:
who sleeps beside a lock that others hold is not its subject.

### Scheduler

The state is per task (`taskCpu`, `lastCpu`, `switchedTo`, `hasWoken`) and per CPU
(`queue`, `current`, `onCpu`, `previous`, `next`, `needPreempt`). `ipi` holds the CPUs
that have an inter-processor call of `set_need_preempt` to come: the caller does not wait
for it, and the CPU takes it when its interrupts are on. The closure that
`park_current` runs under the run queue's lock is two steps, because `has_woken`
is stored without that lock. `job` is a call of `enqueue` under way, by a CPU or by
one of `Wakers`, which stand for code on CPUs that are not modelled.

Which task of a class runs next depends on virtual run times and weights; the
model leaves that choice open, so what it shows holds for every choice. `enqueue` compares
whole policies: between classes `should_preempt` is decided by the class, and inside
the real-time or the fair class it may say either. `Systems` are
the ways in which the kernel may be set up, of which the initial state chooses one.
`Migrating` says that it has a scheduler that may wake a task on any CPU. The kernel's own does not
(`select_cpu` goes back to the last CPU), but `ostd` allows it.

### Rcu

One cell, any number of CPUs and objects. A reader's guard disables preemption, so
a CPU has one guard at a time and does not switch tasks while it has one. Memory
that was freed is allocated again, so the pointer comparison of `compare_exchange`
is exposed to reuse. `restart`, `after_grace_period`, `finish_grace_period` are
those of `monitor.rs`; the unlocked read of `is_monitoring` is a step of its own.

### Futex

Addresses hash to buckets (`Hash`); an item is a key, a bit set and a waker. A waiter
goes through `futex_wait_bitset`, the timed pause, and the removal of its item. A
timeout is `expire` (the clock passes) and `timerCallback` (the callback calls
the waker); a signal is `enqueue_signal` and `wake_signalled_waker`; each pair can
be separated by any other steps. Calls that need two buckets lock them one after the
other. `counted`, `expects` and `returned` record what a wait was asked and told. `Loads`
are the calls that user code makes; the initial state chooses one of them.

A futex word is the set of its bits that are one, among `WordBits` of them, so OR, ANDN
and XOR of `futex_wake_op` are set operations; `wrapping_add` gives a bit where an odd
number of the two operands and the carry have one, and `Less` compares the highest bit
in which two words differ. The last section of the module names conditions on a load,
which the theorems about futexes use.

### Pollee and Epoll

`Pollee` is the cache of one I/O object's events: a word that is invalid, holds
events, or holds the address of the task that is checking (`poll_with`). The load,
the swap, the check and the exchange are a step each, and any number of tasks can be
between them. The exchange is a weak one and may fail for no reason.

`Epoll` EXTENDS it and composes the parts that an event goes through: the watched
files with a pollee and a `SyncSubject` each, the entries with their lock, flags and
observer, the ready list, the epoll file's own pollee (`Self`), and the threads that
wait for it. The watched file is any object that keeps the rules of `Pollee`: it
changes its state and then notifies (`produce`, as `EventFile` does) or invalidates
(`consume`, as a datagram socket does). It has one kind of event, so the masks are
left out. A file can be closed, after which its entries are dead until a wait
removes them.

Locks that are held for more than one step are variables (`subject`, `inner`,
`interestLock`, `entriesLock`, `popGuard`). `lock_pop` is merged with the first call
of the iterator, and the pop of the last entry with the invalidation of the cache:
the list is accessed only with its lock held, so nobody can be in between. The early
returns of `control` (`EEXIST`, `ENOENT`) change nothing and are left out. Several
entries may watch one file, as with several descriptors. `owed` is a history
variable, read by `NoLostEvent` only: the entries whose file has had an event that no
wait has found. An event is found when a wait reads it, from the cache or from the file; one
that is raised after that, before the wait returns, is owed again.

### AbstractLog and EditJournal

`AbstractLog` is the promise: commits append to a log, and a crash keeps a prefix of
it. `EditJournal` is the journal with its buffer, the chain of MACs in the ring, the
two snapshot blobs, the compaction policy and the recovery. The journal is behind a
mutex, so calls come one at a time; what the model interleaves with them is the crash,
which can come between any two writes to the device, and again after recovery. A group
of edits is a number, and a state is the sequence of the groups applied to it. A MAC
identifies what was written: decryption fails where a block was not written whole.

`lost` is the fault model. The contract of `BlockSet` says nothing of what a crash does
to writes that were not flushed, so there are three devices, chosen in the initial
state: an *ordered* one may lose its last write, a *tearing* one may also do it by
half, a *cached* one may lose or tear any write since the last flush. `Write` is what
`RawDisk::write` does, which submits the request and waits for its completion, and
`flushDevice` is what the contract asks of a flush.

## Runs

All bounds are in the `.cfg` files.

| run | instance | distinct states | checks |
|---|---|---|---|
| `mutex` | 3 threads | 17 thousand | `MutualExclusion`, `NoLostMutexWakeup`, `WokenIsUnparked`, `MutexInv`; `NobodyStranded` under fairness |
| `rwlock` | 4 threads, at most 3 readers | 988 (up to symmetry) | `Exclusion`, `QuiescentFree`, `ReadersCapped`, `IInv`, `UpgradeBlocksReaders`; refinement of `AbstractRwLock` |
| `rwmutex` | 3 threads, queue of 3 | 271 thousand | `NoLostWakeup`; refinement of `AbstractRwLock` |
| `scheduler` | 2 CPUs, 4 tasks (2 of them idle tasks), 1 waker, under the kernel's scheduler and under a migrating one; and 2 CPUs without idle tasks, migrating | 673 thousand (up to symmetry) | `AtMostOnce`, `NoLostWake`, `CurrentIsRunning`, `NeverSpins`, `IdleIsRunnable`, `RunsOnce` |
| `rcu` | 3 CPUs, 2 objects | 14 thousand | `NoUseAfterFree`, `FreedOnce`, `Monitored`, `IInv`; `Reclaimed` under fairness, if the CPUs keep switching |
| `futex` | 2 waiters, 2 callers, one bucket, timeouts and signals; and 3 waiters, 2 callers, two buckets | 113 thousand | `SuccessIffWoken`, `NoStaleItems`, `NoMissedWake`, `Findable`, `NoCircularWait`, `RequeueAtMost` |
| `epoll` | a driver, a controller, up to 2 waiters and 2 entries | 686 thousand | `CacheIsFresh`, `NoLostEvent`, `ReadyListExact`, `SleepersAreTold`; `SomeoneReturns` under fairness |
| `journal` | a ring of 3 blocks, 4 commits, 2 crashes, 3 kinds of device | 299 thousand | `IInv`, `AlwaysRecovers`, `FlushedSurvivesOnce`, `PolicyCounts`; refinement of `AbstractLog` |
| `rwmutex_try`, `scheduler_exit`, `futex_move`, `journal_flush` | as small as shows it | | a sentence of the documentation that the code does not keep |

The type invariant of a module is part of one of the invariants of its run: of `IInv`
or `MutexInv` where there is one, and otherwise of `AtMostOnce`, `Findable`, `ReadyListExact` and
RwMutex's `NoLostWakeup`.

Why the bounds are enough for the cases that matter:

- `mutex`, `rwmutex`: with two threads a woken thread cannot lose the race for the
  lock to a third, and a wake-up cannot be spent on a thread that no longer waits.
- `rwmutex`: `MaxQueue` is needed, because a reader that gets the lock on its second
  test leaves a closed waker in the queue, and only a later wake call removes it. A
  queue of three holds every thread once.
- `rwlock`: `MaxReader` is 3, so that four threads overrun it. The lock word is
  shared by everybody, so a fourth thread is the observer of any three.
- `scheduler`: two CPUs, because the CPU that a task left may still use its stack;
  two normal tasks beside the idle ones, so that both run queues have a choice. A
  single waker suffices to separate `has_woken` from `enqueue`; the CPUs also wake.
  Without idle tasks, the two first tasks suffice, which may sleep, move and exit: a CPU
  then runs out of tasks, which the idle task prevents. The symmetry swaps the CPUs
  together with their first tasks, and the other tasks.
  `CHECK_DEADLOCK FALSE`: the system may stop when every task sleeps or has exited.
- `rcu`: three CPUs, so that a grace period has reports from some and not from others
  while a third retires objects; two objects, so that memory is used again.
- `futex`: one waiter is interruptible and has a timeout, the other is not, so that a
  wake-up can go to the wrong one. Words are one bit wide (`WordBits = 1`), which is
  enough for every arithmetic operation of `futex_wake_op` to change a word or not,
  and to wrap. Calls are chosen so that a change of a word wakes all who wait for it.
  With two buckets, a requeue always asks for at least one wake-up
  (`futex_val_to_max_count`), so with three waiters one can be woken, one moved and
  one left; one of them asks to move none. A timed wait that is moved to another
  bucket is outside this run (`futex_move`). `MCFutex` assumes, and TLC evaluates, that its two loads meet
  the conditions of the theorems.
- `epoll`: three instances, since their product is too large. One entry with every
  mode, through two changes of the file (an event comes and goes, or the file is
  closed) and two calls of `control`: every step of `push`, `poll` and the iterator
  meets every step of the others. Two waiters, who share the ready list, its
  iterator and the cache. Two entries, so that the list has an order and an iterator
  can reach its limit with entries left. `MaxEvents` is 1, so that a wait also ends
  before the list does. The invariants were also checked once,
  beyond the run, with two changes and two calls of `control` for two waiters
  (level-triggered and one-shot) and for two entries: 11.5 million states, no error.
- `journal`: a ring of three blocks is the smallest that has a `Version` record, an
  edit and a block that is overwritten when the ring wraps; four commits of one or
  two edits wrap it, and compact twice. Two crashes: the second one meets what the
  recovery from the first has left; a third is not part of the run. `Word` stands for 2^64 and is only large enough to tell a
  wrapped count from a real one. `CHECK_DEADLOCK FALSE`: a journal that has used up
  its commits, or failed to recover, stops.

Symmetry is used only in runs without liveness properties.

### What the passing runs show

- No order of the steps of lock and unlock leaves a thread asleep beside a free
  `Mutex`, or a woken thread out of the run queues; once requests stop, all are
  served.
- `RwLock` and `RwMutex` grant exactly the guards that the abstract lock allows. A
  refused attempt never counts as a guard, and the word returns to zero.
- Nobody sleeps beside a free `RwMutex` without a waker to come, as long as no refused
  `try_read` or `try_upread` has left the word free (`rwmutex_try`). This is not to say
  that every sleeper who could have the lock is woken: see the observations.
- A task is never twice in the run queues and never lost, however enqueue, park,
  preemption and exit interleave; the run queue and the CPU agree about the current
  task; under the kernel's scheduler a context switch never waits. Under a
  scheduler that moves tasks, a task still never runs twice at once, and two CPUs with
  idle tasks never wait for each other in a context switch.
- RCU never frees what a guard can reach, and nothing twice. While every CPU keeps
  switching tasks, it frees everything.
- A futex wait reports success exactly if a wake call has counted it, leaves no item
  behind, and does not sleep past a change of its word, while all of it happens in
  one bucket. Items that move between buckets stay findable. A requeue moves no more
  waiters than it is told to, except for the limit of zero described below.
- A `Pollee` never keeps events that are out of date, whichever tasks check them at
  the same time. An event of a file that an epoll file watches is in the ready list
  or on the way there until a wait has found it, whatever is added, modified,
  deleted or closed meanwhile, and a thread does not sleep beside a ready entry.
- The edit journal implements a log of which a crash keeps a prefix, on every device
  and through a second crash. Without a volatile cache recovery always finds a
  snapshot. What was flushed survives the first crash of a device that keeps its
  writes in order and whole.

## Disagreements between code and documentation

Each is a run of its own that TLC refutes; `findings` in `PROJECT.json` quotes the
sentence.

- `rwmutex_try`: `try_read` adds a reader, sees the writer and subtracts it again
  without a wake. A writer whose exchange falls between the two sleeps although
  nobody is present, and nobody wakes it.
- `scheduler_exit`: `wake_up` sets `has_woken` and then enqueues. If the task sees
  the flag, returns and exits in between, the late enqueue puts an exited task into a
  run queue.
- `futex_move`: a waiter that was requeued to another bucket and then times out looks
  for its item in the old bucket, and reports success.
- `journal_flush`: after a recovery the compaction policy starts from zero, although
  the chain that was recovered occupies a part of the ring. Compaction comes too late,
  the ring wraps over the block from which the next recovery starts, and a second
  crash loses edits that were flushed.

Observations that no run is about:

- The drop of an upgradeable guard of `RwMutex` wakes the queue only if the word
  becomes free. An `upread` that sleeps because of that guard stays asleep while readers
  are present, although it could have the lock. `upread` says:
  "The calling thread will sleep until there are no writers or upreaders present."
- `RwMutexWriteGuard::downgrade` calls `wake_all` while it still holds the lock in
  another mode. The loop runs until the queue is empty, and the writers that it wakes
  fail and enqueue again, so it has no bound of its own while they keep up with it.
- `need_preempt` can be set for a decision that has been taken already.
  `might_preempt` then switches without asking `update_current`, and the idle task
  may replace a normal one until the next tick.
- Under a scheduler that moves tasks, on CPUs without idle tasks, two CPUs can wait for
  each other in `before_switching_to`: a task that runs out of work on
  one CPU is woken and taken by the other, whose own task is then woken on the first.
  TLC finds this if `NeverSpins` is asked without its condition. The kernel has neither
  such a scheduler nor such CPUs.
- `update_item_keys` tests its count after it has changed a key, so a requeue of at
  most zero waiters inside one bucket moves one, while between buckets it moves none.
  `syscall/futex.rs` says of the zero that "it means no requeues". `RequeueAtMost` states
  the limit that the code keeps (`MayMove`).
- The snapshot is persisted before its `Version` record is appended. After a crash in
  between, recovery finds no record with the MAC of the snapshot and applies nothing,
  which is right: the chain has no edits after the snapshot yet. But no `Version`
  record is written then, so edits that are committed before the next compaction are
  not applied by the next recovery either, flushed or not. The same happens when the
  latest blob is repaired from the other one, since its MAC differs from the one in
  the journal.
- The assertion of `done_compact` (`used_blocks >= compacted_blocks`) fails after a
  recovery; without it the count wraps and the journal then compacts on every append.
- On a device with a volatile cache both snapshots can be lost, because nothing is
  flushed between two compactions, and recovery fails. `RawDisk::flush` of mlsdisk
  does nothing, so `flush` gives no guarantee on such a device.
- A CPU that has only its idle task never switches, so it never reports a quiescent
  state, and a grace period waits for it. `Reclaimed` therefore has as its premise that
  every CPU keeps switching (`KeepsSwitching`).
- The snapshot manager accepts a journal area with a ring of one block, whose only block is in
  use from the start: the first append overwrites it before the policy is asked.
- A closed waker stays in its wait queue until a wake call pops it.
- The comment of `FUTEX_OP_ANDN` says `oparg & !oldval`; the code computes
  `!oparg & old_val`, as Linux does. The model follows the code.

## Fairness

`mutex`: every step of a thread inside `lock`, `unlock` or the wait queue is weakly
fair, because the scheduler runs runnable threads. That includes the start of
`unlock`: an owner eventually drops its guard. Asking for the lock is not fair. Parked threads have no enabled step, so this assumes nothing
about wake-ups.

`rcu`: the steps of a call that has begun are weakly fair, among them what remains of the
report of a quiescent state. That a CPU switches tasks is not: it depends on its having work. It is
the premise of `Reclaimed` instead, stated for each CPU: it switches tasks again and again,
or no grace period is monitored again and again. TLC refutes the property if the premise leaves out
one CPU, and finds behaviours that satisfy all of it and retire objects.

`epoll`: one condition, weaker than what the scheduler gives: while some call that has
begun can take a step, some call takes a step. Beginning a call, a timeout and a
signal are not fair. Nothing is assumed of which thread runs, so `SomeoneReturns` says
that *some* waiter returns.

The other runs check safety only.

## Proofs

The theorems are for every set of threads, CPUs or objects, and every
`MaxReader` within the named assumptions of the modules. `DeadAssumption` and
`RcuAssumption` only keep the marker values apart from threads and objects.
`MaxReaderAssumption` says that the limit is positive, `ThreadsAssumption` of `RwLock`
that there are finitely many threads, fewer than `2 * MaxReader`: the count has room
for that many, refused attempts included, before it reaches the bits above it.
`ThreadsAssumption` of `RwMutex` says that there are no more threads than `MaxReader`,
2^60 in the code. `NoLostWakeup` needs this much: a reader refused because of the limit
alone could take its attempt back as the last one, and go to sleep beside a free lock.
`SchedulerAssumption` says that CPUs start with different tasks, which under the
kernel's own scheduler are the idle tasks of their CPUs, and that wakers are not CPUs.
`EpollAssumption` keeps the kinds of tasks and the marker values apart.
`FutexAssumption` says that the waiters are finitely many, what a load consists of, that
every wait has a bit set and every call asks for at least one wake-up.
`JournalAssumption` says that the ring is not empty and that a record fits
into the buffer, as the code demands; `PolicyCounts` has the condition that the ring has more
than one block.

| module | theorems |
|---|---|
| `SleepLockProofs` | lemmas on the wait queue; of `Mutex`: `MutexInvariance`, `MutexTypeCorrect`, `MutexExclusive`, `MutexWakeupsKept`, `WokenReturns`; of `RwMutex`: `Invariance`, `WakeupsKept`, `Exclusive`, `Implements` |
| `RwLockProofs` | `Invariance`, `TypeCorrect`, `Exclusive`, `NoLeak`, `Capped`, `UpgradeIsFirm`, `Implements` |
| `SchedulerProofs` | `Invariance`, `RunningOnce`, `QueuedOnce`, `WokenIsQueued`, `QueueAgrees`, `SwitchesAtOnce`, `IdleStays` |
| `RcuProofs` | `Invariance`, `TypeCorrect`, `MemorySafe`, `DroppedOnce`, `NoneLeftBehind` |
| `FutexProofs` | `NoDeadlock`, `ItemsFindable`, `AnswersTrue`, `CountedOnce`, `ItemsDropped`, `WakesHeard`, `FewMoved` |
| `EpollProofs` | `CachesAreFresh`, `ListIsExact` |
| `EpollEventProofs` | `SleepersKnow`, `EventsKept` |
| `EditJournalProofs` | `Invariance`, `Recovery`, `Counting` |

Each rests on one inductive invariant, `IInv` (`MutexInv` for the mutex). A lemma says
that it holds at first and another that every step keeps it; `Invariance` puts them
together. `EpollEventProofs` and the last part of `FutexProofs` add invariants that are
inductive on top of `IInv`. The invariants of `Mutex`, `RwLock`, `Rcu` and `EditJournal`
are also properties of the runs. Those of `RwMutex`, `Scheduler`, `Futex` and `Epoll` are
no properties of a run, because the proofs make them redundant; TLC has checked them on
the instances of `rwmutex`, `scheduler`, `futex` and `epoll`. A proof module that says `USE Zenon` tries that prover first and
names SMT where arithmetic or sequences need it.

**Wait queue and Mutex.** `NoLostMutexWakeup` alone is not inductive: the unlocking thread
concludes from `num_wakers` that nobody sleeps. `QueueInv`, which any client of the
queue can use, says that `num_wakers` is the queue's length, that a waker nobody has
swapped is in the queue or in the hands of a wake call (`SleeperInv`), and that a thread
that parks after it was marked as woken still has its unpark to come (`ParkInv`).
`SleepLockProofs` shows once that the steps of the queue keep it, and that they keep
`Attended`: where somebody sleeps, somebody is about to wake a sleeper or to look at the
condition. Nothing there mentions a lock. The mutex adds that the flag and
the guards agree (`GuardInv`).

**RwLock.** The count in the word is the number of threads with a read guard or a
refused read attempt under way (`CountInv`), each bit says who owns it (`BitInv`), and a
thread inside a call has the guard that the call started from (`PcInv`). Exclusion
follows because a writer enters only through an exchange from zero or, on upgrade,
from the upgrade bits alone. `UpgradeIsFirm` is an action property. `Implements`
shows that every step is a step of `AbstractRwLock` or leaves the guards alone.

**RwMutex.** `Accounts` is the same bookkeeping of the word, for a lock whose refused
attempts may be followed by sleep. It gives exclusion and, step by step, the refinement.
For `NoLostWakeup` the hard case is a thread whose second attempt was refused and which
has yet to subtract it: the lock is released meanwhile, and its subtraction makes the
word zero with the thread itself about to sleep. `UndoInv` says why it will not sleep
for good. What refused it was a writer or an upgrade; while that is there, the release
is still to come, and releases of a writer wake everybody. Afterwards the thread
is marked as woken, or a `wake_all` is still at work that finds it, or its waker
is in the hands of a wake call.

**Scheduler.** Two tasks on one CPU are easy to exclude; one task on two CPUs is not.
`taskCpu` is the key: it is set either because the task has a place in a run queue,
which is the one it names (`Placed`), or because exactly one call of `enqueue` has set
it and is going to push the task (`Claimed`). `Contexts` says that `switched_to_cpu` is
set for the tasks whose registers are in use, each on one CPU, also between the
switch and the clearing of the flag. `Agreed` and `Inside` tie the current task of a run
queue to what the CPU does. For wake-ups, `Rescued` is the step of `park_current` between
`has_woken` and the removal of the task: a waker that comes then has to wait for
the lock of that run queue and finds the task gone. `Homes` says that the kernel's own
scheduler never moves a task, and `Idles` that idle tasks stay in their queues. That two
CPUs with idle tasks never wait for each other (`Apart`) is inductive on top of these: such a CPU
picks its next task while it still has the current one in its run queue, so the task that
it is about to leave cannot have been picked by the other.

**Rcu.** `GuardInv` is the core: an object that a guard points to is in no running
callback, and if it is in a callback of the current grace period then the CPU of the
guard has not reported to that period. Callbacks for the next period may contain
anything. `CellInv`, `RemovedInv` and `FreedOnce` say that an object in use is in one
place, which makes reuse of memory harmless for the comparison; `PcInv` says that a CPU
reports only without a guard.

**Futex.** `Once` says that a waiter has one item, in the bucket of its key, and `Settled`
that it has one exactly until a wake call counts it or it takes the item out itself.
`Held` says that who holds a bucket's lock between two steps holds that of the lower
bucket of its pair, from which `NoDeadlock` follows. What a wait returns depends on
whether it finds its item again, in the bucket where the wait began. It does if
requeues stay inside buckets (`StaysHome`, kept by `AtHome`), and it need not look if
nobody but a wake call ends its pause (`Steady`, kept by `Calm`). `Tame` is one or the
other, and the hypothesis of `AnswersTrue` and `ItemsDropped`; `futex_move` shows that
it is needed. `CountedOnce` is what holds without it. Most of the work is in what the
calls do to a bucket: `Pick` takes the items at some positions in order, and lemmas say
by the rank of a position which entries it returns, without an induction.

For `WakesHeard` the invariant is `WInv`. `Heard` is `NoMissedWake` by entries, and is
kept by a wait because the word is read under the lock of the bucket where the item goes,
by a store because its caller has promised a wake call, and by that call because it
finds every item at its address. It needs two conditions. `Heeding`: a `FUTEX_WAKE_OP` that
changes a word wakes everybody there; user code that changes a word and wakes nobody
is what the property is not about. `Forward`: requeues follow an order of the
addresses. Otherwise a waiter could be moved away, miss the wake call for its word, and be
moved back, where it sleeps past the change; this is how requeue is defined and no mistake
of the kernel. `Onwards` says that under this condition an item which has left its
address is at one of higher rank.

`FewMoved` counts the positions of a bucket that a requeue changes. Inside a bucket
`update_item_keys` stops when the count reaches the limit, so at least one key changes where
one matches; `AtLeastOne` is that limit.

**Epoll.** `FreshAt(p)` is the heart of `CacheIsFresh`. A cached value can only come from
a task whose own address was in the cache from its swap to its exchange; so for a task
whose address is there and which has checked, what it found must still be true, or an
invalidation must be under way. Any change of the events leaves its author in
`Invalidating` until the cache is invalid. For the epoll file itself the events are the
ready list, which changes under its lock only, and the invalidation is inside the lock.
`ListExact` adds to `ReadyListExact` that entries which were deleted while they were
in the list still have their `is_ready` set. `Shape` says where
each task can be: which entry and which pollee it works on at which `pc`
(`Located`), that entries not yet added are nowhere (`Unmade`), and that the iterator's
limit counts entries that only its owner can remove (`Popping`). The proof first gives the types, by groups of variables, then what a
step keeps because it does not concern it, then the actions one by one.

**Sleepers and events of epoll.** `Told` extends `SleepersAreTold` from the sleep to the
whole time that a waiter's poller is registered. As long as no `push` is about to announce
an entry, a waiter that has been told nothing knows about the ready list (`KnowsAt`): it
sleeps beside an empty list, its poll of the epoll file has found events, or what is in
the list is within the limit of its own iterator. The poll may take its answer from the
cache, so this rests on `FreshAt(Self)`.

`NoLostEvent` says that an owed event is in the ready list unless a task is busy with the
entry; `Owing` says what that task is doing: it is going to push the entry, to poll its
file, or to notify the observers of the file (`Handles`). Each such task hands the entry on
to the list, to its next step or, if it is a wait that finds the event, to nobody. A poll
keeps its promise only if it finds the event. `Noticed` says why it does: the cache of a file that
has events says "none" only as long as the driver that produced them is about to
invalidate it, and that driver then has the entry in hand. A driver reaches the entry
because an enabled entry is among the observers of its file, or a controller is about to
register it and poll (`Observed`). An entry that a controller or a waiter
polls, registers or unregisters is locked by it (`Locked`), so their steps do not
undo each other's.

**EditJournal.** `AlwaysRecovers` needs that the versions of the two blobs go together
after every crash. `BlobsInStep` says how: the second blob is ahead of the first
exactly if it is the latest, and whatever becomes of the one write that is undecided,
the pair is still one that recovery accepts. `persist` keeps this because it
overwrites the older blob, and the repair in recovery restores it. `Counting` has an
invariant of its own, `PolicyInv`, for rings of more than one block: the count is the length of the chain, and equals the
size of the ring only while compaction is under way.

Checked by TLC only: the liveness properties (`NobodyStranded`, `Reclaimed`,
`SomeoneReturns`), and of the journal `FlushedSurvivesOnce` and the refinement of
`AbstractLog`. Liveness is outside the prover's reach. What the journal's recovery replays
is a fold over sequences of records, whose meaning for every length needs an induction that
the prover does not support. `NoMissedWake` is proved for loads with `Heeding` and `Forward`,
and `SuccessIffWoken` and `NoStaleItems` for loads with `Tame`, not for all.

## What is not modelled

`PROJECT.json` lists every part with a reason. In the modelled parts:

- weak memory orderings;
- in `WaitQueue`, the waits that can be cancelled (`wait_until_or_cancelled` with a
  condition for it): neither lock uses them. `Scheduler` and `Futex` have waits that end
  without a wake-up;
- the preemption and interrupt guards taken with spinning locks, and lock nesting
  in interrupt handlers;
- virtual run times, weights, time slices, priorities inside a class, load
  statistics and changes of policy in the class scheduler;
- panics on misuse, `Drop` during unwinding;
- RCU callbacks that register callbacks, and reads under a guard that the caller
  already has, which add no state;
- the computation of a futex's identity from an address, page faults when the word is
  read, and the decoding of the operation word;
- `pause_until` and its variants, which combine a wait queue with a condition;
- event masks and the user data of epoll entries, epoll files that watch epoll files,
  and the reading side of event files;
- encryption and serialization in the edit journal, I/O errors of the device (on which
  the code panics), and the log store above it.

## Plan

The modules so far are the base on which the kernel sleeps and switches. Next, in
this order, with the property each is for:

1. `ProcessTree`: exit, reparenting and wait. Every process that is not reaped has a
   live parent; a status is returned once; a zombie with a waiting parent is reaped
   in the end.
2. `TlbFlush`: dispatch, inter-processor calls, waiting; composed with `Rcu` by
   reference to its grace periods. No frame is reused while a CPU may have it in its
   TLB; two CPUs that flush each other both finish.
3. `Timer` and `Semaphore`: cancellation against expiry; an operation is applied
   exactly if it is reported.
4. `PageTable`: descent without locks, stray nodes. Two cursors never have
   overlapping ranges, and none works in a stray subtree.
5. `PageCache`, `Pipe`, `WorkQueue`, file locks.

Compositions: `Futex` and `Semaphore` on the wait queue's waker; `TlbFlush` with
`Rcu`. `RwMutex` on `WaitQueue` and `Epoll` on `Pollee` are such already.

Proofs, after that: the process tree's parent invariant. Instances that only repeat what
a proof shows give way to runs of new modules: the safety of the three locks, of the
scheduler, of the futexes and of epoll is proved already.
