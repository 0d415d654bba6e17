------------------------------- MODULE Epoll -------------------------------
(***************************************************************************)
(* An EpollFile (kernel/core/src/events/epoll) with its interest list and  *)
(* ready list, the files it watches, their Pollees and its own, and the    *)
(* SyncSubjects (events/subject.rs) through which a file's Pollee notifies *)
(* the entries and the epoll file's Pollee the waiting threads.            *)
(*                                                                         *)
(* Drivers produce and consume a file's one kind of event, controllers     *)
(* call epoll_ctl, and waiters call epoll_wait.  Each lock is a variable   *)
(* where it is held for more than one step.                                *)
(***************************************************************************)
EXTENDS Sequences, Pollee

CONSTANTS
  Files, Entries, Drivers, Controllers, Waiters,
  Self,       \* the epoll file's own pollee
  MaxEvents,  \* of one wait call
  Bounds      \* the instances: the waiters, entries and modes that are used, and
              \* how often the files change and control is called

Modes == {"level", "edge", "oneshot"}

ASSUME EpollAssumption ==
  /\ Tasks = Drivers \cup Controllers \cup Waiters
  /\ Drivers \cap Controllers = {} /\ Controllers \cap Waiters = {} /\ Waiters \cap Drivers = {}
  /\ Pollees = Files \cup {Self} /\ Self \notin Files
  /\ None \notin Tasks \cup Entries \cup Pollees /\ None \notin Nat
  /\ \A t \in Tasks : t \notin IoEvents \cup {INV_STATE}
  /\ MaxEvents \in Nat \ {0}
  /\ \A b \in Bounds : /\ b.waiters \subseteq Waiters /\ b.entries \subseteq Entries /\ b.modes \subseteq Modes
                       /\ b.changes \in Nat /\ b.controls \in Nat

VARIABLES
  ready,      \* whether a file has events
  open,       \* the files that are not closed
  subject,    \* who holds the lock of a file's SyncSubject while notifying
  observers,  \* the entries in a file's SyncSubject
  todo,       \* the observers that a driver has yet to notify
  file,       \* the file of each entry, once it is added
  interest,   \* EpollFile::interest
  interestLock,
  mode,       \* the flags in the entry's Inner
  inner,      \* who holds the lock of the Inner
  enabled,    \* Observer::is_enabled
  isReady,    \* Observer::is_ready
  entries,    \* ReadySet::entries
  entriesLock,
  popGuard,   \* ReadySet::pop_guard
  at,         \* the entry that the task works on and, unless a driver, owns
  limit,      \* ReadySetPopIter::limit
  got,        \* the number of ep_events
  pollers,    \* the waiters whose Poller is registered in Self's subject
  woken,      \* the waiters whose Poller's waker has been woken
  bound,      \* the instance
  changes, controls,   \* counted against its bounds
  owed        \* the entries whose file has had an event that no wait has found

fileVars == <<ready, open, subject, observers, todo, changes>>
entryVars == <<file, interest, interestLock, mode, inner, enabled, controls>>
readyVars == <<isReady, entries, entriesLock>>
waitVars == <<popGuard, limit, got, pollers, woken>>
vars == <<pc, polleeVars, fileVars, entryVars, readyVars, waitVars, at, owed, bound>>

Init ==
  /\ PolleeInit
  /\ pc = [t \in Tasks |-> "idle"]
  /\ ready = [f \in Files |-> FALSE] /\ open = Files
  /\ subject = [f \in Files |-> None] /\ observers = [f \in Files |-> {}]
  /\ todo = [d \in Drivers |-> {}]
  /\ file = [e \in Entries |-> None] /\ interest = {} /\ interestLock = None
  /\ mode = [e \in Entries |-> "level"] /\ inner = [e \in Entries |-> None]
  /\ enabled = [e \in Entries |-> FALSE] /\ isReady = [e \in Entries |-> FALSE]
  /\ entries = <<>> /\ entriesLock = None /\ popGuard = None
  /\ at = [t \in Tasks |-> None]
  /\ limit = [w \in Waiters |-> None] /\ got = [w \in Waiters |-> 0]
  /\ pollers = {} /\ woken = {}
  /\ bound \in Bounds /\ changes = 0 /\ controls = 0 /\ owed = {}

Of(f) == {e \in Entries : file[e] = f}
HasEvents(p) == IF p = Self THEN entries # <<>> ELSE ready[p]
Events(p) == IF HasEvents(p) THEN "ready" ELSE "none"

\* Weak::upgrade of an entry succeeds.
Alive(e) == e \in interest \/ \E t \in Controllers \cup Waiters : at[t] = e

-----------------------------------------------------------------------------
(* poll_with, for a file or for the epoll file (check_io_events) *)

\* A wait reads the events of its entry, from the cache or from the file: the
\* entry is owed those that are raised from now on.
Finds(t) == t \in Waiters /\ pc[t] # "cache" /\ events'[t] = "ready"

poll(t) ==
  /\ \/ pollLoad(t) \/ pollSwap(t) \/ pollCache(t)
     \/ /\ polling[t] = Self => entriesLock = None
        /\ pollCheck(t, Events(polling[t]))
  /\ owed' = IF Finds(t) THEN owed \ {at[t]} ELSE owed
  /\ UNCHANGED <<fileVars, entryVars, readyVars, waitVars, at>>

-----------------------------------------------------------------------------
(* ReadySet::push *)

\* push returns to the driver's, the controller's or the waiter's call.
Pushed(t) ==
  /\ at' = [at EXCEPT ![t] = None]
  /\ Goto(t, CASE t \in Drivers -> "each" [] t \in Controllers -> "idle" [] t \in Waiters -> "next")

push(t) ==
  /\ pc[t] = "push"
  /\ IF enabled[at[t]] THEN Goto(t, "pushLock") /\ UNCHANGED at ELSE Pushed(t)
  /\ UNCHANGED <<polleeVars, fileVars, entryVars, readyVars, waitVars, owed>>

\* Mutant: push does not look at is_ready.
pushAgain(t) ==
  /\ pc[t] = "pushLock" /\ entriesLock = None
  /\ entriesLock' = t
  /\ isReady' = [isReady EXCEPT ![at[t]] = TRUE]
  /\ entries' = Append(entries, at[t])
  /\ Goto(t, "pushInvalidate")
  /\ UNCHANGED <<polleeVars, fileVars, entryVars, waitVars, at, owed>>

pushLock(t) ==
  LET e == at[t]
  IN /\ pc[t] = "pushLock" /\ entriesLock = None
     /\ entriesLock' = t
     /\ isReady' = [isReady EXCEPT ![e] = TRUE]
     /\ entries' = IF isReady[e] THEN entries ELSE Append(entries, e)
     /\ Goto(t, "pushInvalidate")
     /\ UNCHANGED <<polleeVars, fileVars, entryVars, waitVars, at, owed>>

\* The two halves of pollee.notify.
pushInvalidate(t) ==
  /\ pc[t] = "pushInvalidate"
  /\ invalidate(Self)
  /\ Goto(t, "pushNotify")
  /\ UNCHANGED <<polling, events, fileVars, entryVars, readyVars, waitVars, at, owed>>

pushNotify(t) ==
  /\ pc[t] = "pushNotify"
  /\ woken' = woken \cup pollers
  /\ entriesLock' = None
  /\ Pushed(t)
  /\ UNCHANGED <<polleeVars, fileVars, entryVars, isReady, entries, popGuard, limit, got, pollers,
                 owed>>

-----------------------------------------------------------------------------
(* A driver changes a file's events, then calls Pollee::notify or ::invalidate *)

change(d, f) ==
  /\ pc[d] = "idle" /\ f \in open /\ changes < bound.changes
  /\ changes' = changes + 1
  /\ polling' = [polling EXCEPT ![d] = f]

produce(d, f) ==
  /\ change(d, f)
  /\ ready' = [ready EXCEPT ![f] = TRUE]
  /\ owed' = owed \cup Of(f)
  /\ Goto(d, "notify")
  /\ UNCHANGED <<cache, events, open, subject, observers, todo, entryVars, readyVars, waitVars, at>>

consume(d, f) ==
  /\ ready[f]
  /\ change(d, f)
  /\ ready' = [ready EXCEPT ![f] = FALSE]
  /\ owed' = owed \ Of(f)
  /\ Goto(d, "invalidate")
  /\ UNCHANGED <<cache, events, open, subject, observers, todo, entryVars, readyVars, waitVars, at>>

\* Mutant: notify leaves the cached events as they are.
notifyCached(d) ==
  /\ pc[d] = "notify"
  /\ Goto(d, "notifyObservers")
  /\ UNCHANGED <<polleeVars, fileVars, entryVars, readyVars, waitVars, at, owed>>

notify(d) ==
  /\ pc[d] = "notify"
  /\ invalidate(polling[d])
  /\ Goto(d, "notifyObservers")
  /\ UNCHANGED <<polling, events, fileVars, entryVars, readyVars, waitVars, at, owed>>

invalidateOnly(d) ==
  /\ pc[d] = "invalidate"
  /\ invalidate(polling[d])
  /\ polling' = [polling EXCEPT ![d] = None]
  /\ Goto(d, "idle")
  /\ UNCHANGED <<events, fileVars, entryVars, readyVars, waitVars, at, owed>>

\* SyncSubject::notify_observers; on_events is called with the lock held.
notify_observers(d) ==
  LET f == polling[d]
  IN /\ pc[d] = "notifyObservers"
     /\ \/ /\ observers[f] = {}
           /\ polling' = [polling EXCEPT ![d] = None]
           /\ Goto(d, "idle")
           /\ UNCHANGED <<subject, todo>>
        \/ /\ observers[f] # {} /\ subject[f] = None
           /\ subject' = [subject EXCEPT ![f] = d]
           /\ todo' = [todo EXCEPT ![d] = observers[f]]
           /\ Goto(d, "each")
           /\ UNCHANGED polling
     /\ UNCHANGED <<cache, events, ready, open, observers, changes, entryVars, readyVars, waitVars, at,
                    owed>>

on_events(d) ==
  /\ pc[d] = "each"
  /\ \E e \in todo[d] :
       /\ at' = [at EXCEPT ![d] = e]
       /\ todo' = [todo EXCEPT ![d] = @ \ {e}]
  /\ Goto(d, "push")
  /\ UNCHANGED <<polleeVars, ready, open, subject, observers, changes, entryVars, readyVars, waitVars,
                 owed>>

notified(d) ==
  /\ pc[d] = "each" /\ todo[d] = {}
  /\ subject' = [subject EXCEPT ![polling[d]] = None]
  /\ polling' = [polling EXCEPT ![d] = None]
  /\ Goto(d, "idle")
  /\ UNCHANGED <<cache, events, ready, open, observers, todo, changes, entryVars, readyVars, waitVars,
                 at, owed>>

\* Who holds a reference to a file, beside its user.
Holds(t, f) == polling[t] = f \/ (t \in Controllers /\ at[t] # None /\ file[at[t]] = f)

\* The last reference to a file is dropped, and its pollee with it.
close(f) ==
  /\ f \in open /\ changes < bound.changes
  /\ \A t \in Tasks : ~Holds(t, f)
  /\ open' = open \ {f}
  /\ ready' = [ready EXCEPT ![f] = FALSE]
  /\ cache' = [cache EXCEPT ![f] = INV_STATE]
  /\ observers' = [observers EXCEPT ![f] = {}]
  /\ changes' = changes + 1
  /\ owed' = owed \ Of(f)
  /\ UNCHANGED <<pc, polling, events, subject, todo, entryVars, readyVars, waitVars, at>>

-----------------------------------------------------------------------------
(* EpollFile::control *)

control(c, e, step) ==
  /\ pc[c] = "idle" /\ interestLock = None /\ controls < bound.controls
  /\ interestLock' = c
  /\ controls' = controls + 1
  /\ at' = [at EXCEPT ![c] = e]
  /\ Goto(c, step)
  /\ UNCHANGED <<polleeVars, fileVars, mode, inner, enabled, readyVars, waitVars, owed>>

\* A new entry; which one does not matter.
Unused == {e \in bound.entries : file[e] = None}

add_interest(c, f) ==
  LET e == CHOOSE x \in Unused : TRUE
  IN /\ Unused # {} /\ f \in open
     /\ control(c, e, "update")
     /\ file' = [file EXCEPT ![e] = f]
     /\ UNCHANGED interest

mod_interest(c, e) ==
  /\ e \in interest /\ file[e] \in open
  /\ control(c, e, "update")
  /\ UNCHANGED <<file, interest>>

del_interest(c, e) ==
  /\ e \in interest /\ file[e] \in open
  /\ control(c, e, "shutdown")
  /\ interest' = interest \ {e}
  /\ UNCHANGED file

\* Entry::update: the flags, then the poll of the file with the entry's poller.
update(c, m) ==
  LET e == at[c]
  IN /\ pc[c] = "update" /\ inner[e] = None
     /\ inner' = [inner EXCEPT ![e] = c]
     /\ mode' = [mode EXCEPT ![e] = m]
     /\ enabled' = [enabled EXCEPT ![e] = TRUE]
     /\ owed' = IF ready[file[e]] THEN owed \cup {e} ELSE owed
     /\ Goto(c, "registerEntry")
     /\ UNCHANGED <<polleeVars, fileVars, file, interest, interestLock, controls, readyVars, waitVars,
                    at>>

register_poller(c) ==
  LET f == file[at[c]]
  IN /\ pc[c] = "registerEntry" /\ subject[f] = None
     /\ observers' = [observers EXCEPT ![f] = @ \cup {at[c]}]
     /\ poll_with(c, f)
     /\ UNCHANGED <<cache, events, ready, open, subject, todo, changes, entryVars, readyVars, waitVars,
                    at, owed>>

\* The end of update and of the block with the interest list.
updated(c) ==
  /\ pc[c] = "polled"
  /\ inner' = [inner EXCEPT ![at[c]] = None]
  /\ interest' = interest \cup {at[c]}
  /\ interestLock' = None
  /\ Return(c)
  /\ IF events[c] = "ready" THEN Goto(c, "push") /\ UNCHANGED at
     ELSE Goto(c, "idle") /\ at' = [at EXCEPT ![c] = None]
  /\ UNCHANGED <<cache, fileVars, file, mode, enabled, controls, readyVars, waitVars, owed>>

\* Entry::shutdown, when the interest list drops the entry.
shutdown(c) ==
  LET e == at[c]
  IN /\ pc[c] = "shutdown" /\ inner[e] = None
     /\ inner' = [inner EXCEPT ![e] = c]
     /\ enabled' = [enabled EXCEPT ![e] = FALSE]
     /\ Goto(c, "unregister")
     /\ UNCHANGED <<polleeVars, fileVars, file, interest, interestLock, mode, controls, readyVars,
                    waitVars, at, owed>>

unregister(c) ==
  LET f == file[at[c]]
  IN /\ pc[c] = "unregister" /\ subject[f] = None
     /\ observers' = [observers EXCEPT ![f] = @ \ {at[c]}]
     /\ inner' = [inner EXCEPT ![at[c]] = None]
     /\ interestLock' = None
     /\ at' = [at EXCEPT ![c] = None]
     /\ Goto(c, "idle")
     /\ UNCHANGED <<polleeVars, ready, open, subject, todo, changes, file, interest, mode, enabled,
                    controls, readyVars, waitVars, owed>>

-----------------------------------------------------------------------------
(* EpollFile::wait *)

wait(w) ==
  /\ pc[w] = "idle" /\ w \in bound.waiters
  /\ Goto(w, "next")
  /\ UNCHANGED <<polleeVars, fileVars, entryVars, readyVars, waitVars, at, owed>>

\* wait_events returns, and its Poller is dropped.
Leave(w) ==
  /\ Goto(w, "idle")
  /\ pollers' = pollers \ {w} /\ woken' = woken \ {w}
  /\ got' = [got EXCEPT ![w] = 0]

\* The end of pop_multi_ready, and what wait_events does next.
Popped(w) ==
  /\ popGuard' = None
  /\ limit' = [limit EXCEPT ![w] = None]
  /\ entriesLock' = IF entriesLock = w THEN None ELSE entriesLock
  /\ IF got[w] > 0 THEN Leave(w)
     ELSE /\ Goto(w, IF w \in pollers THEN "sleep" ELSE "register")
          /\ UNCHANGED <<pollers, woken, got>>

\* max_events is reached, or the entries that were there at first are done.
finishPop(w) ==
  /\ pc[w] = "next"
  /\ got[w] >= MaxEvents \/ limit[w] = 0
  /\ Popped(w)
  /\ UNCHANGED <<polleeVars, fileVars, entryVars, isReady, entries, at, owed>>

\* ReadySetPopIter::next, with lock_pop the first time: an entry that was
\* deleted is skipped.
popNext(w) ==
  LET left == IF limit[w] = None THEN Len(entries) ELSE limit[w]
      e == Head(entries)
  IN /\ pc[w] = "next" /\ got[w] < MaxEvents /\ limit[w] # 0
     /\ popGuard \in {None, w} /\ entriesLock \in {None, w}
     /\ \/ /\ left = 0
           /\ Popped(w)
           /\ UNCHANGED <<cache, entries, isReady, at>>
        \/ /\ left > 0
           /\ entries' = Tail(entries)
           /\ IF Tail(entries) = <<>> THEN invalidate(Self) ELSE UNCHANGED cache
           /\ limit' = [limit EXCEPT ![w] = left - 1]
           /\ IF Alive(e)
              THEN /\ isReady' = [isReady EXCEPT ![e] = FALSE]
                   /\ at' = [at EXCEPT ![w] = e]
                   /\ entriesLock' = None
                   /\ Goto(w, "poll")
              ELSE entriesLock' = w /\ UNCHANGED <<isReady, at, pc>>
           /\ popGuard' = w
           /\ UNCHANGED <<pollers, woken, got>>
     /\ UNCHANGED <<polling, events, fileVars, entryVars, owed>>

\* The entry at hand is done with; the loop of pop_multi_ready goes on.
Continue(w) == Goto(w, "next") /\ at' = [at EXCEPT ![w] = None]

\* Entry::poll, up to the poll of the file.
entryPoll(w) ==
  LET e == at[w]
  IN /\ pc[w] = "poll" /\ file[e] \in open /\ inner[e] = None
     /\ IF enabled[e]
        THEN inner' = [inner EXCEPT ![e] = w] /\ poll_with(w, file[e]) /\ UNCHANGED at
        ELSE Continue(w) /\ UNCHANGED <<inner, polling>>
     /\ UNCHANGED <<cache, events, fileVars, file, interest, interestLock, mode, enabled, controls,
                    readyVars, waitVars, owed>>

\* The file is dead: pop_multi_ready deletes the entry, which is shut down.
deleteDead(w) ==
  LET e == at[w]
  IN /\ pc[w] = "poll" /\ file[e] \notin open
     /\ interestLock = None /\ inner[e] = None
     /\ interest' = interest \ {e}
     /\ enabled' = [enabled EXCEPT ![e] = FALSE]
     /\ Continue(w)
     /\ UNCHANGED <<polleeVars, fileVars, file, interestLock, mode, inner, controls, readyVars,
                    waitVars, owed>>

\* Mutant: no entry is kept in the ready list.
entryPolledOnce(w) ==
  LET e == at[w]
      found == events[w] = "ready"
  IN /\ pc[w] = "polled" /\ polling[w] # Self
     /\ Return(w)
     /\ inner' = [inner EXCEPT ![e] = None]
     /\ enabled' = [enabled EXCEPT ![e] = @ /\ ~(found /\ mode[e] = "oneshot")]
     /\ got' = [got EXCEPT ![w] = IF found THEN @ + 1 ELSE @]
     /\ Continue(w)
     /\ UNCHANGED <<cache, fileVars, file, interest, interestLock, mode, controls, readyVars,
                    popGuard, limit, pollers, woken, owed>>

\* The rest of Entry::poll, and the push of an entry that is still ready.
entryPolled(w) ==
  LET e == at[w]
      found == events[w] = "ready"
  IN /\ pc[w] = "polled" /\ polling[w] # Self
     /\ Return(w)
     /\ inner' = [inner EXCEPT ![e] = None]
     /\ enabled' = [enabled EXCEPT ![e] = @ /\ ~(found /\ mode[e] = "oneshot")]
     /\ got' = [got EXCEPT ![w] = IF found THEN @ + 1 ELSE @]
     /\ IF found /\ mode[e] = "level" THEN Goto(w, "push") /\ UNCHANGED at ELSE Continue(w)
     /\ UNCHANGED <<cache, fileVars, file, interest, interestLock, mode, controls, readyVars,
                    popGuard, limit, pollers, woken, owed>>

\* After the fast path: a new Poller, registered with the epoll file.
registerWaiter(w) ==
  /\ pc[w] = "register"
  /\ pollers' = pollers \cup {w}
  /\ poll_with(w, Self)
  /\ UNCHANGED <<cache, events, fileVars, entryVars, readyVars, popGuard, limit, got, woken, at, owed>>

\* Mutant: the waiter sleeps whatever the poll has found.
selfPolledBlind(w) ==
  /\ pc[w] = "polled" /\ polling[w] = Self
  /\ Return(w)
  /\ Goto(w, "sleep")
  /\ UNCHANGED <<cache, fileVars, entryVars, readyVars, waitVars, at, owed>>

selfPolled(w) ==
  /\ pc[w] = "polled" /\ polling[w] = Self
  /\ Return(w)
  /\ Goto(w, IF events[w] = "ready" THEN "next" ELSE "sleep")
  /\ UNCHANGED <<cache, fileVars, entryVars, readyVars, waitVars, at, owed>>

\* Poller::wait returns when the waker has been woken, before or after.
wake(w) ==
  /\ pc[w] = "sleep" /\ w \in woken
  /\ woken' = woken \ {w}
  /\ Goto(w, "next")
  /\ UNCHANGED <<polleeVars, fileVars, entryVars, readyVars, popGuard, limit, got, pollers, at, owed>>

\* A zero timeout after the fast path, and a timeout or signal while asleep.
giveUp(w) ==
  /\ pc[w] \in {"register", "sleep"}
  /\ Leave(w)
  /\ UNCHANGED <<polleeVars, fileVars, entryVars, readyVars, popGuard, limit, at, owed>>

-----------------------------------------------------------------------------

\* What begins a call, and what the outside does.
Begin ==
  \/ \E d \in Drivers, f \in Files : produce(d, f) \/ consume(d, f)
  \/ \E f \in Files : close(f)
  \/ \E c \in Controllers :
       \/ \E f \in Files : add_interest(c, f)
       \/ \E e \in Entries : mod_interest(c, e) \/ del_interest(c, e)
  \/ \E w \in Waiters : wait(w) \/ giveUp(w)

\* The steps within a call.
Step(t) ==
  /\ \/ poll(t) \/ push(t) \/ pushLock(t) \/ pushInvalidate(t) \/ pushNotify(t)
     \/ /\ t \in Drivers
        /\ notify(t) \/ invalidateOnly(t) \/ notify_observers(t) \/ on_events(t) \/ notified(t)
     \/ /\ t \in Controllers
        /\ \/ \E m \in bound.modes : update(t, m)
           \/ register_poller(t) \/ updated(t) \/ shutdown(t) \/ unregister(t)
     \/ /\ t \in Waiters
        /\ \/ finishPop(t) \/ popNext(t) \/ entryPoll(t) \/ deleteDead(t)
           \/ entryPolled(t) \/ registerWaiter(t) \/ selfPolled(t) \/ wake(t)
  /\ UNCHANGED bound

Next == (Begin /\ UNCHANGED bound) \/ \E t \in Tasks : Step(t)

Spec == Init /\ [][Next]_vars

\* While a begun call can go on, one does: less than the scheduler promises,
\* which runs every runnable thread.
FairSpec == Spec /\ WF_vars(\E t \in Tasks : Step(t))

-----------------------------------------------------------------------------
(* Properties *)

\* The types; only registered pollers have been woken.
TypeOK ==
  /\ PolleeTypeOK
  /\ ready \in [Files -> BOOLEAN] /\ open \subseteq Files
  /\ subject \in [Files -> Drivers \cup {None}]
  /\ observers \in [Files -> SUBSET Entries] /\ todo \in [Drivers -> SUBSET Entries]
  /\ file \in [Entries -> Files \cup {None}] /\ interest \subseteq Entries
  /\ interestLock \in Controllers \cup {None} /\ popGuard \in Waiters \cup {None}
  /\ mode \in [Entries -> Modes] /\ inner \in [Entries -> Tasks \cup {None}]
  /\ enabled \in [Entries -> BOOLEAN] /\ isReady \in [Entries -> BOOLEAN]
  /\ entries \in Seq(Entries) /\ entriesLock \in Tasks \cup {None}
  /\ at \in [Tasks -> Entries \cup {None}]
  /\ limit \in [Waiters -> Nat \cup {None}] /\ got \in [Waiters -> Nat]
  /\ pollers \subseteq Waiters /\ woken \subseteq pollers
  /\ bound \in Bounds /\ changes \in 0 .. bound.changes /\ controls \in 0 .. bound.controls

\* The task has changed the events of p and has yet to invalidate the cache.
Invalidating(p, t) ==
  IF p = Self THEN pc[t] = "pushInvalidate" ELSE pc[t] \in {"notify", "invalidate"} /\ polling[t] = p

\* Events that a Pollee has cached are those that its object has now, unless
\* whoever changed them is about to invalidate the cache: poll_with stores what
\* it checked only if nothing happened in between, whichever tasks are checking
\* at the same time.
CacheIsFresh ==
  \A p \in Pollees :
    cache[p] \in IoEvents => cache[p] = Events(p) \/ \E t \in Tasks : Invalidating(p, t)

\* Somebody is about to push or to poll the entry.
Busy(t, e) == at[t] = e \/ (t \in Drivers /\ polling[t] = file[e])

\* An event of a watched file that no wait has found is never forgotten, also
\* if it is raised while a wait is about to return an earlier one: once nobody
\* is at work on the entry, an entry that is enabled is in the ready list.
\* push, which looks at is_enabled without the lock, may race with update, with
\* a one-shot entry's disabling and with the iterator.
NoLostEvent ==
  \A e \in owed \cap interest :
    enabled[e] /\ (\A t \in Tasks : ~Busy(t, e)) => \E i \in DOMAIN entries : entries[i] = e

\* is_ready tells exactly whether an entry is in the ready list, for as long as
\* the entry lives, and no entry is there twice, deleted ones included: push
\* and the iterator keep the two in step.  The iterator's limit never exceeds
\* what is left of the list, so that the entry that next unwraps exists.
ReadyListExact ==
  /\ TypeOK
  /\ \A i, j \in DOMAIN entries : entries[i] = entries[j] => i = j
  /\ \A e \in Entries : Alive(e) => (isReady[e] <=> \E i \in DOMAIN entries : entries[i] = e)
  /\ \A w \in Waiters : limit[w] # None => limit[w] <= Len(entries)

\* A thread that sleeps in wait while the ready list has entries has been woken,
\* or is about to be by the push under way: looking at the list, registering
\* the poller and polling the epoll file leave no gap, cached events or not.
SleepersAreTold ==
  \A w \in Waiters :
    pc[w] = "sleep" /\ entries # <<>> =>
      w \in woken \/ \E t \in Tasks : pc[t] \in {"pushInvalidate", "pushNotify"}

Deliverable == \E e \in interest : enabled[e] /\ mode[e] = "level" /\ file[e] \in open /\ ready[file[e]]
AllWait == \A w \in bound.waiters : pc[w] # "idle"

\* While a watched file with a level-triggered entry has events, its waiters do
\* not all stay in wait for ever: one of them returns, or the events go away.
SomeoneReturns == []<>~(Deliverable /\ AllWait)
=============================================================================
