---------------------------- MODULE EpollProofs -----------------------------
(***************************************************************************)
(* The cached events of every Pollee are fresh and the ready list of an    *)
(* EpollFile is exact, for every set of files, entries and tasks.  First   *)
(* the inductive invariant and the types, then what every step keeps of    *)
(* the invariant, then the theorems.                                       *)
(***************************************************************************)
EXTENDS Epoll, TLAPS

Polling == {"load", "swap", "check", "checkOnly", "cache", "polled"}

\* What a task works on, by the step it is at.
LocatedAt(t) ==
  /\ pc[t] \in {"push", "pushLock", "poll", "update", "registerEntry", "shutdown", "unregister"} =>
       at[t] \in Entries
  /\ pc[t] \in Polling =>
       /\ polling[t] \in Pollees
       /\ polling[t] = Self => t \in Waiters
       /\ polling[t] # Self => at[t] \in Entries
  /\ pc[t] \in {"notify", "invalidate", "notifyObservers"} => polling[t] \in Files

Located == pc = [u \in Tasks |-> pc[u]] /\ \A t \in Tasks : LocatedAt(t)

\* An entry that add_interest has not made yet is nowhere.
Unmade ==
  \A e \in Entries : file[e] = None =>
    /\ e \notin interest /\ ~isReady[e]
    /\ \A t \in Tasks : at[t] # e
    /\ \A f \in Files : e \notin observers[f]
    /\ \A d \in Drivers : e \notin todo[d]

\* What pop_guard protects: the iterator's limit and the events found so far.
PoppingAt(w) ==
  /\ limit[w] # None \/ got[w] > 0 => popGuard = w
  /\ limit[w] # None => limit[w] <= Len(entries)
  /\ pc[w] = "poll" \/ (pc[w] \in Polling /\ polling[w] # Self) => limit[w] # None

Popping == \A w \in Waiters : PoppingAt(w)

\* The ready list with the flags of its entries, the dead ones included.
ListExact ==
  /\ \A i, j \in DOMAIN entries : entries[i] = entries[j] => i = j
  /\ \A i \in DOMAIN entries : isReady[entries[i]]
  /\ \A e \in Entries : Alive(e) /\ isReady[e] => \E i \in DOMAIN entries : entries[i] = e

\* The cached events of p are fresh, and so are those about to be cached.
FreshAt(p) ==
  /\ cache[p] \in IoEvents => cache[p] = Events(p) \/ \E u \in Tasks : Invalidating(p, u)
  /\ \A t \in Tasks : pc[t] = "cache" /\ polling[t] = p /\ cache[p] = t =>
       events[t] = Events(p) \/ \E u \in Tasks : Invalidating(p, u)

Shape == TypeOK /\ Located /\ Unmade /\ Popping
IInv == Shape /\ ListExact /\ \A p \in Pollees : FreshAt(p)

\* A step of one task t, to the step s: the others are where they were.
Moves(t, s) ==
  /\ pc' = [pc EXCEPT ![t] = s]
  /\ \A u \in Tasks \ {t} : at'[u] = at[u] /\ polling'[u] = polling[u] /\ events'[u] = events[u]

\* TypeOK by the groups of variables that the actions leave unchanged together.
FileTyped ==
  /\ ready \in [Files -> BOOLEAN] /\ open \subseteq Files
  /\ subject \in [Files -> Drivers \cup {None}]
  /\ observers \in [Files -> SUBSET Entries] /\ todo \in [Drivers -> SUBSET Entries]
  /\ changes \in 0 .. bound.changes

EntryTyped ==
  /\ file \in [Entries -> Files \cup {None}] /\ interest \subseteq Entries
  /\ interestLock \in Controllers \cup {None}
  /\ mode \in [Entries -> Modes] /\ inner \in [Entries -> Tasks \cup {None}]
  /\ enabled \in [Entries -> BOOLEAN]
  /\ controls \in 0 .. bound.controls

ReadyTyped ==
  /\ isReady \in [Entries -> BOOLEAN]
  /\ entries \in Seq(Entries) /\ entriesLock \in Tasks \cup {None}

WaitTyped ==
  /\ popGuard \in Waiters \cup {None}
  /\ limit \in [Waiters -> Nat \cup {None}] /\ got \in [Waiters -> Nat]
  /\ pollers \subseteq Waiters /\ woken \subseteq pollers

AtTyped == at \in [Tasks -> Entries \cup {None}]

Typed == PolleeTypeOK /\ FileTyped /\ EntryTyped /\ ReadyTyped /\ WaitTyped /\ AtTyped

\* The types that a step keeps because it leaves the variables alone.
Kept ==
  /\ UNCHANGED polleeVars => PolleeTypeOK'
  /\ UNCHANGED fileVars => FileTyped'
  /\ UNCHANGED entryVars => EntryTyped'
  /\ UNCHANGED readyVars => ReadyTyped'
  /\ UNCHANGED waitVars => WaitTyped'
  /\ UNCHANGED at => AtTyped'

-----------------------------------------------------------------------------

\* Most leaves are plain first-order reasoning, which Zenon is best at; the
\* others name SMT.
USE Zenon

\* The tasks, the pollees and what they are not.
LEMMA Constants ==
  /\ Tasks = Drivers \cup Controllers \cup Waiters
  /\ Drivers \cap Controllers = {} /\ Controllers \cap Waiters = {} /\ Waiters \cap Drivers = {}
  /\ Pollees = Files \cup {Self} /\ Self \notin Files
  /\ None \notin Tasks /\ None \notin Entries /\ None \notin Pollees /\ None \notin Nat
BY EpollAssumption

\* The bounds of an instance.
LEMMA BoundTyped ==
  ASSUME bound \in Bounds
  PROVE  /\ bound.modes \subseteq Modes /\ bound.entries \subseteq Entries
         /\ bound.changes \in Nat /\ bound.controls \in Nat
BY EpollAssumption

-----------------------------------------------------------------------------

\* A group of variables that a step leaves alone keeps its types.
LEMMA GroupsKept == ASSUME Typed, UNCHANGED bound PROVE Kept
<1>1. UNCHANGED polleeVars => PolleeTypeOK'
  BY DEF Typed, PolleeTypeOK, polleeVars
<1>2. UNCHANGED fileVars => FileTyped'
  BY DEF Typed, FileTyped, fileVars
<1>3. UNCHANGED entryVars => EntryTyped'
  BY DEF Typed, EntryTyped, entryVars
<1>4. UNCHANGED readyVars => ReadyTyped'
  BY DEF Typed, ReadyTyped, readyVars
<1>5. UNCHANGED waitVars => WaitTyped'
  BY DEF Typed, WaitTyped, waitVars
<1>6. UNCHANGED at => AtTyped'
  BY DEF Typed, AtTyped
<1> QED BY <1>1, <1>2, <1>3, <1>4, <1>5, <1>6 DEF Kept

\* The end of a pop keeps the types of what it changes.
LEMMA PoppedTyped ==
  ASSUME NEW w \in Waiters, WaitTyped, ReadyTyped, Popped(w)
  PROVE  WaitTyped' /\ entriesLock' \in Tasks \cup {None}
<1>1. /\ popGuard' = None
      /\ limit' = [limit EXCEPT ![w] = None]
      /\ entriesLock' \in Tasks \cup {None}
  BY DEF Popped, ReadyTyped
<1>2. /\ got' \in [Waiters -> Nat]
      /\ pollers' \subseteq Waiters /\ woken' \subseteq pollers'
  <2>1. CASE Leave(w)
    BY <2>1 DEF Leave, WaitTyped
  <2>2. CASE UNCHANGED <<pollers, woken, got>>
    BY <2>2 DEF WaitTyped
  <2> QED BY <2>1, <2>2 DEF Popped
<1>3. limit' \in [Waiters -> Nat \cup {None}]
  BY <1>1 DEF WaitTyped
<1> QED BY <1>1, <1>2, <1>3 DEF WaitTyped

\* Pollee::poll_with keeps the types.
LEMMA PollTypes ==
  ASSUME Shape, Typed, Kept, bound \in Bounds, UNCHANGED bound,
         NEW t \in Tasks,
         poll(t)
  PROVE  Typed'
<1>1. PolleeTypeOK'
  <2>1. CASE pollLoad(t)
    <3>1. CASE cache[polling[t]] \in IoEvents
      <4>1. events' = [events EXCEPT ![t] = cache[polling[t]]] /\ UNCHANGED <<polling, cache>>
        BY <2>1, <3>1 DEF pollLoad
      <4> QED BY <3>1, <4>1 DEF Typed, PolleeTypeOK
    <3>2. CASE cache[polling[t]] \notin IoEvents
      BY <2>1, <3>2 DEF pollLoad, Typed, PolleeTypeOK
    <3> QED BY <3>1, <3>2
  <2>2. CASE pollSwap(t)
    BY <2>2 DEF pollSwap, Typed, PolleeTypeOK
  <2>3. CASE pollCache(t)
    BY <2>3 DEF pollCache, Typed, PolleeTypeOK
  <2>4. CASE pollCheck(t, Events(polling[t]))
    BY <2>4 DEF pollCheck, Events, IoEvents, Typed, PolleeTypeOK
  <2> QED BY <2>1, <2>2, <2>3, <2>4 DEF poll
<1> QED BY <1>1 DEF Kept, poll, Typed

\* ReadySet::push keeps the types.
LEMMA PushTypes ==
  ASSUME Shape, Typed, Kept, bound \in Bounds, UNCHANGED bound,
         NEW t \in Tasks,
         push(t) \/ pushLock(t) \/ pushInvalidate(t) \/ pushNotify(t)
  PROVE  Typed'
<1>1. CASE push(t)
  <2>1. AtTyped'
    <3>1. CASE enabled[at[t]]
      BY <1>1, <3>1 DEF push, Typed, AtTyped
    <3>2. CASE ~enabled[at[t]]
      BY <1>1, <3>2 DEF push, Pushed, Typed, AtTyped
    <3> QED BY <3>1, <3>2
  <2> QED BY <1>1, <2>1 DEF Kept, push, Typed
<1>2. CASE pushLock(t)
  <2>1. at[t] \in Entries
    BY <1>2 DEF pushLock, Shape, Located, LocatedAt
  <2>2. entries' \in Seq(Entries)
    <3>1. CASE isReady[at[t]]
      BY <1>2, <3>1 DEF pushLock, Typed, ReadyTyped
    <3>2. CASE ~isReady[at[t]]
      BY <1>2, <2>1, <3>2, SMT DEF pushLock, Typed, ReadyTyped
    <3> QED BY <3>1, <3>2
  <2>3. isReady' \in [Entries -> BOOLEAN] /\ entriesLock' \in Tasks \cup {None}
    BY <1>2 DEF pushLock, Typed, ReadyTyped
  <2>4. ReadyTyped'
    BY <2>2, <2>3 DEF ReadyTyped
  <2> QED BY <1>2, <2>4 DEF Kept, pushLock, Typed
<1>3. CASE pushInvalidate(t)
  <2>1. PolleeTypeOK'
    BY <1>3 DEF pushInvalidate, invalidate, Typed, PolleeTypeOK
  <2> QED BY <1>3, <2>1 DEF Kept, pushInvalidate, Typed
<1>4. CASE pushNotify(t)
  <2>1. ReadyTyped'
    BY <1>4 DEF pushNotify, Typed, ReadyTyped
  <2>2. WaitTyped'
    BY <1>4 DEF pushNotify, Typed, WaitTyped
  <2>3. AtTyped'
    BY <1>4 DEF pushNotify, Pushed, Typed, AtTyped
  <2> QED BY <1>4, <2>1, <2>2, <2>3 DEF Kept, pushNotify, Typed
<1> QED BY <1>1, <1>2, <1>3, <1>4

\* A change of a file's events keeps the types.
LEMMA ChangeTypes ==
  ASSUME Shape, Typed, Kept, bound \in Bounds, UNCHANGED bound,
         NEW d \in Drivers, NEW f \in Files,
         produce(d, f) \/ consume(d, f)
  PROVE  Typed'
<1>1. CASE produce(d, f)
  <2>1. PolleeTypeOK'
    BY <1>1, Constants DEF produce, change, Typed, PolleeTypeOK
  <2>2. FileTyped'
    BY <1>1, BoundTyped, SMT DEF produce, change, Typed, FileTyped
  <2> QED BY <1>1, <2>1, <2>2 DEF Kept, produce, change, Typed
<1>2. CASE consume(d, f)
  <2>1. PolleeTypeOK'
    BY <1>2, Constants DEF consume, change, Typed, PolleeTypeOK
  <2>2. FileTyped'
    BY <1>2, BoundTyped, SMT DEF consume, change, Typed, FileTyped
  <2> QED BY <1>2, <2>1, <2>2 DEF Kept, consume, change, Typed
<1> QED BY <1>1, <1>2

\* The drop of a file keeps the types.
LEMMA CloseTypes ==
  ASSUME Shape, Typed, Kept, bound \in Bounds, UNCHANGED bound,
         NEW f \in Files,
         close(f)
  PROVE  Typed'
<1>1. PolleeTypeOK'
  BY DEF close, Typed, PolleeTypeOK
<1>2. FileTyped'
  BY BoundTyped, SMT DEF close, Typed, FileTyped
<1> QED BY <1>1, <1>2 DEF Kept, close, Typed

\* Pollee::notify and Pollee::invalidate keep the types.
LEMMA NotifyTypes ==
  ASSUME Shape, Typed, Kept, bound \in Bounds, UNCHANGED bound,
         NEW d \in Drivers,
         notify(d) \/ invalidateOnly(d) \/ notify_observers(d) \/ on_events(d) \/ notified(d)
  PROVE  Typed'
<1>1. CASE notify(d)
  <2>1. PolleeTypeOK'
    BY <1>1 DEF notify, invalidate, Typed, PolleeTypeOK
  <2> QED BY <1>1, <2>1 DEF Kept, notify, Typed
<1>2. CASE invalidateOnly(d)
  <2>1. PolleeTypeOK'
    BY <1>2 DEF invalidateOnly, invalidate, Typed, PolleeTypeOK
  <2> QED BY <1>2, <2>1 DEF Kept, invalidateOnly, Typed
<1>3. CASE notify_observers(d)
  <2>1. PolleeTypeOK'
    BY <1>3 DEF notify_observers, Typed, PolleeTypeOK
  <2>2. FileTyped'
    <3>1. polling[d] \in Files
      BY <1>3, Constants DEF notify_observers, Shape, Located, LocatedAt
    <3>2. observers[polling[d]] \in SUBSET Entries
      BY <3>1 DEF Typed, FileTyped
    <3>3. UNCHANGED <<ready, open, observers, changes>>
      BY <1>3 DEF notify_observers
    <3>4. CASE UNCHANGED <<subject, todo>>
      BY <3>3, <3>4 DEF Typed, FileTyped
    <3>5. CASE /\ subject' = [subject EXCEPT ![polling[d]] = d]
               /\ todo' = [todo EXCEPT ![d] = observers[polling[d]]]
      BY <3>2, <3>3, <3>5 DEF Typed, FileTyped
    <3> QED BY <1>3, <3>4, <3>5 DEF notify_observers
  <2> QED BY <1>3, <2>1, <2>2 DEF Kept, notify_observers, Typed
<1>4. CASE on_events(d)
  <2>1. FileTyped'
    BY <1>4 DEF on_events, Typed, FileTyped
  <2>2. AtTyped'
    BY <1>4 DEF on_events, FileTyped, Typed, AtTyped
  <2> QED BY <1>4, <2>1, <2>2 DEF Kept, on_events, Typed
<1>5. CASE notified(d)
  <2>1. PolleeTypeOK'
    BY <1>5 DEF notified, Typed, PolleeTypeOK
  <2>2. FileTyped'
    BY <1>5 DEF notified, Typed, FileTyped
  <2> QED BY <1>5, <2>1, <2>2 DEF Kept, notified, Typed
<1> QED BY <1>1, <1>2, <1>3, <1>4, <1>5

\* The count of the calls of control stays within its bound.
LEMMA ControlCounted ==
  ASSUME Typed, bound \in Bounds, UNCHANGED bound, NEW c, NEW e, NEW step, control(c, e, step)
  PROVE  controls' \in 0 .. bound'.controls
<1>1. controls \in 0 .. bound.controls /\ bound.controls \in Nat
  BY BoundTyped DEF Typed, EntryTyped
<1>2. controls < bound.controls /\ controls' = controls + 1
  BY DEF control
<1> QED BY <1>1, <1>2, SMT

\* EpollFile::add_interest keeps the types.
LEMMA AddTypes ==
  ASSUME Shape, Typed, Kept, bound \in Bounds, UNCHANGED bound,
         NEW c \in Controllers, NEW f \in Files,
         add_interest(c, f)
  PROVE  Typed'
<1> DEFINE e == CHOOSE x \in Unused : TRUE
<1>1. e \in Entries
  BY BoundTyped DEF add_interest, Unused
<1>2. /\ file' = [file EXCEPT ![e] = f] /\ interest' = interest /\ control(c, e, "update")
  BY DEF add_interest
<1> HIDE DEF e
<1>3. file' \in [Entries -> Files \cup {None}]
  BY <1>2 DEF Typed, EntryTyped
<1>4. interestLock' = c /\ controls' \in 0 .. bound'.controls /\ UNCHANGED <<mode, inner, enabled>>
  <2>1. controls' \in 0 .. bound'.controls
    BY <1>2, ControlCounted
  <2> QED BY <1>2, <2>1 DEF control
<1>5. EntryTyped'
  BY <1>2, <1>3, <1>4 DEF Typed, EntryTyped
<1>6. AtTyped'
  BY <1>1, <1>2 DEF control, Typed, AtTyped
<1> QED BY <1>2, <1>5, <1>6 DEF Kept, control, Typed

\* EpollFile::mod_interest and del_interest keep the types.
LEMMA ControlTypes ==
  ASSUME Shape, Typed, Kept, bound \in Bounds, UNCHANGED bound,
         NEW c \in Controllers, NEW e \in Entries,
         mod_interest(c, e) \/ del_interest(c, e)
  PROVE  Typed'
<1>1. CASE mod_interest(c, e)
  <2>1. EntryTyped'
    <3>1. controls' \in 0 .. bound'.controls
      BY <1>1, ControlCounted DEF mod_interest
    <3>2. interestLock' = c /\ UNCHANGED <<file, interest, mode, inner, enabled>>
      BY <1>1 DEF mod_interest, control
    <3> QED BY <3>1, <3>2 DEF Typed, EntryTyped
  <2>2. AtTyped'
    BY <1>1 DEF mod_interest, control, Typed, AtTyped
  <2> QED BY <1>1, <2>1, <2>2 DEF Kept, mod_interest, control, Typed
<1>2. CASE del_interest(c, e)
  <2>1. EntryTyped'
    <3>1. controls' \in 0 .. bound'.controls
      BY <1>2, ControlCounted DEF del_interest
    <3>2. interestLock' = c /\ interest' = interest \ {e} /\ UNCHANGED <<file, mode, inner, enabled>>
      BY <1>2 DEF del_interest, control
    <3> QED BY <3>1, <3>2 DEF Typed, EntryTyped
  <2>2. AtTyped'
    BY <1>2 DEF del_interest, control, Typed, AtTyped
  <2> QED BY <1>2, <2>1, <2>2 DEF Kept, del_interest, control, Typed
<1> QED BY <1>1, <1>2

\* Entry::update keeps the types.
LEMMA UpdateTypes ==
  ASSUME Shape, Typed, Kept, bound \in Bounds, UNCHANGED bound,
         NEW c \in Controllers, NEW m \in bound.modes,
         update(c, m)
  PROVE  Typed'
<1>1. m \in Modes
  BY BoundTyped
<1>2. EntryTyped'
  BY <1>1, Constants DEF update, Typed, EntryTyped
<1> QED BY <1>2 DEF Kept, update, Typed

\* The rest of EpollFile::control keeps the types.
LEMMA UpdatedTypes ==
  ASSUME Shape, Typed, Kept, bound \in Bounds, UNCHANGED bound,
         NEW c \in Controllers,
         register_poller(c) \/ updated(c) \/ shutdown(c) \/ unregister(c)
  PROVE  Typed'
<1>1. CASE register_poller(c)
  <2>1. at[c] \in Entries
    BY <1>1, Constants DEF register_poller, Shape, Located, LocatedAt
  <2>2. file[at[c]] \in Files
    <3>1. at[c] # None
      BY <2>1, Constants
    <3>2. file[at[c]] # None
      BY <2>1, Constants DEF Shape, Unmade
    <3> QED BY <2>1, <3>2 DEF Typed, EntryTyped
  <2>3. PolleeTypeOK'
    BY <1>1, <2>2, Constants DEF register_poller, poll_with, Typed, PolleeTypeOK
  <2>4. FileTyped'
    BY <1>1, <2>1 DEF register_poller, Typed, FileTyped
  <2> QED BY <1>1, <2>3, <2>4 DEF Kept, register_poller, Typed
<1>2. CASE updated(c)
  <2>1. at[c] \in Entries
    <3>1. pc[c] = "polled" /\ c \in Tasks /\ c \notin Waiters
      BY <1>2, Constants DEF updated
    <3> QED BY <3>1 DEF Shape, Located, LocatedAt, Polling
  <2>2. AtTyped'
    <3>1. CASE UNCHANGED at
      BY <3>1 DEF Kept
    <3>2. CASE at' = [at EXCEPT ![c] = None]
      BY <3>2 DEF Typed, AtTyped
    <3> QED BY <1>2, <3>1, <3>2 DEF updated
  <2>3. PolleeTypeOK'
    BY <1>2 DEF updated, Return, IoEvents, Typed, PolleeTypeOK
  <2>4. EntryTyped'
    BY <1>2, <2>1 DEF updated, Typed, EntryTyped
  <2> QED BY <1>2, <2>2, <2>3, <2>4 DEF Kept, updated, Typed
<1>3. CASE shutdown(c)
  <2>1. EntryTyped'
    BY <1>3, Constants DEF shutdown, Typed, EntryTyped
  <2> QED BY <1>3, <2>1 DEF Kept, shutdown, Typed
<1>4. CASE unregister(c)
  <2>1. FileTyped'
    BY <1>4 DEF unregister, Typed, FileTyped
  <2>2. EntryTyped'
    BY <1>4 DEF unregister, Typed, EntryTyped
  <2>3. AtTyped'
    BY <1>4 DEF unregister, Typed, AtTyped
  <2> QED BY <1>4, <2>1, <2>2, <2>3 DEF Kept, unregister, Typed
<1> QED BY <1>1, <1>2, <1>3, <1>4

\* ReadySetPopIter keeps the types.
LEMMA PopTypes ==
  ASSUME Shape, Typed, Kept, bound \in Bounds, UNCHANGED bound,
         NEW w \in Waiters,
         finishPop(w) \/ popNext(w)
  PROVE  Typed'
<1>1. CASE finishPop(w)
  <2>1. /\ Popped(w) /\ UNCHANGED <<polleeVars, fileVars, entryVars, isReady, entries, at>>
    BY <1>1 DEF finishPop
  <2>2. WaitTyped' /\ entriesLock' \in Tasks \cup {None}
    BY <2>1, PoppedTyped DEF Typed
  <2>3. ReadyTyped'
    BY <2>1, <2>2 DEF Typed, ReadyTyped
  <2> QED BY <2>1, <2>2, <2>3 DEF Kept, Typed
<1>2. CASE popNext(w)
  <2> DEFINE left == IF limit[w] = None THEN Len(entries) ELSE limit[w]
  <2>1. left \in Nat /\ entries \in Seq(Entries)
    BY SMT DEF Typed, ReadyTyped, WaitTyped
  <2>2. UNCHANGED <<polling, events, fileVars, entryVars>>
    BY <1>2 DEF popNext
  <2>3. CASE Popped(w) /\ UNCHANGED <<cache, entries, isReady, at>>
    <3>1. WaitTyped' /\ entriesLock' \in Tasks \cup {None}
      BY <2>3, PoppedTyped DEF Typed
    <3>2. ReadyTyped'
      BY <2>3, <3>1 DEF Typed, ReadyTyped
    <3>3. UNCHANGED polleeVars
      BY <2>2, <2>3 DEF polleeVars
    <3> QED BY <2>2, <2>3, <3>1, <3>2, <3>3 DEF Kept, Typed
  <2>4. CASE ~(Popped(w) /\ UNCHANGED <<cache, entries, isReady, at>>)
    <3>1. /\ left > 0
          /\ entries' = Tail(entries)
          /\ IF Tail(entries) = <<>> THEN invalidate(Self) ELSE UNCHANGED cache
          /\ limit' = [limit EXCEPT ![w] = left - 1]
          /\ IF Alive(Head(entries))
             THEN /\ isReady' = [isReady EXCEPT ![Head(entries)] = FALSE]
                  /\ at' = [at EXCEPT ![w] = Head(entries)]
                  /\ entriesLock' = None
             ELSE entriesLock' = w /\ UNCHANGED <<isReady, at>>
          /\ popGuard' = w
          /\ UNCHANGED <<pollers, woken, got>>
      BY <1>2, <2>4 DEF popNext
    <3>2. entries # <<>>
      BY <2>1, <3>1, SMT DEF Shape, Popping, PoppingAt
    <3> HIDE DEF left
    <3>3. Tail(entries) \in Seq(Entries) /\ Head(entries) \in Entries
      BY <2>1, <3>2, SMT
    <3>4. left - 1 \in Nat
      BY <2>1, <3>1, SMT
    <3>5. limit' \in [Waiters -> Nat \cup {None}]
      BY <3>1, <3>4 DEF Typed, WaitTyped
    <3>6. WaitTyped'
      BY <3>1, <3>5 DEF Typed, WaitTyped
    <3>7. PolleeTypeOK'
      <4>1. CASE UNCHANGED cache
        BY <2>2, <4>1 DEF Kept, polleeVars
      <4>2. CASE cache' = [cache EXCEPT ![Self] = INV_STATE]
        BY <2>2, <4>2 DEF Typed, PolleeTypeOK
      <4> QED BY <3>1, <4>1, <4>2 DEF invalidate
    <3>8. ReadyTyped' /\ AtTyped'
      <4>1. CASE Alive(Head(entries))
        <5>1. /\ isReady' = [isReady EXCEPT ![Head(entries)] = FALSE]
              /\ at' = [at EXCEPT ![w] = Head(entries)] /\ entriesLock' = None
          BY <3>1, <4>1
        <5>2. ReadyTyped'
          BY <3>1, <3>3, <5>1 DEF Typed, ReadyTyped
        <5>3. AtTyped'
          BY <3>3, <5>1 DEF Typed, AtTyped
        <5> QED BY <5>2, <5>3
      <4>2. CASE ~Alive(Head(entries))
        <5>1. entriesLock' = w /\ UNCHANGED <<isReady, at>>
          BY <3>1, <4>2
        <5> QED BY <3>1, <3>3, <5>1, Constants DEF Kept, Typed, ReadyTyped
      <4> QED BY <4>1, <4>2
    <3> QED BY <2>2, <3>6, <3>7, <3>8 DEF Kept, Typed
  <2> QED BY <2>3, <2>4
<1> QED BY <1>1, <1>2

\* Entry::poll, and the deletion of a dead entry, keep the types.
LEMMA EntryTypes ==
  ASSUME Shape, Typed, Kept, bound \in Bounds, UNCHANGED bound,
         NEW w \in Waiters,
         entryPoll(w) \/ deleteDead(w) \/ entryPolled(w)
  PROVE  Typed'
<1>1. CASE entryPoll(w)
  <2>1. at[w] \in Entries
    BY <1>1, Constants DEF entryPoll, Shape, Located, LocatedAt
  <2>2. file[at[w]] \in Pollees
    BY <1>1, Constants DEF entryPoll, Typed, FileTyped
  <2>3. UNCHANGED <<cache, events, fileVars, file, interest, interestLock, mode, enabled, controls,
                    readyVars, waitVars>>
    BY <1>1 DEF entryPoll
  <2>4. CASE enabled[at[w]]
    <3>1. /\ inner' = [inner EXCEPT ![at[w]] = w] /\ UNCHANGED at
          /\ polling' = [polling EXCEPT ![w] = file[at[w]]]
      BY <1>1, <2>4 DEF entryPoll, poll_with
    <3>2. PolleeTypeOK'
      BY <2>2, <2>3, <3>1 DEF Typed, PolleeTypeOK
    <3>3. EntryTyped'
      BY <2>3, <3>1, Constants DEF Typed, EntryTyped
    <3> QED BY <2>3, <3>1, <3>2, <3>3 DEF Kept, Typed
  <2>5. CASE ~enabled[at[w]]
    <3>1. at' = [at EXCEPT ![w] = None] /\ UNCHANGED <<inner, polling>>
      BY <1>1, <2>5 DEF entryPoll, Continue
    <3>2. AtTyped'
      BY <3>1 DEF Typed, AtTyped
    <3>3. UNCHANGED polleeVars /\ UNCHANGED entryVars
      BY <2>3, <3>1 DEF polleeVars, entryVars
    <3> QED BY <2>3, <3>2, <3>3 DEF Kept, Typed
  <2> QED BY <2>4, <2>5
<1>2. CASE deleteDead(w)
  <2>1. EntryTyped'
    BY <1>2 DEF deleteDead, Typed, EntryTyped
  <2>2. AtTyped'
    BY <1>2 DEF deleteDead, Continue, Typed, AtTyped
  <2> QED BY <1>2, <2>1, <2>2 DEF Kept, deleteDead, Typed
<1>3. CASE entryPolled(w)
  <2>1. AtTyped'
    <3>1. CASE UNCHANGED at
      BY <3>1 DEF Kept
    <3>2. CASE Continue(w)
      BY <3>2 DEF Continue, Typed, AtTyped
    <3> QED BY <1>3, <3>1, <3>2 DEF entryPolled
  <2>2. PolleeTypeOK'
    BY <1>3 DEF entryPolled, Return, IoEvents, Typed, PolleeTypeOK
  <2>3. WaitTyped'
    <3>1. /\ got' = [got EXCEPT ![w] = IF events[w] = "ready" THEN got[w] + 1 ELSE got[w]]
          /\ UNCHANGED <<popGuard, limit, pollers, woken>>
      BY <1>3 DEF entryPolled
    <3>2. got[w] \in Nat /\ got[w] + 1 \in Nat
      BY SMT DEF Typed, WaitTyped
    <3>3. got' \in [Waiters -> Nat]
      BY <3>1, <3>2 DEF Typed, WaitTyped
    <3> QED BY <3>1, <3>3 DEF Typed, WaitTyped
  <2>4. enabled' \in [Entries -> BOOLEAN]
    BY <1>3 DEF entryPolled, Typed, EntryTyped
  <2>5. /\ inner' = [inner EXCEPT ![at[w]] = None]
        /\ UNCHANGED <<file, interest, interestLock, mode, controls>>
    BY <1>3 DEF entryPolled
  <2>6. EntryTyped'
    BY <2>4, <2>5 DEF Typed, EntryTyped
  <2> QED BY <1>3, <2>1, <2>2, <2>3, <2>6 DEF Kept, entryPolled, Typed
<1> QED BY <1>1, <1>2, <1>3

\* The rest of EpollFile::wait keeps the types.
LEMMA WaitTypes ==
  ASSUME Shape, Typed, Kept, bound \in Bounds, UNCHANGED bound,
         NEW w \in Waiters,
         wait(w) \/ registerWaiter(w) \/ selfPolled(w) \/ wake(w) \/ giveUp(w)
  PROVE  Typed'
<1>1. CASE wait(w)
  BY <1>1 DEF Kept, wait, Typed
<1>2. CASE registerWaiter(w)
  <2>1. PolleeTypeOK'
    BY <1>2, Constants DEF registerWaiter, poll_with, Typed, PolleeTypeOK
  <2>2. WaitTyped'
    BY <1>2 DEF registerWaiter, Typed, WaitTyped
  <2> QED BY <1>2, <2>1, <2>2 DEF Kept, registerWaiter, Typed
<1>3. CASE selfPolled(w)
  <2>1. PolleeTypeOK'
    BY <1>3 DEF selfPolled, Return, IoEvents, Typed, PolleeTypeOK
  <2> QED BY <1>3, <2>1 DEF Kept, selfPolled, Typed
<1>4. CASE wake(w)
  <2>1. WaitTyped'
    BY <1>4 DEF wake, Typed, WaitTyped
  <2> QED BY <1>4, <2>1 DEF Kept, wake, Typed
<1>5. CASE giveUp(w)
  <2>1. WaitTyped'
    BY <1>5 DEF giveUp, Leave, Typed, WaitTyped
  <2> QED BY <1>5, <2>1 DEF Kept, giveUp, Typed
<1> QED BY <1>1, <1>2, <1>3, <1>4, <1>5

\* Every step keeps the types.
LEMMA TypeStep == ASSUME Shape, [Next]_vars PROVE TypeOK'
<1>1. bound \in Bounds /\ UNCHANGED bound
  BY DEF Next, Step, vars, Shape, TypeOK
<1>2. Typed
  BY DEF Shape, TypeOK, Typed, FileTyped, EntryTyped, ReadyTyped, WaitTyped, AtTyped
<1>3. Kept
  BY <1>1, <1>2, GroupsKept
<1>4. SUFFICES Typed'
  BY <1>1 DEF TypeOK, Typed, FileTyped, EntryTyped, ReadyTyped, WaitTyped, AtTyped
<1>5. CASE Begin
  BY <1>1, <1>2, <1>3, <1>5, ChangeTypes, CloseTypes, AddTypes, ControlTypes, WaitTypes DEF Begin
<1>6. ASSUME NEW t \in Tasks, Step(t) PROVE Typed'
  <2>1. CASE poll(t) \/ push(t) \/ pushLock(t) \/ pushInvalidate(t) \/ pushNotify(t)
    BY <1>1, <1>2, <1>3, <2>1, PollTypes, PushTypes
  <2>2. CASE /\ t \in Drivers
             /\ notify(t) \/ invalidateOnly(t) \/ notify_observers(t) \/ on_events(t) \/ notified(t)
    BY <1>1, <1>2, <1>3, <2>2, NotifyTypes
  <2>3. CASE /\ t \in Controllers
             /\ \/ \E m \in bound.modes : update(t, m)
                \/ register_poller(t) \/ updated(t) \/ shutdown(t) \/ unregister(t)
    BY <1>1, <1>2, <1>3, <2>3, UpdateTypes, UpdatedTypes
  <2>4. CASE /\ t \in Waiters
             /\ \/ finishPop(t) \/ popNext(t) \/ entryPoll(t) \/ deleteDead(t)
                \/ entryPolled(t) \/ registerWaiter(t) \/ selfPolled(t) \/ wake(t)
    BY <1>1, <1>2, <1>3, <2>4, PopTypes, EntryTypes, WaitTypes
  <2> QED BY <1>6, <2>1, <2>2, <2>3, <2>4 DEF Step
<1>7. CASE UNCHANGED vars
  BY <1>3, <1>7 DEF Kept, vars, Typed
<1> QED BY <1>5, <1>6, <1>7 DEF Next
-----------------------------------------------------------------------------
(* Freshness: three ways for it to be kept *)

\* Nothing that matters to p changes, and nobody is about to cache more.
LEMMA QuietKeeps ==
  ASSUME NEW p, FreshAt(p), cache'[p] = cache[p], Events(p)' = Events(p),
         \A u \in Tasks : Invalidating(p, u) => Invalidating(p, u)',
         \A t \in Tasks : pc'[t] = "cache" /\ polling'[t] = p =>
           pc[t] = "cache" /\ polling[t] = p /\ events'[t] = events[t]
  PROVE  FreshAt(p)'
BY DEF FreshAt

\* The cache is invalidated.
LEMMA InvalidKeeps ==
  ASSUME NEW p, cache'[p] = INV_STATE
  PROVE  FreshAt(p)'
BY EpollAssumption DEF FreshAt, INV_STATE, IoEvents

\* Somebody has yet to invalidate the cache.
LEMMA PendingKeeps ==
  ASSUME NEW p, NEW u \in Tasks, Invalidating(p, u)'
  PROVE  FreshAt(p)'
BY DEF FreshAt

-----------------------------------------------------------------------------
(* The conjuncts, each kept by a step that does not concern it *)

\* The other tasks are at the same steps.
LEMMA OthersStay ==
  ASSUME Shape, NEW t \in Tasks, NEW s, Moves(t, s)
  PROVE  /\ pc' = [u \in Tasks |-> pc'[u]] /\ pc'[t] = s
         /\ \A u \in Tasks \ {t} : pc'[u] = pc[u]
BY DEF Shape, Located, Moves

\* Only t has moved, to a step that it has what it needs for.
LEMMA LocatedKept ==
  ASSUME Shape, NEW t \in Tasks, NEW s, Moves(t, s), LocatedAt(t)'
  PROVE  Located'
<1>1. /\ pc' = [u \in Tasks |-> pc'[u]]
      /\ \A u \in Tasks \ {t} : pc'[u] = pc[u]
  BY OthersStay
<1>2. ASSUME NEW u \in Tasks \ {t} PROVE LocatedAt(u)'
  <2>1. at'[u] = at[u] /\ polling'[u] = polling[u] /\ LocatedAt(u)
    BY DEF Moves, Shape, Located
  <2> QED BY <1>1, <2>1 DEF LocatedAt
<1> QED BY <1>1, <1>2 DEF Located

\* The ready list has not shrunk, and t polls for the iterator only within it.
LEMMA PoppingKept ==
  ASSUME Shape, NEW t \in Tasks, NEW s, Moves(t, s),
         UNCHANGED <<limit, got, popGuard>>, entries' \in Seq(Entries), Len(entries) <= Len(entries'),
         t \in Waiters /\ (s = "poll" \/ (s \in Polling /\ polling'[t] # Self)) => limit[t] # None
  PROVE  Popping'
<1>1. pc'[t] = s /\ \A u \in Tasks \ {t} : pc'[u] = pc[u]
  BY OthersStay
<1>2. ASSUME NEW w \in Waiters PROVE PoppingAt(w)'
  <2>1. PoppingAt(w) /\ limit[w] \in Nat \cup {None} /\ entries \in Seq(Entries) /\ w \in Tasks
    BY Constants DEF Shape, Popping, TypeOK
  <2>2. limit'[w] # None => limit'[w] <= Len(entries')
    <3>1. Len(entries) \in Nat /\ Len(entries') \in Nat
      BY <2>1, SMT
    <3> QED BY <2>1, <3>1, Constants, SMT DEF PoppingAt
  <2>3. pc'[w] = "poll" \/ (pc'[w] \in Polling /\ polling'[w] # Self) => limit'[w] # None
    <3>1. CASE w = t
      BY <1>1, <3>1
    <3>2. CASE w # t
      BY <1>1, <2>1, <3>2 DEF Moves, PoppingAt
    <3> QED BY <3>1, <3>2
  <2>4. limit'[w] # None \/ got'[w] > 0 => popGuard' = w
    BY <2>1 DEF PoppingAt
  <2> QED BY <2>2, <2>3, <2>4 DEF PoppingAt
<1> QED BY <1>2 DEF Popping

\* No entry that could have been forgotten has come to life.
LEMMA ListKept ==
  ASSUME ListExact, UNCHANGED <<entries, isReady>>,
         \A e \in Entries : isReady[e] /\ Alive(e)' => Alive(e)
  PROVE  ListExact'
BY DEF ListExact

\* t caches and invalidates nothing.
LEMMA FreshKept ==
  ASSUME Shape, NEW t \in Tasks, NEW s, Moves(t, s),
         s # "cache", pc[t] \notin {"notify", "invalidate", "pushInvalidate"},
         cache' = cache, ready' = ready, (entries' = <<>>) <=> (entries = <<>>),
         NEW p \in Pollees, FreshAt(p)
  PROVE  FreshAt(p)'
<1>1. Events(p)' = Events(p)
  BY DEF Events, HasEvents
<1>2. pc'[t] = s /\ \A u \in Tasks \ {t} : pc'[u] = pc[u]
  BY OthersStay
<1>3. \A u \in Tasks : Invalidating(p, u) => Invalidating(p, u)'
  <2> SUFFICES ASSUME NEW u \in Tasks, Invalidating(p, u) PROVE Invalidating(p, u)'
    OBVIOUS
  <2>1. u # t
    BY DEF Invalidating
  <2>2. polling'[u] = polling[u]
    BY <2>1 DEF Moves
  <2> QED BY <1>2, <2>1, <2>2 DEF Invalidating
<1>4. \A u \in Tasks : pc'[u] = "cache" /\ polling'[u] = p =>
        pc[u] = "cache" /\ polling[u] = p /\ events'[u] = events[u]
  BY <1>2 DEF Moves
<1> QED BY <1>1, <1>3, <1>4, QuietKeeps

\* A step that touches neither the caches nor the ready list, and brings to
\* life or makes no entry.
LEMMA Plain ==
  ASSUME IInv, TypeOK', NEW t \in Tasks, NEW s, Moves(t, s),
         s # "cache", pc[t] \notin {"notify", "invalidate", "pushInvalidate"}, LocatedAt(t)',
         UNCHANGED <<cache, ready, file, isReady, entries>>, Popping',
         \A e \in Entries : file[e] = None =>
           /\ e \notin interest' /\ at'[t] # e
           /\ \A f \in Files : e \notin observers'[f]
           /\ \A d \in Drivers : e \notin todo'[d],
         \A e \in Entries : Alive(e)' => Alive(e)
  PROVE  IInv'
<1>1. Shape /\ ListExact /\ \A p \in Pollees : FreshAt(p)
  BY DEF IInv
<1>2. Located'
  BY <1>1, LocatedKept
<1>3. Unmade'
  BY <1>1 DEF Shape, Unmade, Moves
<1>4. ListExact'
  BY <1>1, ListKept
<1>5. \A p \in Pollees : FreshAt(p)'
  BY <1>1, FreshKept
<1> QED BY <1>2, <1>3, <1>4, <1>5 DEF IInv, Shape

\* The same for a step that leaves the lists of entries alone, and the entry of
\* t too unless it is done with.
LEMMA Plainer ==
  ASSUME IInv, TypeOK', NEW t \in Tasks, NEW s, Moves(t, s),
         s # "cache", pc[t] \notin {"notify", "invalidate", "pushInvalidate"}, LocatedAt(t)',
         UNCHANGED <<cache, ready, file, isReady, entries, limit, got, popGuard>>,
         t \in Waiters /\ (s = "poll" \/ (s \in Polling /\ polling'[t] # Self)) => limit[t] # None,
         UNCHANGED <<interest, observers, todo>>, at'[t] \in {at[t], None}
  PROVE  IInv'
<1>1. Unmade
  BY DEF IInv, Shape
<1>2. \A e \in Entries : file[e] = None =>
        /\ e \notin interest' /\ at'[t] # e
        /\ \A f \in Files : e \notin observers'[f]
        /\ \A d \in Drivers : e \notin todo'[d]
  BY <1>1, Constants DEF Unmade
<1>3. \A u \in Tasks : at'[u] \in {at[u], None}
  BY DEF Moves
<1>4. \A e \in Entries : Alive(e)' => Alive(e)
  BY <1>3, Constants DEF Alive
<1>5. Popping'
  <2>1. Shape /\ entries' \in Seq(Entries) /\ Len(entries) <= Len(entries')
    BY SMT DEF IInv, Shape, TypeOK
  <2> QED BY <2>1, PoppingKept
<1> QED BY <1>2, <1>4, <1>5, Plain


-----------------------------------------------------------------------------
(* The actions, one by one *)

\* wait is called.
LEMMA WaitStep == ASSUME IInv, TypeOK', NEW w \in Waiters, wait(w) PROVE IInv'
<1>1. w \in Tasks /\ Shape
  BY Constants DEF IInv
<1>2. Moves(w, "next") /\ at'[w] \in {at[w], None}
  BY <1>1 DEF wait, Moves, Goto, polleeVars, Shape, TypeOK, PolleeTypeOK
<1>3. /\ UNCHANGED <<cache, ready, file, isReady, entries, limit, got, popGuard>>
      /\ UNCHANGED <<interest, observers, todo>>
  BY DEF wait, polleeVars, fileVars, entryVars, readyVars, waitVars
<1>4. pc'[w] = "next"
  BY <1>1, <1>2, OthersStay
<1>5. LocatedAt(w)' /\ pc[w] \notin {"notify", "invalidate", "pushInvalidate"}
  BY <1>1, <1>4 DEF wait, polleeVars, fileVars, entryVars, readyVars, waitVars, Shape, Located, LocatedAt, Polling
<1> QED BY <1>1, <1>2, <1>3, <1>5, Plainer DEF Polling

\* Poller::wait returns.
LEMMA WakeStep == ASSUME IInv, TypeOK', NEW w \in Waiters, wake(w) PROVE IInv'
<1>1. w \in Tasks /\ Shape
  BY Constants DEF IInv
<1>2. Moves(w, "next") /\ at'[w] \in {at[w], None}
  BY <1>1 DEF wake, Moves, Goto, polleeVars, Shape, TypeOK, PolleeTypeOK
<1>3. /\ UNCHANGED <<cache, ready, file, isReady, entries, limit, got, popGuard>>
      /\ UNCHANGED <<interest, observers, todo>>
  BY DEF wake, polleeVars, fileVars, entryVars, readyVars, waitVars
<1>4. pc'[w] = "next"
  BY <1>1, <1>2, OthersStay
<1>5. LocatedAt(w)' /\ pc[w] \notin {"notify", "invalidate", "pushInvalidate"}
  BY <1>1, <1>4 DEF wake, polleeVars, fileVars, entryVars, readyVars, waitVars, Shape, Located, LocatedAt, Polling
<1> QED BY <1>1, <1>2, <1>3, <1>5, Plainer DEF Polling

\* The waiter registers its poller.
LEMMA RegisterWaiterStep == ASSUME IInv, TypeOK', NEW w \in Waiters, registerWaiter(w) PROVE IInv'
<1>1. w \in Tasks /\ Shape
  BY Constants DEF IInv
<1>2. Moves(w, "load") /\ at'[w] = at[w] /\ polling'[w] = Self
  BY <1>1 DEF registerWaiter, poll_with, Moves, Goto, Shape, TypeOK, PolleeTypeOK
<1>3. /\ UNCHANGED <<cache, ready, file, isReady, entries, limit, got, popGuard>>
      /\ UNCHANGED <<interest, observers, todo>>
  BY DEF registerWaiter, fileVars, entryVars, readyVars
<1>4. pc'[w] = "load"
  BY <1>1, <1>2, OthersStay
<1>5. LocatedAt(w)' /\ pc[w] \notin {"notify", "invalidate", "pushInvalidate"}
  BY <1>2, <1>4, Constants DEF registerWaiter, LocatedAt
<1> QED BY <1>1, <1>2, <1>3, <1>5, Plainer

\* Entry::update sets the flags.
LEMMA UpdateStep == ASSUME IInv, TypeOK', NEW c \in Controllers, NEW m \in bound.modes, update(c, m) PROVE IInv'
<1>1. c \in Tasks /\ Shape
  BY Constants DEF IInv
<1>2. Moves(c, "registerEntry") /\ at'[c] \in {at[c], None}
  BY <1>1 DEF update, Moves, Goto, polleeVars, Shape, TypeOK, PolleeTypeOK
<1>3. /\ UNCHANGED <<cache, ready, file, isReady, entries, limit, got, popGuard>>
      /\ UNCHANGED <<interest, observers, todo>>
  BY DEF update, polleeVars, fileVars, entryVars, readyVars, waitVars
<1>4. pc'[c] = "registerEntry"
  BY <1>1, <1>2, OthersStay
<1>5. LocatedAt(c)' /\ pc[c] \notin {"notify", "invalidate", "pushInvalidate"}
  BY <1>1, <1>4 DEF update, polleeVars, fileVars, entryVars, readyVars, waitVars, Shape, Located, LocatedAt, Polling
<1> QED BY <1>1, <1>2, <1>3, <1>5, Plainer DEF Polling

\* Entry::shutdown disables the entry.
LEMMA ShutdownStep == ASSUME IInv, TypeOK', NEW c \in Controllers, shutdown(c) PROVE IInv'
<1>1. c \in Tasks /\ Shape
  BY Constants DEF IInv
<1>2. Moves(c, "unregister") /\ at'[c] \in {at[c], None}
  BY <1>1 DEF shutdown, Moves, Goto, polleeVars, Shape, TypeOK, PolleeTypeOK
<1>3. /\ UNCHANGED <<cache, ready, file, isReady, entries, limit, got, popGuard>>
      /\ UNCHANGED <<interest, observers, todo>>
  BY DEF shutdown, polleeVars, fileVars, entryVars, readyVars, waitVars
<1>4. pc'[c] = "unregister"
  BY <1>1, <1>2, OthersStay
<1>5. LocatedAt(c)' /\ pc[c] \notin {"notify", "invalidate", "pushInvalidate"}
  BY <1>1, <1>4 DEF shutdown, polleeVars, fileVars, entryVars, readyVars, waitVars, Shape, Located, LocatedAt, Polling
<1> QED BY <1>1, <1>2, <1>3, <1>5, Plainer DEF Polling

\* notify_observers returns.
LEMMA NotifiedStep == ASSUME IInv, TypeOK', NEW d \in Drivers, notified(d) PROVE IInv'
<1>1. d \in Tasks /\ Shape
  BY Constants DEF IInv
<1>2. Moves(d, "idle") /\ at'[d] \in {at[d], None}
  BY <1>1 DEF notified, Moves, Goto, polleeVars, Shape, TypeOK, PolleeTypeOK
<1>3. /\ UNCHANGED <<cache, ready, file, isReady, entries, limit, got, popGuard>>
      /\ UNCHANGED <<interest, observers, todo>>
  BY DEF notified, polleeVars, fileVars, entryVars, readyVars, waitVars
<1>4. pc'[d] = "idle"
  BY <1>1, <1>2, OthersStay
<1>5. LocatedAt(d)' /\ pc[d] \notin {"notify", "invalidate", "pushInvalidate"}
  BY <1>1, <1>4 DEF notified, polleeVars, fileVars, entryVars, readyVars, waitVars, Shape, Located, LocatedAt, Polling
<1> QED BY <1>1, <1>2, <1>3, <1>5, Plainer DEF Polling

\* The waiter acts on what it has polled.
LEMMA SelfPolledStep == ASSUME IInv, TypeOK', NEW w \in Waiters, selfPolled(w) PROVE IInv'
<1>1. w \in Tasks /\ Shape
  BY Constants DEF IInv
<1>2. /\ UNCHANGED <<cache, ready, file, isReady, entries, limit, got, popGuard>>
      /\ UNCHANGED <<interest, observers, todo>>
      /\ pc[w] \notin {"notify", "invalidate", "pushInvalidate"}
  BY DEF selfPolled, polleeVars, fileVars, entryVars, readyVars, waitVars
<1>3. CASE events[w] = "ready"
  <2>1. Moves(w, "next") /\ at'[w] \in {at[w], None}
    BY <1>1, <1>3 DEF selfPolled, Return, Moves, Goto, polleeVars, Shape, TypeOK, PolleeTypeOK
  <2>2. pc'[w] = "next"
    BY <1>1, <2>1, OthersStay
  <2>3. LocatedAt(w)'
    BY <1>1, <1>3, <2>2 DEF selfPolled, Return, polleeVars, Shape, TypeOK, PolleeTypeOK, Located, LocatedAt, Polling
  <2> QED BY <1>1, <1>2, <2>1, <2>3, Plainer DEF Polling
<1>4. CASE events[w] # "ready"
  <2>1. Moves(w, "sleep") /\ at'[w] \in {at[w], None}
    BY <1>1, <1>4 DEF selfPolled, Return, Moves, Goto, polleeVars, Shape, TypeOK, PolleeTypeOK
  <2>2. pc'[w] = "sleep"
    BY <1>1, <2>1, OthersStay
  <2>3. LocatedAt(w)'
    BY <1>1, <1>4, <2>2 DEF selfPolled, Return, polleeVars, Shape, TypeOK, PolleeTypeOK, Located, LocatedAt, Polling
  <2> QED BY <1>1, <1>2, <2>1, <2>3, Plainer DEF Polling
<1> QED BY <1>3, <1>4

\* push looks at is_enabled.
LEMMA PushStep == ASSUME IInv, TypeOK', NEW t \in Tasks, push(t) PROVE IInv'
<1>1. t \in Tasks /\ Shape
  BY Constants DEF IInv
<1>2. /\ UNCHANGED <<cache, ready, file, isReady, entries, limit, got, popGuard>>
      /\ UNCHANGED <<interest, observers, todo>>
      /\ pc[t] \notin {"notify", "invalidate", "pushInvalidate"}
  BY DEF push, polleeVars, fileVars, entryVars, readyVars, waitVars
<1>3. CASE enabled[at[t]]
  <2>1. Moves(t, "pushLock") /\ at'[t] \in {at[t], None}
    BY <1>1, <1>3, Constants DEF push, Pushed, Moves, Goto, polleeVars, Shape, TypeOK, PolleeTypeOK
  <2>2. pc'[t] = "pushLock"
    BY <1>1, <2>1, OthersStay
  <2>3. LocatedAt(t)'
    BY <1>1, <1>3, <2>2 DEF push, Pushed, polleeVars, Shape, TypeOK, PolleeTypeOK, Located, LocatedAt, Polling
  <2> QED BY <1>1, <1>2, <2>1, <2>3, Plainer DEF Polling
<1>4. CASE ~enabled[at[t]] /\ t \in Drivers
  <2>1. Moves(t, "each") /\ at'[t] \in {at[t], None}
    BY <1>1, <1>4, Constants, SMT DEF push, Pushed, Moves, Goto, polleeVars, Shape, TypeOK, PolleeTypeOK
  <2>2. pc'[t] = "each"
    BY <1>1, <2>1, OthersStay
  <2>3. LocatedAt(t)'
    BY <1>1, <1>4, <2>2 DEF push, Pushed, polleeVars, Shape, TypeOK, PolleeTypeOK, Located, LocatedAt, Polling
  <2> QED BY <1>1, <1>2, <2>1, <2>3, Plainer DEF Polling
<1>5. CASE ~enabled[at[t]] /\ t \in Controllers
  <2>1. Moves(t, "idle") /\ at'[t] \in {at[t], None}
    BY <1>1, <1>5, Constants, SMT DEF push, Pushed, Moves, Goto, polleeVars, Shape, TypeOK, PolleeTypeOK
  <2>2. pc'[t] = "idle"
    BY <1>1, <2>1, OthersStay
  <2>3. LocatedAt(t)'
    BY <1>1, <1>5, <2>2 DEF push, Pushed, polleeVars, Shape, TypeOK, PolleeTypeOK, Located, LocatedAt, Polling
  <2> QED BY <1>1, <1>2, <2>1, <2>3, Plainer DEF Polling
<1>6. CASE ~enabled[at[t]] /\ t \in Waiters
  <2>1. Moves(t, "next") /\ at'[t] \in {at[t], None}
    BY <1>1, <1>6, Constants, SMT DEF push, Pushed, Moves, Goto, polleeVars, Shape, TypeOK, PolleeTypeOK
  <2>2. pc'[t] = "next"
    BY <1>1, <2>1, OthersStay
  <2>3. LocatedAt(t)'
    BY <1>1, <1>6, <2>2 DEF push, Pushed, polleeVars, Shape, TypeOK, PolleeTypeOK, Located, LocatedAt, Polling
  <2> QED BY <1>1, <1>2, <2>1, <2>3, Plainer DEF Polling
<1> QED BY <1>3, <1>4, <1>5, <1>6, Constants

\* push wakes the waiters and returns.
LEMMA PushNotifyStep == ASSUME IInv, TypeOK', NEW t \in Tasks, pushNotify(t) PROVE IInv'
<1>1. t \in Tasks /\ Shape
  BY Constants DEF IInv
<1>2. /\ UNCHANGED <<cache, ready, file, isReady, entries, limit, got, popGuard>>
      /\ UNCHANGED <<interest, observers, todo>>
      /\ pc[t] \notin {"notify", "invalidate", "pushInvalidate"}
  BY DEF pushNotify, polleeVars, fileVars, entryVars, readyVars, waitVars
<1>3. CASE t \in Drivers
  <2>1. Moves(t, "each") /\ at'[t] \in {at[t], None}
    BY <1>1, <1>3, Constants DEF pushNotify, Pushed, Moves, Goto, polleeVars, Shape, TypeOK, PolleeTypeOK
  <2>2. pc'[t] = "each"
    BY <1>1, <2>1, OthersStay
  <2>3. LocatedAt(t)'
    BY <1>1, <1>3, <2>2 DEF pushNotify, Pushed, polleeVars, Shape, TypeOK, PolleeTypeOK, Located, LocatedAt, Polling
  <2> QED BY <1>1, <1>2, <2>1, <2>3, Plainer DEF Polling
<1>4. CASE t \in Controllers
  <2>1. Moves(t, "idle") /\ at'[t] \in {at[t], None}
    BY <1>1, <1>4, Constants DEF pushNotify, Pushed, Moves, Goto, polleeVars, Shape, TypeOK, PolleeTypeOK
  <2>2. pc'[t] = "idle"
    BY <1>1, <2>1, OthersStay
  <2>3. LocatedAt(t)'
    BY <1>1, <1>4, <2>2 DEF pushNotify, Pushed, polleeVars, Shape, TypeOK, PolleeTypeOK, Located, LocatedAt, Polling
  <2> QED BY <1>1, <1>2, <2>1, <2>3, Plainer DEF Polling
<1>5. CASE t \in Waiters
  <2>1. Moves(t, "next") /\ at'[t] \in {at[t], None}
    BY <1>1, <1>5, Constants DEF pushNotify, Pushed, Moves, Goto, polleeVars, Shape, TypeOK, PolleeTypeOK
  <2>2. pc'[t] = "next"
    BY <1>1, <2>1, OthersStay
  <2>3. LocatedAt(t)'
    BY <1>1, <1>5, <2>2 DEF pushNotify, Pushed, polleeVars, Shape, TypeOK, PolleeTypeOK, Located, LocatedAt, Polling
  <2> QED BY <1>1, <1>2, <2>1, <2>3, Plainer DEF Polling
<1> QED BY <1>3, <1>4, <1>5, Constants

\* Within poll_with, only the freshness of the caches is at stake.
LEMMA Polls ==
  ASSUME IInv, TypeOK', NEW t \in Tasks, NEW s, Moves(t, s), s \in Polling, pc[t] \in Polling,
         UNCHANGED <<polling, fileVars, entryVars, readyVars, waitVars, at>>,
         \A p \in Pollees : FreshAt(p)'
  PROVE  IInv'
<1>1. Shape /\ ListExact
  BY DEF IInv
<1>2. pc'[t] = s
  BY <1>1, OthersStay
<1>3. LocatedAt(t)'
  BY <1>1, <1>2 DEF Shape, Located, LocatedAt, Polling
<1>4. Located'
  BY <1>1, <1>3, LocatedKept
<1>5. Unmade'
  BY <1>1 DEF Shape, Unmade, fileVars, entryVars, readyVars
<1>6. Popping'
  <2>1. /\ UNCHANGED <<limit, got, popGuard>>
        /\ entries' \in Seq(Entries) /\ Len(entries) <= Len(entries')
    BY <1>1, SMT DEF Shape, TypeOK, waitVars, readyVars
  <2>2. t \in Waiters /\ (s = "poll" \/ (s \in Polling /\ polling'[t] # Self)) => limit[t] # None
    BY <1>1 DEF Shape, Popping, PoppingAt, Polling
  <2> QED BY <1>1, <2>1, <2>2, PoppingKept
<1>7. ListExact'
  <2>1. \A e \in Entries : Alive(e)' => Alive(e)
    BY DEF Alive, entryVars
  <2> QED BY <1>1, <2>1, ListKept DEF readyVars
<1> QED BY <1>4, <1>5, <1>6, <1>7 DEF IInv, Shape

\* poll_with stores the task's address.
LEMMA SwapStep == ASSUME IInv, TypeOK', NEW t \in Tasks, poll(t), pollSwap(t) PROVE IInv'
<1>1. /\ UNCHANGED <<polling, events, fileVars, entryVars, readyVars, waitVars, at>>
      /\ cache' = [cache EXCEPT ![polling[t]] = t] /\ pc[t] = "swap"
  BY DEF poll, pollSwap
<1>2. Moves(t, "check") /\ Shape
  BY <1>1 DEF pollSwap, Moves, Goto, IInv
<1>3. pc'[t] = "check" /\ \A u \in Tasks \ {t} : pc'[u] = pc[u]
  BY <1>2, OthersStay
<1>4. polling[t] \in Pollees /\ cache \in [Pollees -> {INV_STATE} \cup IoEvents \cup Tasks]
  BY <1>1, <1>2 DEF Shape, Located, LocatedAt, Polling, TypeOK, PolleeTypeOK
<1>5. ASSUME NEW p \in Pollees PROVE FreshAt(p)'
  <2>1. CASE p = polling[t]
    <3>1. cache'[p] = t /\ t \notin IoEvents
      BY <1>1, <1>4, <2>1, EpollAssumption
    <3> QED BY <1>3, <3>1 DEF FreshAt
  <2>2. CASE p # polling[t]
    <3>1. cache'[p] = cache[p] /\ Events(p)' = Events(p)
      BY <1>1, <1>4, <2>2 DEF Events, HasEvents, fileVars, readyVars
    <3>2. \A u \in Tasks : Invalidating(p, u) => Invalidating(p, u)'
      BY <1>1, <1>3 DEF Invalidating
    <3> QED BY <1>1, <1>3, <3>1, <3>2, QuietKeeps DEF IInv
  <2> QED BY <2>1, <2>2
<1> QED BY <1>1, <1>2, <1>5, Polls DEF Polling

\* poll_with checks the events, to cache them.
LEMMA CheckStep ==
  ASSUME IInv, TypeOK', NEW t \in Tasks, poll(t), pollCheck(t, Events(polling[t])), pc[t] = "check"
  PROVE  IInv'
<1>1. /\ UNCHANGED <<polling, cache, fileVars, entryVars, readyVars, waitVars, at>>
      /\ events' = [events EXCEPT ![t] = Events(polling[t])]
  BY DEF poll, pollCheck
<1>2. Moves(t, "cache") /\ Shape
  BY <1>1 DEF pollCheck, Moves, Goto, IInv, Shape, TypeOK, PolleeTypeOK
<1>3. pc'[t] = "cache" /\ \A u \in Tasks \ {t} : pc'[u] = pc[u]
  BY <1>2, OthersStay
<1>4. events'[t] = Events(polling[t]) /\ \A u \in Tasks \ {t} : events'[u] = events[u]
  BY <1>1, <1>2 DEF Shape, TypeOK, PolleeTypeOK
<1>5. ASSUME NEW p \in Pollees PROVE FreshAt(p)'
  <2>1. cache'[p] = cache[p] /\ Events(p)' = Events(p) /\ FreshAt(p)
    BY <1>1 DEF Events, HasEvents, fileVars, readyVars, IInv
  <2>2. \A u \in Tasks : Invalidating(p, u) => Invalidating(p, u)'
    BY <1>1, <1>3 DEF Invalidating
  <2> QED BY <1>1, <1>3, <1>4, <2>1, <2>2 DEF FreshAt
<1> QED BY <1>1, <1>2, <1>5, Polls DEF Polling

\* poll_with caches the events, unless the cache has changed.
LEMMA CacheStep == ASSUME IInv, TypeOK', NEW t \in Tasks, poll(t), pollCache(t) PROVE IInv'
<1>1. /\ UNCHANGED <<polling, events, fileVars, entryVars, readyVars, waitVars, at>>
      /\ pc[t] = "cache"
      /\ \/ cache[polling[t]] = t /\ cache' = [cache EXCEPT ![polling[t]] = events[t]]
         \/ UNCHANGED cache
  BY DEF poll, pollCache
<1>2. Moves(t, "polled") /\ Shape
  BY <1>1 DEF pollCache, Moves, Goto, IInv
<1>3. pc'[t] = "polled" /\ \A u \in Tasks \ {t} : pc'[u] = pc[u]
  BY <1>2, OthersStay
<1>4. /\ polling[t] \in Pollees /\ cache \in [Pollees -> {INV_STATE} \cup IoEvents \cup Tasks]
      /\ events[t] \in IoEvents
  BY <1>1, <1>2 DEF Shape, Located, LocatedAt, Polling, TypeOK, PolleeTypeOK
<1>5. ASSUME NEW p \in Pollees PROVE FreshAt(p)'
  <2>1. Events(p)' = Events(p) /\ FreshAt(p)
    BY <1>1 DEF Events, HasEvents, fileVars, readyVars, IInv
  <2>2. \A u \in Tasks : Invalidating(p, u) => Invalidating(p, u)'
    BY <1>1, <1>3 DEF Invalidating
  <2>3. CASE cache'[p] = cache[p]
    BY <1>1, <1>3, <2>1, <2>2, <2>3, QuietKeeps
  <2>4. CASE cache'[p] # cache[p]
    <3>1. p = polling[t] /\ cache[p] = t /\ cache'[p] = events[t]
      BY <1>1, <1>4, <2>4
    <3>2. events[t] = Events(p)' \/ \E u \in Tasks : Invalidating(p, u)'
      BY <1>1, <2>1, <2>2, <3>1 DEF FreshAt
    <3>3. \A u \in Tasks : cache'[p] # u
      BY <1>4, <3>1, EpollAssumption
    <3> QED BY <3>1, <3>2, <3>3 DEF FreshAt
  <2> QED BY <2>3, <2>4
<1> QED BY <1>1, <1>2, <1>5, Polls DEF Polling

\* The steps of poll_with.
LEMMA PollStep == ASSUME IInv, TypeOK', NEW t \in Tasks, poll(t) PROVE IInv'
<1>1. ASSUME NEW s, Moves(t, s), s \in Polling \ {"cache"}, pc[t] \in Polling, UNCHANGED <<polling, cache>>
      PROVE  IInv'
  <2>1. Shape /\ UNCHANGED <<fileVars, entryVars, readyVars, waitVars, at>>
    BY DEF poll, IInv
  <2>2. \A p \in Pollees : FreshAt(p)'
    BY <1>1, <2>1, FreshKept DEF IInv, Polling, fileVars, readyVars
  <2> QED BY <1>1, <2>1, <2>2, Polls
<1>2. events \in [Tasks -> IoEvents] /\ UNCHANGED at
  BY DEF IInv, Shape, TypeOK, PolleeTypeOK, poll
<1>3. CASE pollLoad(t)
  <2>1. pc[t] = "load" /\ UNCHANGED <<polling, cache>>
    BY <1>3 DEF pollLoad
  <2>2. CASE cache[polling[t]] \in IoEvents
    <3>1. Moves(t, "polled")
      BY <1>2, <1>3, <2>2 DEF pollLoad, Moves, Goto
    <3> QED BY <1>1, <2>1, <3>1 DEF Polling
  <2>3. CASE cache[polling[t]] \notin IoEvents /\ cache[polling[t]] = INV_STATE
    <3>1. Moves(t, "swap")
      BY <1>2, <1>3, <2>3 DEF pollLoad, Moves, Goto
    <3> QED BY <1>1, <2>1, <3>1 DEF Polling
  <2>4. CASE cache[polling[t]] \notin IoEvents /\ cache[polling[t]] # INV_STATE
    <3>1. Moves(t, "checkOnly")
      BY <1>2, <1>3, <2>4 DEF pollLoad, Moves, Goto
    <3> QED BY <1>1, <2>1, <3>1 DEF Polling
  <2> QED BY <2>2, <2>3, <2>4
<1>4. CASE pollCheck(t, Events(polling[t])) /\ pc[t] = "checkOnly"
  <2>1. Moves(t, "polled") /\ UNCHANGED <<polling, cache>>
    BY <1>2, <1>4 DEF pollCheck, Moves, Goto
  <2> QED BY <1>1, <1>4, <2>1 DEF Polling
<1>5. CASE pollCheck(t, Events(polling[t])) /\ pc[t] # "checkOnly"
  BY <1>5, CheckStep DEF pollCheck
<1> QED BY <1>3, <1>4, <1>5, SwapStep, CacheStep DEF poll
-----------------------------------------------------------------------------
(* Notification, control and wait *)

\* notify_observers begins.
LEMMA NotifyObserversStep == ASSUME IInv, TypeOK', NEW d \in Drivers, notify_observers(d) PROVE IInv'
<1>1. d \in Tasks /\ Shape /\ Unmade /\ d \notin Waiters
  BY Constants DEF IInv, Shape
<1>2. /\ UNCHANGED <<cache, events, ready, observers, at>>
      /\ UNCHANGED <<file, interest, isReady, entries, limit, got, popGuard>>
      /\ pc[d] = "notifyObservers" /\ polling[d] \in Files
  BY <1>1 DEF notify_observers, entryVars, readyVars, waitVars, Shape, Located, LocatedAt
<1>3. PICK s \in {"idle", "each"} : Moves(d, s) /\ UNCHANGED at
  <2>1. CASE observers[polling[d]] = {}
    <3>1. Moves(d, "idle")
      BY <1>1, <1>2, <2>1 DEF notify_observers, Moves, Goto, Shape, TypeOK, PolleeTypeOK
    <3> QED BY <1>2, <3>1
  <2>2. CASE observers[polling[d]] # {}
    <3>1. Moves(d, "each")
      BY <1>2, <2>2 DEF notify_observers, Moves, Goto
    <3> QED BY <1>2, <3>1
  <2> QED BY <2>1, <2>2
<1>4. pc'[d] = s
  BY <1>1, <1>3, OthersStay
<1>5. LocatedAt(d)' /\ s # "cache"
  BY <1>3, <1>4 DEF LocatedAt, Polling
<1>6. \A e \in Entries : file[e] = None => \A u \in Drivers : e \notin todo'[u]
  <2>1. todo' = todo \/ todo' = [todo EXCEPT ![d] = observers[polling[d]]]
    BY DEF notify_observers
  <2>2. todo \in [Drivers -> SUBSET Entries]
    BY <1>1 DEF Shape, TypeOK
  <2>3. \A u \in Drivers : todo'[u] \in {todo[u], observers[polling[d]]}
    BY <2>1, <2>2
  <2> QED BY <1>1, <1>2, <2>3 DEF Unmade
<1>7. \A e \in Entries : file[e] = None =>
        /\ e \notin interest' /\ at'[d] # e
        /\ \A f \in Files : e \notin observers'[f]
        /\ \A u \in Drivers : e \notin todo'[u]
  BY <1>1, <1>2, <1>6 DEF Unmade
<1>8. \A e \in Entries : Alive(e)' => Alive(e)
  BY <1>2 DEF Alive
<1>9. Popping'
  <2>1. entries' \in Seq(Entries) /\ Len(entries) <= Len(entries')
    BY <1>1, <1>2, SMT DEF Shape, TypeOK
  <2> QED BY <1>1, <1>2, <1>3, <2>1, PoppingKept
<1> QED BY <1>1, <1>2, <1>3, <1>5, <1>7, <1>8, <1>9, Plain

\* The driver takes the next observer.
LEMMA OnEventsStep == ASSUME IInv, TypeOK', NEW d \in Drivers, on_events(d) PROVE IInv'
<1>1. d \in Tasks /\ Shape /\ Unmade /\ d \notin Waiters /\ d \notin Controllers
  BY Constants DEF IInv, Shape
<1>2. /\ UNCHANGED <<cache, events, polling, ready, observers>>
      /\ UNCHANGED <<file, interest, isReady, entries, limit, got, popGuard>>
      /\ pc[d] = "each"
  BY DEF on_events, polleeVars, entryVars, readyVars, waitVars
<1>3. PICK e \in todo[d] : at' = [at EXCEPT ![d] = e] /\ todo' = [todo EXCEPT ![d] = @ \ {e}]
  BY DEF on_events
<1>4. e \in Entries /\ file[e] # None /\ at'[d] = e /\ \A u \in Tasks \ {d} : at'[u] = at[u]
  BY <1>1, <1>3 DEF Shape, TypeOK, Unmade
<1>5. Moves(d, "push")
  BY <1>2, <1>4 DEF on_events, Moves, Goto
<1>6. pc'[d] = "push"
  BY <1>1, <1>5, OthersStay
<1>7. LocatedAt(d)'
  BY <1>4, <1>6 DEF LocatedAt, Polling
<1>8. \A u \in Drivers : todo'[u] \subseteq todo[u]
  BY <1>1, <1>3 DEF Shape, TypeOK
<1>9. \A x \in Entries : file[x] = None =>
        /\ x \notin interest' /\ at'[d] # x
        /\ \A f \in Files : x \notin observers'[f]
        /\ \A u \in Drivers : x \notin todo'[u]
  BY <1>1, <1>2, <1>4, <1>8 DEF Unmade
<1>10. \A x \in Entries : Alive(x)' => Alive(x)
  <2>1. \A u \in Controllers \cup Waiters : at'[u] = at[u]
    BY <1>1, <1>4, Constants
  <2> QED BY <1>2, <2>1 DEF Alive
<1>11. Popping'
  <2>1. entries' \in Seq(Entries) /\ Len(entries) <= Len(entries')
    BY <1>1, <1>2, SMT DEF Shape, TypeOK
  <2> QED BY <1>1, <1>2, <1>5, <2>1, PoppingKept
<1> QED BY <1>1, <1>2, <1>5, <1>7, <1>9, <1>10, <1>11, Plain

\* A step of a controller: the iterator is not its business.
LEMMA Controls ==
  ASSUME IInv, TypeOK', NEW c \in Controllers, NEW s, Moves(c, s),
         s # "cache", pc[c] \notin {"notify", "invalidate", "pushInvalidate"}, LocatedAt(c)',
         UNCHANGED <<cache, ready, file, todo, isReady, entries, limit, got, popGuard>>,
         at'[c] = None \/ (at'[c] \in Entries /\ Alive(at'[c])),
         \A f \in Files : observers'[f] \subseteq observers[f] \cup {at[c]},
         interest' \subseteq interest \cup {at[c]}, at[c] \in interest' => at[c] \in Entries
  PROVE  IInv'
<1>1. c \in Tasks /\ Shape /\ Unmade /\ TypeOK /\ c \notin Waiters
  BY Constants DEF IInv, Shape
<1>2. \A e \in Entries : Alive(e) => file[e] # None
  BY <1>1, Constants DEF Alive, Unmade
<1>3. \A e \in Entries : file[e] = None =>
        /\ e \notin interest' /\ at'[c] # e
        /\ \A f \in Files : e \notin observers'[f]
        /\ \A d \in Drivers : e \notin todo'[d]
  BY <1>1, <1>2, Constants DEF Unmade
<1>4. \A e \in Entries : Alive(e)' => Alive(e)
  <2>1. \A u \in Controllers \cup Waiters : u # c => at'[u] = at[u]
    BY Constants DEF Moves
  <2> QED BY <2>1, Constants DEF Alive
<1>5. Popping'
  <2>1. entries' \in Seq(Entries) /\ Len(entries) <= Len(entries')
    BY <1>1, SMT DEF TypeOK
  <2> QED BY <1>1, <2>1, PoppingKept
<1> QED BY <1>1, <1>3, <1>4, <1>5, Plain

\* mod_interest and del_interest take the entry from the interest list.
LEMMA FindInterestStep ==
  ASSUME IInv, TypeOK', NEW c \in Controllers, NEW e \in Entries, mod_interest(c, e) \/ del_interest(c, e)
  PROVE  IInv'
<1>1. c \in Tasks /\ Shape
  BY Constants DEF IInv
<1>2. PICK s \in {"update", "shutdown"} : control(c, e, s)
  BY DEF mod_interest, del_interest
<1>3. /\ e \in interest /\ interest' \subseteq interest /\ UNCHANGED file
  BY DEF mod_interest, del_interest
<1>4. /\ UNCHANGED <<cache, events, polling, ready, observers, todo>>
      /\ UNCHANGED <<isReady, entries, limit, got, popGuard>>
      /\ pc[c] = "idle"
  BY <1>2 DEF control, polleeVars, fileVars, readyVars, waitVars
<1>5. Moves(c, s) /\ at'[c] = e
  BY <1>1, <1>2, <1>4 DEF control, Moves, Goto, Shape, TypeOK
<1>6. LocatedAt(c)' /\ s # "cache"
  <2>1. pc'[c] = s
    BY <1>1, <1>5, OthersStay
  <2> QED BY <1>2, <1>5, <2>1 DEF LocatedAt, Polling
<1>7. Alive(at'[c])
  BY <1>3, <1>5 DEF Alive
<1>8. interest' \subseteq interest \cup {at[c]} /\ (at[c] \in interest' => at[c] \in Entries)
  BY <1>3 DEF TypeOK
<1>9. \A f \in Files : observers'[f] \subseteq observers[f] \cup {at[c]}
  BY <1>4
<1> QED BY <1>3, <1>4, <1>5, <1>6, <1>7, <1>8, <1>9, Controls

\* The entry's poller is registered with the file.
LEMMA RegisterPollerStep == ASSUME IInv, TypeOK', NEW c \in Controllers, register_poller(c) PROVE IInv'
<1>1. c \in Tasks /\ Shape /\ c \notin Waiters
  BY Constants DEF IInv
<1>2. /\ UNCHANGED <<cache, events, ready, todo, at>>
      /\ UNCHANGED <<file, interest, isReady, entries, limit, got, popGuard>>
      /\ pc[c] = "registerEntry"
  BY DEF register_poller, entryVars, readyVars, waitVars
<1>3. at[c] \in Entries /\ file[at[c]] \in Files
  BY <1>1, <1>2, SMT DEF Shape, Located, LocatedAt, Unmade, TypeOK
<1>4. Moves(c, "load") /\ polling'[c] = file[at[c]]
  BY <1>1, <1>2 DEF register_poller, poll_with, Moves, Goto, Shape, TypeOK, PolleeTypeOK
<1>5. LocatedAt(c)'
  <2>1. pc'[c] = "load"
    BY <1>1, <1>4, OthersStay
  <2> QED BY <1>2, <1>3, <1>4, <2>1, Constants DEF LocatedAt
<1>6. \A f \in Files : observers'[f] \subseteq observers[f] \cup {at[c]}
  BY <1>1, <1>3 DEF register_poller, Shape, TypeOK
<1>7. Alive(at'[c])
  BY <1>2 DEF Alive
<1> QED BY <1>2, <1>3, <1>4, <1>5, <1>6, <1>7, Controls

\* update returns, and the entry is in the interest list.
LEMMA UpdatedStep == ASSUME IInv, TypeOK', NEW c \in Controllers, updated(c) PROVE IInv'
<1>1. c \in Tasks /\ Shape /\ c \notin Waiters
  BY Constants DEF IInv
<1>2. /\ UNCHANGED <<cache, ready, observers, todo>>
      /\ UNCHANGED <<file, isReady, entries, limit, got, popGuard>>
      /\ pc[c] = "polled" /\ interest' = interest \cup {at[c]}
  BY DEF updated, fileVars, readyVars, waitVars
<1>3. at[c] \in Entries /\ Alive(at[c])
  BY <1>1, <1>2 DEF Shape, Located, LocatedAt, Polling, Alive
<1>4. PICK s \in {"push", "idle"} : Moves(c, s) /\ at'[c] \in {at[c], None}
  <2>1. CASE events[c] = "ready"
    <3>1. Moves(c, "push") /\ at'[c] = at[c]
      BY <1>1, <2>1 DEF updated, Return, Moves, Goto, Shape, TypeOK, PolleeTypeOK
    <3> QED BY <3>1
  <2>2. CASE events[c] # "ready"
    <3>1. Moves(c, "idle") /\ at'[c] = None
      <4>1. /\ pc' = [pc EXCEPT ![c] = "idle"] /\ at' = [at EXCEPT ![c] = None]
            /\ polling' = [polling EXCEPT ![c] = None] /\ events' = [events EXCEPT ![c] = "none"]
        BY <2>2 DEF updated, Return, Goto
      <4>2. at \in [Tasks -> Entries \cup {None}] /\ PolleeTypeOK
        BY <1>1 DEF Shape, TypeOK
      <4> QED BY <1>1, <4>1, <4>2 DEF Moves, PolleeTypeOK
    <3> QED BY <3>1
  <2> QED BY <2>1, <2>2
<1>5. LocatedAt(c)' /\ s # "cache"
  <2>1. pc'[c] = s /\ (s = "push" => at'[c] = at[c])
    <3>1. pc'[c] = s
      BY <1>1, <1>4, OthersStay
    <3>2. s = "push" => events[c] = "ready"
      BY <1>1, <3>1 DEF updated, Goto, Shape, Located
    <3> QED BY <3>1, <3>2 DEF updated
  <2> QED BY <1>3, <1>4, <2>1 DEF LocatedAt, Polling
<1> QED BY <1>2, <1>3, <1>4, <1>5, Controls

\* The entry's poller is reset.
LEMMA UnregisterStep == ASSUME IInv, TypeOK', NEW c \in Controllers, unregister(c) PROVE IInv'
<1>1. c \in Tasks /\ Shape
  BY Constants DEF IInv
<1>2. /\ UNCHANGED <<cache, events, polling, ready, todo>>
      /\ UNCHANGED <<file, interest, isReady, entries, limit, got, popGuard>>
      /\ pc[c] = "unregister"
  BY DEF unregister, polleeVars, readyVars, waitVars
<1>3. Moves(c, "idle") /\ at'[c] = None
  BY <1>1, <1>2, SMT DEF unregister, Moves, Goto, Shape, TypeOK
<1>4. LocatedAt(c)'
  <2>1. pc'[c] = "idle"
    BY <1>1, <1>3, OthersStay
  <2> QED BY <2>1 DEF LocatedAt, Polling
<1>5. \A f \in Files : observers'[f] \subseteq observers[f] \cup {at[c]}
  BY <1>1 DEF unregister, Shape, TypeOK
<1>6. at[c] \in Entries
  BY <1>1, <1>2 DEF Shape, Located, LocatedAt
<1> QED BY <1>2, <1>3, <1>4, <1>5, <1>6, Controls

\* A step of the waiter that leaves the ready list, the caches and the entries
\* that others see alone.
LEMMA Waits ==
  ASSUME IInv, TypeOK', NEW w \in Waiters, NEW s, Moves(w, s),
         s # "cache", pc[w] \notin {"notify", "invalidate", "pushInvalidate"}, LocatedAt(w)',
         UNCHANGED <<cache, ready, file, observers, todo, isReady, entries>>,
         interest' \subseteq interest, at'[w] \in {at[w], None},
         PoppingAt(w)', \A u \in Waiters \ {w} : limit'[u] = limit[u] /\ got'[u] = got[u],
         popGuard' = popGuard \/ popGuard \in {None, w}
  PROVE  IInv'
<1>1. w \in Tasks /\ Shape /\ Unmade /\ Popping
  BY Constants DEF IInv, Shape
<1>2. \A e \in Entries : file[e] = None =>
        /\ e \notin interest' /\ at'[w] # e
        /\ \A f \in Files : e \notin observers'[f]
        /\ \A d \in Drivers : e \notin todo'[d]
  <2> SUFFICES ASSUME NEW e \in Entries, file[e] = None
               PROVE  /\ e \notin interest' /\ at'[w] # e
                      /\ \A f \in Files : e \notin observers'[f]
                      /\ \A d \in Drivers : e \notin todo'[d]
    OBVIOUS
  <2>1. /\ e \notin interest /\ at[w] # e /\ e # None
        /\ \A f \in Files : e \notin observers[f]
        /\ \A d \in Drivers : e \notin todo[d]
    BY <1>1, Constants DEF Unmade
  <2>2. e \notin interest' /\ at'[w] # e
    BY <2>1
  <2>3. observers' = observers /\ todo' = todo
    OBVIOUS
  <2> QED BY <2>1, <2>2, <2>3
<1>3. \A e \in Entries : Alive(e)' => Alive(e)
  <2>1. \A u \in Tasks : at'[u] \in {at[u], None}
    BY DEF Moves
  <2> QED BY <2>1, Constants DEF Alive
<1>4. ASSUME NEW u \in Waiters \ {w} PROVE PoppingAt(u)'
  <2>1. PoppingAt(u) /\ limit'[u] = limit[u] /\ got'[u] = got[u] /\ u \in Tasks /\ u # None
    BY <1>1, Constants DEF Popping
  <2>2. pc'[u] = pc[u] /\ polling'[u] = polling[u]
    BY <1>1, <2>1, OthersStay DEF Moves
  <2> QED BY <2>1, <2>2 DEF PoppingAt
<1>5. Popping'
  BY <1>4 DEF Popping
<1> QED BY <1>1, <1>2, <1>3, <1>5, Plain

\* wait gives up.
LEMMA GiveUpStep == ASSUME IInv, TypeOK', NEW w \in Waiters, giveUp(w) PROVE IInv'
<1>1. w \in Tasks /\ Shape /\ PoppingAt(w)
  BY Constants DEF IInv, Shape, Popping
<1>2. /\ UNCHANGED <<cache, events, polling, ready, observers, todo, at>>
      /\ UNCHANGED <<file, interest, isReady, entries, limit, popGuard>>
      /\ got' = [got EXCEPT ![w] = 0] /\ got \in [Waiters -> Nat]
      /\ pc[w] \in {"register", "sleep"}
  BY <1>1 DEF giveUp, Leave, polleeVars, fileVars, entryVars, readyVars, Shape, TypeOK
<1>3. Moves(w, "idle")
  BY <1>2 DEF giveUp, Leave, Moves, Goto
<1>4. pc'[w] = "idle"
  BY <1>1, <1>3, OthersStay
<1>5. LocatedAt(w)'
  BY <1>4 DEF LocatedAt, Polling
<1>6. PoppingAt(w)' /\ \A u \in Waiters \ {w} : limit'[u] = limit[u] /\ got'[u] = got[u]
  BY <1>1, <1>2, <1>4, SMT DEF PoppingAt, Polling
<1> QED BY <1>2, <1>3, <1>5, <1>6, Waits

\* Entry::poll, up to the poll of the file.
LEMMA EntryPollStep == ASSUME IInv, TypeOK', NEW w \in Waiters, entryPoll(w) PROVE IInv'
<1>1. w \in Tasks /\ Shape /\ PoppingAt(w)
  BY Constants DEF IInv, Shape, Popping
<1>2. /\ UNCHANGED <<cache, events, ready, observers, todo>>
      /\ UNCHANGED <<file, interest, isReady, entries, limit, got, popGuard>>
      /\ pc[w] = "poll" /\ file[at[w]] \in open /\ at[w] \in Entries
  BY <1>1 DEF entryPoll, fileVars, readyVars, waitVars, Shape, Located, LocatedAt
<1>3. CASE enabled[at[w]]
  <2>1. Moves(w, "load") /\ at'[w] = at[w] /\ polling'[w] = file[at[w]]
    BY <1>1, <1>2, <1>3 DEF entryPoll, poll_with, Moves, Goto, Shape, TypeOK, PolleeTypeOK
  <2>2. pc'[w] = "load"
    BY <1>1, <2>1, OthersStay
  <2>3. LocatedAt(w)'
    BY <1>1, <1>2, <2>1, <2>2, Constants DEF LocatedAt, Shape, TypeOK
  <2>4. PoppingAt(w)'
    BY <1>1, <1>2, <2>2 DEF PoppingAt
  <2> QED BY <1>2, <2>1, <2>3, <2>4, Waits
<1>4. CASE ~enabled[at[w]]
  <2>1. Moves(w, "next") /\ at'[w] = None
    BY <1>1, <1>2, <1>4 DEF entryPoll, Continue, Moves, Goto, Shape, TypeOK, PolleeTypeOK
  <2>2. pc'[w] = "next"
    BY <1>1, <2>1, OthersStay
  <2>3. LocatedAt(w)' /\ PoppingAt(w)'
    BY <1>1, <1>2, <2>2 DEF LocatedAt, PoppingAt, Polling
  <2> QED BY <1>2, <2>1, <2>3, Waits
<1> QED BY <1>3, <1>4

\* The entry of a dead file is deleted.
LEMMA DeleteDeadStep == ASSUME IInv, TypeOK', NEW w \in Waiters, deleteDead(w) PROVE IInv'
<1>1. w \in Tasks /\ Shape /\ PoppingAt(w)
  BY Constants DEF IInv, Shape, Popping
<1>2. /\ UNCHANGED <<cache, events, polling, ready, observers, todo>>
      /\ UNCHANGED <<file, isReady, entries, limit, got, popGuard>>
      /\ pc[w] = "poll" /\ interest' \subseteq interest
  BY DEF deleteDead, polleeVars, fileVars, readyVars, waitVars
<1>3. Moves(w, "next") /\ at'[w] = None
  BY <1>1, <1>2 DEF deleteDead, Continue, Moves, Goto, Shape, TypeOK
<1>4. pc'[w] = "next"
  BY <1>1, <1>3, OthersStay
<1>5. LocatedAt(w)' /\ PoppingAt(w)'
  BY <1>1, <1>2, <1>4 DEF LocatedAt, PoppingAt, Polling
<1> QED BY <1>2, <1>3, <1>5, Waits

\* The rest of Entry::poll.
LEMMA EntryPolledStep == ASSUME IInv, TypeOK', NEW w \in Waiters, entryPolled(w) PROVE IInv'
<1> DEFINE again == events[w] = "ready" /\ mode[at[w]] = "level"
<1>1. w \in Tasks /\ Shape /\ PoppingAt(w)
  BY Constants DEF IInv, Shape, Popping
<1>2. /\ UNCHANGED <<cache, ready, observers, todo>>
      /\ UNCHANGED <<file, interest, isReady, entries, limit, popGuard>>
      /\ pc[w] = "polled" /\ polling[w] # Self
  BY DEF entryPolled, fileVars, readyVars
<1>3. at[w] \in Entries /\ limit[w] # None
  BY <1>1, <1>2 DEF Shape, Located, LocatedAt, PoppingAt, Polling
<1>4. \A u \in Waiters \ {w} : limit'[u] = limit[u] /\ got'[u] = got[u]
  BY <1>1, <1>2 DEF entryPolled, Shape, TypeOK
<1>5. CASE again
  <2>1. Moves(w, "push") /\ at'[w] = at[w]
    BY <1>1, <1>5 DEF entryPolled, Return, Moves, Goto, Shape, TypeOK, PolleeTypeOK
  <2>2. pc'[w] = "push"
    BY <1>1, <2>1, OthersStay
  <2>3. LocatedAt(w)' /\ PoppingAt(w)'
    BY <1>1, <1>2, <1>3, <2>1, <2>2 DEF LocatedAt, PoppingAt, Polling
  <2> QED BY <1>2, <1>4, <2>1, <2>3, Waits
<1>6. CASE ~again
  <2>1. Moves(w, "next") /\ at'[w] = None
    <3>1. /\ pc' = [pc EXCEPT ![w] = "next"] /\ at' = [at EXCEPT ![w] = None]
          /\ polling' = [polling EXCEPT ![w] = None] /\ events' = [events EXCEPT ![w] = "none"]
      BY <1>6 DEF entryPolled, Return, Continue, Goto
    <3>2. at \in [Tasks -> Entries \cup {None}] /\ PolleeTypeOK
      BY <1>1 DEF Shape, TypeOK
    <3> QED BY <1>1, <3>1, <3>2 DEF Moves, PolleeTypeOK
  <2>2. pc'[w] = "next"
    BY <1>1, <2>1, OthersStay
  <2>3. LocatedAt(w)' /\ PoppingAt(w)'
    BY <1>1, <1>2, <1>3, <2>2 DEF LocatedAt, PoppingAt, Polling
  <2> QED BY <1>2, <1>4, <2>1, <2>3, Waits
<1> QED BY <1>5, <1>6

\* pop_multi_ready returns.
LEMMA PoppedStep ==
  ASSUME IInv, TypeOK', NEW w \in Waiters, pc[w] = "next", Popped(w), popGuard \in {None, w},
         UNCHANGED <<cache, events, polling, fileVars, entryVars, isReady, entries, at>>
  PROVE  IInv'
<1>1. w \in Tasks /\ Shape
  BY Constants DEF IInv
<1>2. /\ UNCHANGED <<ready, observers, todo, file, interest>>
      /\ limit \in [Waiters -> Nat \cup {None}] /\ got \in [Waiters -> Nat]
  BY <1>1 DEF fileVars, entryVars, Shape, TypeOK
<1>3. limit' = [limit EXCEPT ![w] = None] /\ limit'[w] = None
  BY <1>2 DEF Popped
<1>4. PICK s \in {"idle", "sleep", "register"} : Moves(w, s) /\ got' = [got EXCEPT ![w] = 0]
  <2>1. CASE got[w] > 0
    <3>1. Moves(w, "idle") /\ got' = [got EXCEPT ![w] = 0]
      BY <2>1 DEF Popped, Leave, Moves, Goto
    <3> QED BY <3>1
  <2>2. CASE ~(got[w] > 0)
    <3>1. got' = got /\ got[w] = 0
      BY <1>2, <2>2, SMT DEF Popped
    <3>2. CASE w \in pollers
      BY <1>2, <2>2, <3>1, <3>2 DEF Popped, Moves, Goto
    <3>3. CASE w \notin pollers
      BY <1>2, <2>2, <3>1, <3>3 DEF Popped, Moves, Goto
    <3> QED BY <3>2, <3>3
  <2> QED BY <2>1, <2>2
<1>5. pc'[w] = s
  BY <1>1, <1>4, OthersStay
<1>6. LocatedAt(w)' /\ PoppingAt(w)' /\ s # "cache"
  BY <1>2, <1>3, <1>4, <1>5, SMT DEF LocatedAt, PoppingAt, Polling
<1>7. \A u \in Waiters \ {w} : limit'[u] = limit[u] /\ got'[u] = got[u]
  BY <1>2, <1>3, <1>4
<1> QED BY <1>2, <1>4, <1>6, <1>7, Waits

\* max_events or the limit is reached.
LEMMA FinishPopStep == ASSUME IInv, TypeOK', NEW w \in Waiters, finishPop(w) PROVE IInv'
<1>1. Shape /\ PoppingAt(w)
  BY DEF IInv, Shape, Popping
<1>2. popGuard = w
  <2>1. limit[w] # None \/ got[w] > 0
    <3>1. got[w] \in Nat
      BY <1>1 DEF Shape, TypeOK
    <3>2. MaxEvents \in Nat \ {0} /\ None # 0
      BY EpollAssumption, SMT
    <3>3. got[w] >= MaxEvents \/ limit[w] = 0
      BY DEF finishPop
    <3> QED BY <3>1, <3>2, <3>3, SMT
  <2> QED BY <1>1, <2>1 DEF PoppingAt
<1> QED BY <1>2, PoppedStep DEF finishPop, polleeVars

-----------------------------------------------------------------------------
(* The steps that change events, caches or the ready list *)

\* p is not the pollee that the step is about.
LEMMA FreshElsewhere ==
  ASSUME Shape, NEW t \in Tasks, NEW s, Moves(t, s), s # "cache",
         NEW p, FreshAt(p), cache'[p] = cache[p], Events(p)' = Events(p), ~Invalidating(p, t)
  PROVE  FreshAt(p)'
<1>1. pc'[t] = s /\ \A u \in Tasks \ {t} : pc'[u] = pc[u]
  BY OthersStay
<1>2. \A u \in Tasks : Invalidating(p, u) => Invalidating(p, u)'
  <2> SUFFICES ASSUME NEW u \in Tasks, Invalidating(p, u) PROVE Invalidating(p, u)'
    OBVIOUS
  <2>1. u # t /\ polling'[u] = polling[u]
    BY DEF Moves
  <2> QED BY <1>1, <2>1 DEF Invalidating
<1>3. \A u \in Tasks : pc'[u] = "cache" /\ polling'[u] = p =>
        pc[u] = "cache" /\ polling[u] = p /\ events'[u] = events[u]
  BY <1>1 DEF Moves
<1> QED BY <1>2, <1>3, QuietKeeps

\* A step that leaves the lists of entries alone.
LEMMA Signals ==
  ASSUME IInv, TypeOK', NEW t \in Tasks, NEW s, Moves(t, s), s \notin Polling, s # "poll", LocatedAt(t)',
         UNCHANGED <<file, interest, observers, todo, at, isReady, entries, limit, got, popGuard>>,
         \A p \in Pollees : FreshAt(p)'
  PROVE  IInv'
<1>1. Shape /\ ListExact /\ Unmade /\ entries \in Seq(Entries)
  BY DEF IInv, Shape, TypeOK
<1>2. Located'
  BY <1>1, LocatedKept
<1>3. Unmade'
  BY <1>1 DEF Unmade
<1>4. Popping'
  <2>1. entries' \in Seq(Entries) /\ Len(entries) <= Len(entries')
    BY <1>1, SMT
  <2> QED BY <1>1, <2>1, PoppingKept
<1>5. ListExact'
  BY <1>1, ListKept DEF Alive
<1> QED BY <1>2, <1>3, <1>4, <1>5 DEF IInv, Shape

\* A driver has changed the events of a file.
LEMMA ChangeStep ==
  ASSUME IInv, TypeOK', NEW d \in Drivers, NEW f \in Files, produce(d, f) \/ consume(d, f)
  PROVE  IInv'
<1>1. d \in Tasks /\ Shape /\ f \in Pollees /\ f # Self
  BY Constants DEF IInv
<1>2. /\ UNCHANGED <<cache, events, observers, todo, at>>
      /\ UNCHANGED <<file, interest, isReady, entries, limit, got, popGuard>>
      /\ pc[d] = "idle" /\ polling' = [polling EXCEPT ![d] = f]
  BY DEF produce, consume, change, entryVars, readyVars, waitVars
<1>3. PICK s \in {"notify", "invalidate"} : Goto(d, s)
  BY DEF produce, consume
<1>4. Moves(d, s) /\ polling'[d] = f
  BY <1>1, <1>2, <1>3 DEF Moves, Goto, Shape, TypeOK, PolleeTypeOK
<1>5. pc'[d] = s
  BY <1>1, <1>4, OthersStay
<1>6. LocatedAt(d)' /\ s \notin Polling /\ s # "poll" /\ s # "cache"
  BY <1>3, <1>4, <1>5 DEF LocatedAt, Polling
<1>7. ASSUME NEW p \in Pollees PROVE FreshAt(p)'
  <2>1. CASE p = f
    <3>1. Invalidating(p, d)'
      BY <1>1, <1>3, <1>4, <1>5, <2>1 DEF Invalidating
    <3> QED BY <1>1, <3>1, PendingKeeps
  <2>2. CASE p # f
    <3>1. ~Invalidating(p, d) /\ FreshAt(p) /\ cache'[p] = cache[p]
      BY <1>2 DEF Invalidating, IInv
    <3>2. p # Self => ready'[p] = ready[p]
      BY <1>1, <2>2, Constants DEF produce, consume, Shape, TypeOK
    <3>3. Events(p)' = Events(p)
      BY <1>2, <3>2 DEF Events, HasEvents
    <3> QED BY <1>1, <1>4, <1>6, <3>1, <3>3, FreshElsewhere
  <2> QED BY <2>1, <2>2
<1> QED BY <1>1, <1>2, <1>4, <1>6, <1>7, Signals

\* A cache is invalidated by the task that has changed the events.
LEMMA Invalidated ==
  ASSUME IInv, NEW t \in Tasks, NEW s, Moves(t, s), s # "cache", NEW q \in Pollees, invalidate(q),
         UNCHANGED <<ready, entries>>, \A p \in Pollees \ {q} : ~Invalidating(p, t)
  PROVE  \A p \in Pollees : FreshAt(p)'
<1>1. Shape /\ cache \in [Pollees -> {INV_STATE} \cup IoEvents \cup Tasks]
  BY DEF IInv, Shape, TypeOK, PolleeTypeOK
<1>2. ASSUME NEW p \in Pollees PROVE FreshAt(p)'
  <2>1. CASE p = q
    BY <1>1, <2>1, InvalidKeeps DEF invalidate
  <2>2. CASE p # q
    <3>1. cache'[p] = cache[p] /\ Events(p)' = Events(p) /\ FreshAt(p)
      BY <1>1, <2>2 DEF invalidate, Events, HasEvents, IInv
    <3> QED BY <1>1, <2>2, <3>1, FreshElsewhere
  <2> QED BY <2>1, <2>2
<1> QED BY <1>2

\* notify and invalidate, on a file.
LEMMA InvalidateStep ==
  ASSUME IInv, TypeOK', NEW d \in Drivers, notify(d) \/ invalidateOnly(d)
  PROVE  IInv'
<1>1. d \in Tasks /\ Shape
  BY Constants DEF IInv
<1>2. /\ UNCHANGED <<events, ready, observers, todo, at>>
      /\ UNCHANGED <<file, interest, isReady, entries, limit, got, popGuard>>
      /\ pc[d] \in {"notify", "invalidate"} /\ invalidate(polling[d])
  BY DEF notify, invalidateOnly, fileVars, entryVars, readyVars, waitVars
<1>3. polling[d] \in Files /\ polling[d] \in Pollees
  BY <1>1, <1>2, Constants DEF Shape, Located, LocatedAt
<1>4. PICK s \in {"notifyObservers", "idle"} :
        Moves(d, s) /\ (s = "notifyObservers" => polling'[d] = polling[d])
  <2>1. CASE notify(d)
    <3>1. Moves(d, "notifyObservers") /\ polling'[d] = polling[d]
      BY <2>1, <1>2 DEF notify, Moves, Goto
    <3> QED BY <3>1
  <2>2. CASE invalidateOnly(d)
    <3>1. Moves(d, "idle")
      BY <1>1, <1>2, <2>2 DEF invalidateOnly, Moves, Goto, Shape, TypeOK, PolleeTypeOK
    <3> QED BY <3>1
  <2> QED BY <2>1, <2>2
<1>5. pc'[d] = s
  BY <1>1, <1>4, OthersStay
<1>6. LocatedAt(d)' /\ s \notin Polling /\ s # "poll" /\ s # "cache"
  BY <1>3, <1>4, <1>5 DEF LocatedAt, Polling
<1>7. \A p \in Pollees \ {polling[d]} : ~Invalidating(p, d)
  BY <1>2 DEF Invalidating
<1>8. \A p \in Pollees : FreshAt(p)'
  BY <1>1, <1>2, <1>3, <1>4, <1>6, <1>7, Invalidated
<1> QED BY <1>1, <1>2, <1>4, <1>6, <1>8, Signals

\* push invalidates the epoll file's own cache.
LEMMA PushInvalidateStep == ASSUME IInv, TypeOK', NEW t \in Tasks, pushInvalidate(t) PROVE IInv'
<1>1. Shape /\ Self \in Pollees
  BY Constants DEF IInv
<1>2. /\ UNCHANGED <<events, polling, ready, observers, todo, at>>
      /\ UNCHANGED <<file, interest, isReady, entries, limit, got, popGuard>>
      /\ pc[t] = "pushInvalidate" /\ invalidate(Self)
  BY DEF pushInvalidate, fileVars, entryVars, readyVars, waitVars
<1>3. Moves(t, "pushNotify")
  BY <1>2 DEF pushInvalidate, Moves, Goto
<1>4. LocatedAt(t)'
  <2>1. pc'[t] = "pushNotify"
    BY <1>1, <1>3, OthersStay
  <2> QED BY <2>1 DEF LocatedAt, Polling
<1>5. \A p \in Pollees \ {Self} : ~Invalidating(p, t)
  BY <1>2 DEF Invalidating
<1>6. \A p \in Pollees : FreshAt(p)'
  BY <1>1, <1>2, <1>3, <1>5, Invalidated
<1> QED BY <1>2, <1>3, <1>4, <1>6, Signals DEF Polling
-----------------------------------------------------------------------------
(* The steps that change the ready list, the files and the entries *)

\* push adds the entry to the ready list, unless it is there.
LEMMA PushLockStep == ASSUME IInv, TypeOK', NEW t \in Tasks, pushLock(t) PROVE IInv'
<1> DEFINE e == at[t]
<1>1. Shape /\ ListExact /\ Unmade /\ TypeOK
  BY DEF IInv, Shape
<1>2. /\ UNCHANGED <<cache, events, polling, ready, observers, todo, at>>
      /\ UNCHANGED <<file, interest, limit, got, popGuard>>
      /\ pc[t] = "pushLock"
  BY DEF pushLock, polleeVars, fileVars, entryVars, waitVars
<1>3. Moves(t, "pushInvalidate")
  BY <1>2 DEF pushLock, Moves, Goto
<1>4. pc'[t] = "pushInvalidate" /\ LocatedAt(t)'
  <2>1. pc'[t] = "pushInvalidate"
    BY <1>1, <1>3, OthersStay
  <2> QED BY <2>1 DEF LocatedAt, Polling
<1>5. e \in Entries
  BY <1>1, <1>2 DEF Shape, Located, LocatedAt
<1>6. /\ entries \in Seq(Entries) /\ entries' \in Seq(Entries)
      /\ entries' = IF isReady[e] THEN entries ELSE Append(entries, e)
      /\ isReady' = [isReady EXCEPT ![e] = TRUE] /\ isReady \in [Entries -> BOOLEAN]
  BY <1>1 DEF pushLock, TypeOK
<1>7. Located'
  BY <1>1, <1>3, <1>4, LocatedKept
<1>8. Unmade'
  <2>1. file[e] # None
    BY <1>1, <1>5 DEF Unmade
  <2>2. \A x \in Entries : x # e => isReady'[x] = isReady[x]
    BY <1>6
  <2> QED BY <1>1, <1>2, <2>1, <2>2 DEF Unmade
<1>9. Popping'
  <2>1. Len(entries) <= Len(entries')
    BY <1>6, SMT
  <2> QED BY <1>1, <1>2, <1>3, <1>6, <2>1, PoppingKept DEF Polling
<1>10. \A x \in Entries : Alive(x)' <=> Alive(x)
  BY <1>2 DEF Alive
<1>11. ListExact'
  <2>1. CASE isReady[e]
    <3>1. UNCHANGED <<entries, isReady>>
      BY <1>6, <2>1
    <3> QED BY <1>1, <1>10, <3>1, ListKept
  <2>2. CASE ~isReady[e]
    <3>1. /\ Len(entries') = Len(entries) + 1 /\ entries'[Len(entries) + 1] = e
          /\ \A i \in 1 .. Len(entries) : entries'[i] = entries[i] /\ entries[i] \in Entries
          /\ DOMAIN entries = 1 .. Len(entries) /\ DOMAIN entries' = 1 .. Len(entries) + 1
          /\ Len(entries) \in Nat
      BY <1>5, <1>6, <2>2, SMT
    <3>2. \A i \in 1 .. Len(entries) : entries[i] # e
      BY <1>1, <2>2, <3>1 DEF ListExact
    <3>3. \A i, j \in DOMAIN entries' : entries'[i] = entries'[j] => i = j
      BY <1>1, <3>1, <3>2, SMT DEF ListExact
    <3>4. \A i \in DOMAIN entries' : isReady'[entries'[i]]
      BY <1>1, <1>5, <1>6, <3>1, <3>2, SMT DEF ListExact
    <3>5. ASSUME NEW x \in Entries, Alive(x)', isReady'[x] PROVE \E i \in DOMAIN entries' : entries'[i] = x
      <4>1. CASE x = e
        BY <3>1, <4>1, SMT
      <4>2. CASE x # e
        <5>1. isReady[x] /\ Alive(x)
          BY <1>6, <1>10, <3>5, <4>2
        <5>2. PICK i \in DOMAIN entries : entries[i] = x
          BY <1>1, <5>1 DEF ListExact
        <5> QED BY <3>1, <5>2, SMT
      <4> QED BY <4>1, <4>2
    <3> QED BY <3>3, <3>4, <3>5 DEF ListExact
  <2> QED BY <2>1, <2>2
<1>12. ASSUME NEW p \in Pollees PROVE FreshAt(p)'
  <2>1. CASE p = Self
    <3>1. Invalidating(p, t)'
      BY <1>4, <2>1 DEF Invalidating
    <3> QED BY <3>1, PendingKeeps
  <2>2. CASE p # Self
    <3>1. cache'[p] = cache[p] /\ Events(p)' = Events(p) /\ ~Invalidating(p, t) /\ FreshAt(p)
      BY <1>2, <2>2 DEF Events, HasEvents, Invalidating, IInv
    <3> QED BY <1>1, <1>3, <3>1, FreshElsewhere
  <2> QED BY <2>1, <2>2
<1> QED BY <1>7, <1>8, <1>9, <1>11, <1>12 DEF IInv, Shape

\* A file is closed.
LEMMA CloseStep == ASSUME IInv, TypeOK', NEW f \in Files, close(f) PROVE IInv'
<1>1. Shape /\ ListExact /\ TypeOK /\ f \in Pollees /\ f # Self
  BY Constants DEF IInv, Shape
<1>2. /\ UNCHANGED <<pc, polling, events, todo, at>>
      /\ UNCHANGED <<file, interest, isReady, entries, limit, got, popGuard>>
  BY DEF close, entryVars, readyVars, waitVars
<1>3. Located'
  BY <1>1, <1>2 DEF Shape, Located, LocatedAt
<1>4. Unmade'
  <2>1. \A g \in Files : observers'[g] \subseteq observers[g]
    BY <1>1 DEF close, TypeOK
  <2> QED BY <1>1, <1>2, <2>1 DEF Shape, Unmade
<1>5. Popping'
  BY <1>1, <1>2 DEF Shape, Popping, PoppingAt
<1>6. ListExact'
  BY <1>1, <1>2, ListKept DEF Alive
<1>7. ASSUME NEW p \in Pollees PROVE FreshAt(p)'
  <2>1. CASE p = f
    <3>1. cache'[p] = INV_STATE
      BY <1>1, <2>1 DEF close, TypeOK, PolleeTypeOK
    <3> QED BY <3>1, InvalidKeeps
  <2>2. CASE p # f
    <3>1. cache'[p] = cache[p] /\ FreshAt(p)
      BY <1>1, <2>2 DEF close, TypeOK, PolleeTypeOK, IInv
    <3>2. p # Self => ready'[p] = ready[p]
      BY <1>1, <2>2, Constants DEF close, TypeOK
    <3>3. Events(p)' = Events(p) /\ \A u \in Tasks : Invalidating(p, u) => Invalidating(p, u)'
      BY <1>2, <3>2 DEF Events, HasEvents, Invalidating
    <3> QED BY <1>2, <3>1, <3>3, QuietKeeps
  <2> QED BY <2>1, <2>2
<1> QED BY <1>3, <1>4, <1>5, <1>6, <1>7 DEF IInv, Shape

\* A new entry is made: it has not been ready.
LEMMA AddInterestStep ==
  ASSUME IInv, TypeOK', NEW c \in Controllers, NEW f \in Files, add_interest(c, f)
  PROVE  IInv'
<1> DEFINE e == CHOOSE x \in Unused : TRUE
<1>1. c \in Tasks /\ Shape /\ ListExact /\ Unmade /\ TypeOK /\ c \notin Waiters
  BY Constants DEF IInv, Shape
<1>2. e \in Entries /\ file[e] = None
  <2>1. e \in Unused
    BY DEF add_interest
  <2> QED BY <1>1, <2>1, BoundTyped DEF Unused, TypeOK
<1>3. /\ control(c, e, "update") /\ file' = [file EXCEPT ![e] = f] /\ UNCHANGED interest
  BY DEF add_interest
<1> HIDE DEF e
<1>4. /\ UNCHANGED <<cache, events, polling, ready, observers, todo>>
      /\ UNCHANGED <<interest, isReady, entries, limit, got, popGuard>>
      /\ pc[c] = "idle"
  BY <1>3 DEF control, polleeVars, fileVars, readyVars, waitVars
<1>5. Moves(c, "update") /\ at'[c] = e
  BY <1>1, <1>3, <1>4 DEF control, Moves, Goto, TypeOK
<1>6. LocatedAt(c)'
  <2>1. pc'[c] = "update"
    BY <1>1, <1>5, OthersStay
  <2> QED BY <1>2, <1>5, <2>1 DEF LocatedAt, Polling
<1>7. Located'
  BY <1>1, <1>5, <1>6, LocatedKept
<1>8. Unmade'
  <2>1. \A x \in Entries : file'[x] = None => x # e /\ file[x] = None
    BY <1>1, <1>2, <1>3, Constants, SMT DEF TypeOK
  <2>2. \A u \in Tasks : at'[u] \in {at[u], e}
    BY <1>5 DEF Moves
  <2> QED BY <1>1, <1>4, <2>1, <2>2 DEF Unmade
<1>9. Popping'
  <2>1. entries' \in Seq(Entries) /\ Len(entries) <= Len(entries')
    <3>1. entries \in Seq(Entries)
      BY <1>1 DEF TypeOK
    <3> QED BY <1>4, <3>1, SMT
  <2> QED BY <1>1, <1>4, <1>5, <2>1, PoppingKept
<1>10. ListExact'
  <2>1. \A u \in Tasks : at'[u] \in {at[u], e}
    BY <1>5 DEF Moves
  <2>2. \A x \in Entries : isReady[x] /\ Alive(x)' => Alive(x)
    BY <1>1, <1>2, <1>4, <2>1, Constants DEF Alive, Unmade
  <2> QED BY <1>1, <1>4, <2>2, ListKept
<1>11. \A p \in Pollees : FreshAt(p)'
  BY <1>1, <1>4, <1>5, FreshKept DEF IInv
<1> QED BY <1>7, <1>8, <1>9, <1>10, <1>11 DEF IInv, Shape

\* The first entry is popped, or there is none.
LEMMA PopNextStep == ASSUME IInv, TypeOK', NEW w \in Waiters, popNext(w) PROVE IInv'
<1> DEFINE left == IF limit[w] = None THEN Len(entries) ELSE limit[w]
           e == Head(entries)
<1>1. w \in Tasks /\ Shape /\ ListExact /\ Unmade /\ TypeOK /\ Popping /\ PoppingAt(w)
  BY Constants DEF IInv, Shape, Popping
<1>2. /\ pc[w] = "next" /\ popGuard \in {None, w}
      /\ UNCHANGED <<polling, events, fileVars, entryVars>>
      /\ UNCHANGED <<ready, observers, todo, file, interest>>
  BY DEF popNext, fileVars, entryVars
<1>3. CASE left = 0
  <2>1. Popped(w) /\ UNCHANGED <<cache, entries, isReady, at>>
    BY <1>3, SMT DEF popNext
  <2> QED BY <1>2, <2>1, PoppedStep
<1>4. CASE left # 0
  <2>1. /\ entries' = Tail(entries) /\ popGuard' = w /\ UNCHANGED got
        /\ limit' = [limit EXCEPT ![w] = left - 1]
        /\ IF Tail(entries) = <<>> THEN invalidate(Self) ELSE UNCHANGED cache
        /\ IF Alive(e)
           THEN /\ isReady' = [isReady EXCEPT ![e] = FALSE]
                /\ at' = [at EXCEPT ![w] = e]
                /\ Goto(w, "poll")
           ELSE UNCHANGED <<isReady, at, pc>>
    BY <1>4 DEF popNext
  <2>2. left \in Nat \ {0} /\ left <= Len(entries) /\ Len(entries) \in Nat
    <3>1. limit[w] \in Nat \cup {None} /\ Len(entries) \in Nat
      BY <1>1, SMT DEF TypeOK
    <3> QED BY <1>1, <1>4, <3>1, SMT DEF PoppingAt
  <2>3. entries \in Seq(Entries) /\ entries # <<>>
    BY <1>1, <2>2, SMT DEF TypeOK
  <2>4. /\ DOMAIN entries = 1 .. Len(entries) /\ DOMAIN entries' = 1 .. Len(entries) - 1
        /\ Len(entries') = Len(entries) - 1 /\ e = entries[1] /\ e \in Entries
        /\ \A i \in 1 .. Len(entries) - 1 : entries'[i] = entries[i + 1] /\ entries[i + 1] \in Entries
    BY <2>1, <2>3, SMT
  <2> HIDE DEF left, e
  <2>5. isReady[e] /\ file[e] # None /\ isReady \in [Entries -> BOOLEAN]
    <3>1. 1 \in DOMAIN entries
      BY <2>2, <2>4, SMT
    <3>2. isReady[e]
      BY <1>1, <2>4, <3>1 DEF ListExact
    <3> QED BY <1>1, <2>4, <3>2 DEF Unmade, TypeOK
  <2>6. \A u \in Tasks \ {w} : at'[u] = at[u] /\ polling'[u] = polling[u] /\ events'[u] = events[u]
    BY <1>1, <1>2, <2>1 DEF TypeOK
  <2>7. PICK s \in {"next", "poll"} :
          /\ Moves(w, s)
          /\ s = "poll" => Alive(e) /\ isReady' = [isReady EXCEPT ![e] = FALSE] /\ at'[w] = e
          /\ s = "next" => ~Alive(e) /\ UNCHANGED <<isReady, at>>
    <3>1. CASE Alive(e)
      <4>1. Moves(w, "poll") /\ isReady' = [isReady EXCEPT ![e] = FALSE] /\ at'[w] = e
        BY <1>1, <2>1, <2>6, <3>1 DEF Moves, Goto, TypeOK
      <4> QED BY <3>1, <4>1
    <3>2. CASE ~Alive(e)
      <4>1. pc = [u \in Tasks |-> pc[u]] /\ pc' = pc /\ UNCHANGED <<isReady, at>>
        BY <1>1, <2>1, <3>2 DEF Shape, Located
      <4>2. pc' = [pc EXCEPT ![w] = "next"]
        BY <1>1, <1>2, <4>1
      <4> QED BY <2>6, <3>2, <4>1, <4>2 DEF Moves
    <3> QED BY <3>1, <3>2
  <2>8. pc'[w] = s /\ \A u \in Tasks \ {w} : pc'[u] = pc[u]
    BY <1>1, <2>7, OthersStay
  <2>9. Located'
    <3>1. LocatedAt(w)'
      BY <2>4, <2>7, <2>8 DEF LocatedAt, Polling
    <3> QED BY <1>1, <2>7, <3>1, LocatedKept
  <2>10. \A x \in Entries : (isReady'[x] => isReady[x]) /\ (Alive(x)' => Alive(x))
    <3>1. ASSUME NEW x \in Entries PROVE isReady'[x] => isReady[x]
      BY <2>4, <2>5, <2>7
    <3>2. ASSUME NEW x \in Entries, Alive(x)' PROVE Alive(x)
      <4>1. CASE s = "next"
        BY <1>2, <2>7, <3>2, <4>1 DEF Alive
      <4>2. CASE s = "poll" /\ x = e
        BY <2>7, <4>2
      <4>3. CASE s = "poll" /\ x # e
        BY <1>2, <2>6, <2>7, <3>2, <4>3, Constants DEF Alive
      <4> QED BY <4>1, <4>2, <4>3
    <3> QED BY <3>1, <3>2
  <2>11. Unmade'
    <3>1. \A u \in Tasks : at'[u] \in {at[u], e}
      BY <2>6, <2>7
    <3> SUFFICES ASSUME NEW x \in Entries, file'[x] = None
                 PROVE  /\ x \notin interest' /\ ~isReady'[x]
                        /\ \A u \in Tasks : at'[u] # x
                        /\ \A f \in Files : x \notin observers'[f]
                        /\ \A d \in Drivers : x \notin todo'[d]
      BY DEF Unmade
    <3>2. file[x] = None /\ x # e
      BY <1>2, <2>5
    <3>3. /\ x \notin interest /\ ~isReady[x]
          /\ \A u \in Tasks : at[u] # x
          /\ \A f \in Files : x \notin observers[f]
          /\ \A d \in Drivers : x \notin todo[d]
      BY <1>1, <3>2 DEF Unmade
    <3>4. ~isReady'[x] /\ \A u \in Tasks : at'[u] # x
      BY <2>10, <3>1, <3>2, <3>3
    <3> QED BY <1>2, <3>3, <3>4
  <2>12. Popping'
    <3>1. PoppingAt(w)'
      <4>1. limit'[w] = left - 1 /\ left - 1 \in Nat
        <5>1. limit \in [Waiters -> Nat \cup {None}] /\ left - 1 \in Nat
          BY <1>1, <2>2, SMT DEF TypeOK
        <5> QED BY <2>1, <5>1
      <4>2. popGuard' = w /\ limit'[w] # None
        BY <2>1, <4>1, Constants
      <4>3. Len(entries') = Len(entries) - 1
        BY <2>4
      <4>4. limit'[w] <= Len(entries')
        BY <2>2, <4>1, <4>3, SMT
      <4> QED BY <4>2, <4>4 DEF PoppingAt
    <3>2. ASSUME NEW u \in Waiters \ {w} PROVE PoppingAt(u)'
      <4>1. PoppingAt(u) /\ limit'[u] = limit[u] /\ got'[u] = got[u] /\ popGuard # u /\ u \in Tasks
        <5>1. limit \in [Waiters -> Nat \cup {None}] /\ popGuard \in {None, w} /\ None \notin Waiters
          BY <1>1, <1>2, Constants DEF TypeOK
        <5> QED BY <1>1, <2>1, <5>1, Constants DEF Popping
      <4> QED BY <2>6, <2>8, <4>1 DEF PoppingAt
    <3> QED BY <3>1, <3>2 DEF Popping
  <2>13. ListExact'
    <3>0. DOMAIN entries = 1 .. Len(entries) /\ DOMAIN entries' = 1 .. Len(entries) - 1 /\ Len(entries) \in Nat
      BY <2>2, <2>4
    <3>1. \A i, j \in DOMAIN entries' : entries'[i] = entries'[j] => i = j
      <4> SUFFICES ASSUME NEW i \in DOMAIN entries', NEW j \in DOMAIN entries', entries'[i] = entries'[j]
                   PROVE  i = j
        OBVIOUS
      <4>1. i + 1 \in DOMAIN entries /\ j + 1 \in DOMAIN entries /\ i \in Nat /\ j \in Nat
        BY <3>0, SMT
      <4>2. entries[i + 1] = entries[j + 1]
        BY <2>4
      <4>3. i + 1 = j + 1
        BY <1>1, <4>1, <4>2 DEF ListExact
      <4> QED BY <4>1, <4>3, SMT
    <3>2. \A i \in DOMAIN entries' : isReady'[entries'[i]]
      <4> SUFFICES ASSUME NEW i \in DOMAIN entries' PROVE isReady'[entries'[i]]
        OBVIOUS
      <4>1. i + 1 \in DOMAIN entries /\ 1 \in DOMAIN entries /\ i + 1 # 1
        BY <3>0, SMT
      <4>2. entries'[i] = entries[i + 1] /\ entries'[i] \in Entries /\ e = entries[1]
        BY <2>4
      <4>3. isReady[entries'[i]] /\ entries'[i] # e
        BY <1>1, <4>1, <4>2 DEF ListExact
      <4> QED BY <2>4, <2>5, <2>7, <4>2, <4>3
    <3>3. ASSUME NEW x \in Entries, Alive(x)', isReady'[x] PROVE \E i \in DOMAIN entries' : entries'[i] = x
      <4>1. Alive(x) /\ isReady[x] /\ x # e
        BY <2>4, <2>5, <2>7, <2>10, <3>3
      <4>2. PICK i \in DOMAIN entries : entries[i] = x
        BY <1>1, <4>1 DEF ListExact
      <4>3. i # 1 /\ i - 1 \in DOMAIN entries' /\ entries'[i - 1] = x
        BY <2>2, <2>4, <4>1, <4>2, SMT
      <4> QED BY <4>3
    <3> QED BY <3>1, <3>2, <3>3 DEF ListExact
  <2>14. ASSUME NEW p \in Pollees PROVE FreshAt(p)'
    <3>1. CASE entries' = <<>>
      <4>1. invalidate(Self) /\ Self \in Pollees /\ cache \in [Pollees -> {INV_STATE} \cup IoEvents \cup Tasks]
        BY <1>1, <2>1, <3>1, Constants DEF TypeOK, PolleeTypeOK
      <4>2. CASE p = Self
        BY <4>1, <4>2, InvalidKeeps DEF invalidate
      <4>3. CASE p # Self
        <5>1. cache'[p] = cache[p] /\ Events(p)' = Events(p) /\ ~Invalidating(p, w) /\ FreshAt(p)
          BY <1>2, <4>1, <4>3 DEF invalidate, Events, HasEvents, Invalidating, IInv
        <5> QED BY <1>1, <2>7, <5>1, FreshElsewhere
      <4> QED BY <4>2, <4>3
    <3>2. CASE entries' # <<>>
      <4>1. cache' = cache /\ ((entries' = <<>>) <=> (entries = <<>>)) /\ FreshAt(p)
        BY <2>1, <2>3, <3>2 DEF IInv
      <4> QED BY <1>1, <1>2, <2>7, <4>1, FreshKept
    <3> QED BY <3>1, <3>2
  <2> QED BY <2>9, <2>11, <2>12, <2>13, <2>14 DEF IInv, Shape
<1> QED BY <1>3, <1>4

-----------------------------------------------------------------------------
(* The theorems *)

\* A new epoll file and its files are in order.
LEMMA Initial == Init => IInv
<1> SUFFICES ASSUME Init PROVE IInv
  OBVIOUS
<1>1. TypeOK
  <2>1. 0 \in 0 .. bound.changes /\ 0 \in 0 .. bound.controls
    <3>1. bound \in Bounds
      BY DEF Init
    <3>2. bound.changes \in Nat /\ bound.controls \in Nat
      BY <3>1, BoundTyped
    <3> QED BY <3>2, SMT
  <2>2. PolleeTypeOK
    BY Constants DEF Init, PolleeInit, PolleeTypeOK, IoEvents
  <2>3. FileTyped /\ EntryTyped
    BY <2>1, Constants DEF Init, FileTyped, EntryTyped, Modes
  <2>4. ReadyTyped /\ WaitTyped /\ AtTyped
    BY SMT DEF Init, ReadyTyped, WaitTyped, AtTyped
  <2>5. bound \in Bounds
    BY DEF Init
  <2> QED BY <2>2, <2>3, <2>4, <2>5 DEF TypeOK, FileTyped, EntryTyped, ReadyTyped, WaitTyped, AtTyped
<1>2. Located
  BY DEF Init, Located, LocatedAt, Polling
<1>3. Unmade /\ Popping
  BY Constants, SMT DEF Init, Unmade, Popping, PoppingAt, Polling
<1>4. ListExact
  BY SMT DEF Init, ListExact
<1>5. \A p \in Pollees : FreshAt(p)
  BY EpollAssumption DEF Init, PolleeInit, FreshAt, INV_STATE, IoEvents
<1> QED BY <1>1, <1>2, <1>3, <1>4, <1>5 DEF IInv, Shape

\* Every step of every task keeps the invariant.
LEMMA Inductive == IInv /\ [Next]_vars => IInv'
<1> SUFFICES ASSUME IInv, [Next]_vars PROVE IInv'
  OBVIOUS
<1>1. TypeOK'
  BY TypeStep DEF IInv
<1>2. CASE Begin
  BY <1>1, <1>2, ChangeStep, CloseStep, AddInterestStep, FindInterestStep, WaitStep, GiveUpStep DEF Begin
<1>3. ASSUME NEW t \in Tasks, Step(t) PROVE IInv'
  <2>1. CASE poll(t) \/ push(t) \/ pushLock(t) \/ pushInvalidate(t) \/ pushNotify(t)
    BY <1>1, <2>1, PollStep, PushStep, PushLockStep, PushInvalidateStep, PushNotifyStep
  <2>2. CASE t \in Drivers /\ (notify(t) \/ invalidateOnly(t) \/ notify_observers(t) \/ on_events(t) \/ notified(t))
    BY <1>1, <2>2, InvalidateStep, NotifyObserversStep, OnEventsStep, NotifiedStep
  <2>3. CASE t \in Controllers /\ ((\E m \in bound.modes : update(t, m))
                                   \/ register_poller(t) \/ updated(t) \/ shutdown(t) \/ unregister(t))
    BY <1>1, <2>3, UpdateStep, RegisterPollerStep, UpdatedStep, ShutdownStep, UnregisterStep
  <2>4. CASE t \in Waiters /\ (finishPop(t) \/ popNext(t) \/ entryPoll(t) \/ deleteDead(t)
                               \/ entryPolled(t) \/ registerWaiter(t) \/ selfPolled(t) \/ wake(t))
    BY <1>1, <2>4, FinishPopStep, PopNextStep, EntryPollStep, DeleteDeadStep, EntryPolledStep,
       RegisterWaiterStep, SelfPolledStep, WakeStep
  <2> QED BY <1>3, <2>1, <2>2, <2>3, <2>4 DEF Step
<1>4. CASE UNCHANGED vars
  <2>1. /\ UNCHANGED <<pc, polling, cache, events, ready, observers, todo, file, interest, isReady, entries>>
        /\ UNCHANGED <<popGuard, limit, got, at>>
    BY <1>4 DEF vars, polleeVars, fileVars, entryVars, readyVars, waitVars
  <2>2. Located' /\ Unmade' /\ Popping'
    BY <2>1 DEF IInv, Shape, Located, LocatedAt, Unmade, Popping, PoppingAt
  <2>3. ListExact'
    BY <2>1, ListKept DEF IInv, Alive
  <2>4. \A p \in Pollees : FreshAt(p)'
    BY <2>1, QuietKeeps DEF IInv, Events, HasEvents, Invalidating
  <2> QED BY <1>1, <2>2, <2>3, <2>4 DEF IInv, Shape
<1> QED BY <1>2, <1>3, <1>4 DEF Next

\* The invariant holds throughout.
LEMMA Invariance == Spec => []IInv
BY Initial, Inductive, PTL DEF Spec

\* poll_with never leaves stale events in a Pollee's cache, whoever polls,
\* notifies and invalidates it at the same time, with any number of files,
\* entries and tasks.
THEOREM CachesAreFresh == Spec => []CacheIsFresh
<1>1. IInv => CacheIsFresh
  BY DEF IInv, FreshAt, CacheIsFresh
<1> QED BY <1>1, Invariance, PTL

\* push and ReadySetPopIter keep is_ready and the ready list in step, and the
\* iterator never unwraps an entry that is not there, with any number of files,
\* entries and tasks.
THEOREM ListIsExact == Spec => []ReadyListExact
<1>1. IInv => ReadyListExact
  <2> SUFFICES ASSUME IInv PROVE ReadyListExact
    OBVIOUS
  <2>1. TypeOK /\ ListExact /\ Popping
    BY DEF IInv, Shape
  <2>2. \A e \in Entries : Alive(e) => (isReady[e] <=> \E i \in DOMAIN entries : entries[i] = e)
    BY <2>1, SMT DEF ListExact
  <2>3. \A u \in Waiters : limit[u] # None => limit[u] <= Len(entries)
    BY <2>1 DEF Popping, PoppingAt
  <2> QED BY <2>1, <2>2, <2>3 DEF ListExact, ReadyListExact
<1> QED BY <1>1, Invariance, PTL
=============================================================================
