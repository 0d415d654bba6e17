------------------------- MODULE EpollEventProofs --------------------------
(***************************************************************************)
(* The sleepers of an EpollFile are told and no event is lost, for every   *)
(* set of files, entries and tasks: on top of the invariant of EpollProofs *)
(* one for the sleepers and one for the events, each with its theorem.     *)
(***************************************************************************)
EXTENDS EpollProofs

USE Zenon

-----------------------------------------------------------------------------
(* Which task a step is of *)

\* The steps of a driver.
LEMMA DriverMoves ==
  ASSUME Shape, NEW d \in Drivers
  PROVE  /\ \A f \in Files : /\ produce(d, f) => Moves(d, "notify")
                             /\ consume(d, f) => Moves(d, "invalidate")
         /\ notify(d) => Moves(d, "notifyObservers")
         /\ invalidateOnly(d) \/ notified(d) => Moves(d, "idle")
         /\ notify_observers(d) => Moves(d, "each") \/ Moves(d, "idle")
         /\ on_events(d) => Moves(d, "push")
<1>1. d \in Tasks /\ polling \in [Tasks -> Pollees \cup {None}] /\ at \in [Tasks -> Entries \cup {None}]
  BY Constants DEF Shape, TypeOK, PolleeTypeOK
<1>2. \A f \in Files : /\ produce(d, f) => Moves(d, "notify")
                       /\ consume(d, f) => Moves(d, "invalidate")
  BY <1>1 DEF produce, consume, change, Goto, Moves
<1>3. notify(d) => Moves(d, "notifyObservers")
  BY DEF notify, Goto, Moves
<1>4. invalidateOnly(d) \/ notified(d) => Moves(d, "idle")
  BY <1>1 DEF invalidateOnly, notified, Goto, Moves
<1>5. notify_observers(d) => Moves(d, "each") \/ Moves(d, "idle")
  BY <1>1 DEF notify_observers, Goto, Moves
<1>6. on_events(d) => Moves(d, "push")
  BY <1>1 DEF on_events, Goto, Moves, polleeVars
<1> QED BY <1>2, <1>3, <1>4, <1>5, <1>6

\* The steps of a controller.
LEMMA ControllerMoves ==
  ASSUME Shape, NEW c \in Controllers
  PROVE  /\ \A e : control(c, e, "update") => Moves(c, "update")
         /\ \A e : control(c, e, "shutdown") => Moves(c, "shutdown")
         /\ \A m : update(c, m) => Moves(c, "registerEntry")
         /\ register_poller(c) => Moves(c, "load")
         /\ updated(c) => Moves(c, IF events[c] = "ready" THEN "push" ELSE "idle")
         /\ shutdown(c) => Moves(c, "unregister")
         /\ unregister(c) => Moves(c, "idle")
<1>1. /\ c \in Tasks /\ polling \in [Tasks -> Pollees \cup {None}] /\ at \in [Tasks -> Entries \cup {None}]
      /\ events \in [Tasks -> IoEvents]
  BY Constants DEF Shape, TypeOK, PolleeTypeOK
<1>2. \A e : control(c, e, "update") => Moves(c, "update")
  BY <1>1 DEF control, Goto, Moves, polleeVars
<1>3. \A e : control(c, e, "shutdown") => Moves(c, "shutdown")
  BY <1>1 DEF control, Goto, Moves, polleeVars
<1>4. \A m : update(c, m) => Moves(c, "registerEntry")
  BY DEF update, Goto, Moves, polleeVars
<1>5. register_poller(c) => Moves(c, "load")
  BY <1>1 DEF register_poller, poll_with, Goto, Moves
<1>6. updated(c) => Moves(c, IF events[c] = "ready" THEN "push" ELSE "idle")
  BY <1>1 DEF updated, Return, Goto, Moves
<1>7. shutdown(c) => Moves(c, "unregister")
  BY DEF shutdown, Goto, Moves, polleeVars
<1>8. unregister(c) => Moves(c, "idle")
  BY <1>1 DEF unregister, Goto, Moves, polleeVars
<1> QED BY <1>2, <1>3, <1>4, <1>5, <1>6, <1>7, <1>8

\* The steps of poll_with.
LEMMA PollMoves ==
  ASSUME Shape, NEW t \in Tasks, poll(t)
  PROVE  /\ UNCHANGED <<at, polling>> /\ pc[t] \in Polling \ {"polled"}
         /\ \E s \in Polling \ {"load"} : Moves(t, s)
<1>1. UNCHANGED <<at, polling>> /\ pc[t] \in Polling \ {"polled"}
  BY DEF poll, pollLoad, pollSwap, pollCache, pollCheck, Polling
<1>2. events \in [Tasks -> IoEvents]
  BY DEF Shape, TypeOK, PolleeTypeOK
<1>3. CASE pollLoad(t)
  BY <1>1, <1>2, <1>3 DEF pollLoad, Moves, Goto, Polling
<1>4. CASE pollSwap(t) \/ pollCache(t)
  BY <1>1, <1>4 DEF pollSwap, pollCache, Moves, Goto, Polling
<1>5. CASE pollCheck(t, Events(polling[t]))
  BY <1>1, <1>2, <1>5 DEF pollCheck, Moves, Goto, Polling
<1> QED BY <1>1, <1>3, <1>4, <1>5 DEF poll

\* Where push returns to.
Returns(t) == IF t \in Drivers THEN "each" ELSE IF t \in Controllers THEN "idle" ELSE "next"

\* The steps of push.
LEMMA PushMoves ==
  ASSUME Shape, NEW t \in Tasks
  PROVE  /\ push(t) => Moves(t, IF enabled[at[t]] THEN "pushLock" ELSE Returns(t))
         /\ pushLock(t) => Moves(t, "pushInvalidate")
         /\ pushInvalidate(t) => Moves(t, "pushNotify")
         /\ pushNotify(t) => Moves(t, Returns(t))
<1>1. at \in [Tasks -> Entries \cup {None}]
  BY DEF Shape, TypeOK
<1>2. Pushed(t) => pc' = [pc EXCEPT ![t] = Returns(t)] /\ at' = [at EXCEPT ![t] = None]
  <2>1. CASE t \in Drivers
    BY <2>1, Constants DEF Pushed, Goto, Returns
  <2>2. CASE t \in Controllers
    BY <2>2, Constants DEF Pushed, Goto, Returns
  <2>3. CASE t \in Waiters
    BY <2>3, Constants DEF Pushed, Goto, Returns
  <2> QED BY <2>1, <2>2, <2>3, Constants
<1>3. push(t) => Moves(t, IF enabled[at[t]] THEN "pushLock" ELSE Returns(t))
  BY <1>1, <1>2 DEF push, Goto, Moves, polleeVars
<1>4. pushLock(t) => Moves(t, "pushInvalidate")
  BY DEF pushLock, Goto, Moves, polleeVars
<1>5. pushInvalidate(t) => Moves(t, "pushNotify")
  BY DEF pushInvalidate, Goto, Moves
<1>6. pushNotify(t) => Moves(t, Returns(t))
  BY <1>1, <1>2 DEF pushNotify, Moves, polleeVars
<1> QED BY <1>3, <1>4, <1>5, <1>6

\* The steps of a waiter at an entry, and those outside pop_multi_ready.
LEMMA WaiterMoves ==
  ASSUME Shape, NEW w \in Waiters
  PROVE  /\ wait(w) \/ wake(w) => Moves(w, "next")
         /\ giveUp(w) => Moves(w, "idle")
         /\ registerWaiter(w) => Moves(w, "load")
         /\ selfPolled(w) => Moves(w, IF events[w] = "ready" THEN "next" ELSE "sleep")
         /\ entryPoll(w) => Moves(w, IF enabled[at[w]] THEN "load" ELSE "next")
         /\ deleteDead(w) => Moves(w, "next")
         /\ entryPolled(w) => Moves(w, IF events[w] = "ready" /\ mode[at[w]] = "level" THEN "push" ELSE "next")
<1>1. /\ w \in Tasks /\ polling \in [Tasks -> Pollees \cup {None}] /\ events \in [Tasks -> IoEvents]
      /\ at \in [Tasks -> Entries \cup {None}]
  BY Constants DEF Shape, TypeOK, PolleeTypeOK
<1>2. wait(w) \/ wake(w) => Moves(w, "next")
  BY DEF wait, wake, Goto, Moves, polleeVars
<1>3. giveUp(w) => Moves(w, "idle")
  BY DEF giveUp, Leave, Goto, Moves, polleeVars
<1>4. registerWaiter(w) => Moves(w, "load")
  BY <1>1 DEF registerWaiter, poll_with, Goto, Moves
<1>5. selfPolled(w) => Moves(w, IF events[w] = "ready" THEN "next" ELSE "sleep")
  BY <1>1 DEF selfPolled, Return, Goto, Moves
<1>6. entryPoll(w) => Moves(w, IF enabled[at[w]] THEN "load" ELSE "next")
  BY <1>1 DEF entryPoll, poll_with, Continue, Goto, Moves
<1>7. deleteDead(w) => Moves(w, "next")
  BY <1>1 DEF deleteDead, Continue, Goto, Moves, polleeVars
<1>8. entryPolled(w) => Moves(w, IF events[w] = "ready" /\ mode[at[w]] = "level" THEN "push" ELSE "next")
  BY <1>1 DEF entryPolled, Return, Continue, Goto, Moves
<1> QED BY <1>2, <1>3, <1>4, <1>5, <1>6, <1>7, <1>8

\* The end of pop_multi_ready.
LEMMA PoppedMoves ==
  ASSUME Shape, NEW w \in Waiters, Popped(w), UNCHANGED <<at, polling, events>>
  PROVE  Moves(w, IF got[w] > 0 THEN "idle" ELSE IF w \in pollers THEN "sleep" ELSE "register")
BY DEF Popped, Leave, Goto, Moves

\* The entry that the iterator returns or skips.
LEMMA PopMoves ==
  ASSUME Shape, NEW w \in Waiters, popNext(w), (IF limit[w] = None THEN Len(entries) ELSE limit[w]) # 0
  PROVE  Moves(w, IF Alive(Head(entries)) THEN "poll" ELSE "next")
<1>1. pc[w] = "next" /\ UNCHANGED <<polling, events>> /\ at \in [Tasks -> Entries \cup {None}]
  BY DEF popNext, Shape, TypeOK
<1>2. CASE Alive(Head(entries))
  <2>1. at' = [at EXCEPT ![w] = Head(entries)] /\ Goto(w, "poll")
    BY <1>2 DEF popNext
  <2> QED BY <1>1, <1>2, <2>1 DEF Goto, Moves
<1>3. CASE ~Alive(Head(entries))
  <2>1. UNCHANGED <<at, pc>>
    BY <1>3 DEF popNext
  <2>2. pc' = [pc EXCEPT ![w] = "next"]
    BY <1>1, <2>1, Constants DEF Shape, Located
  <2> QED BY <1>1, <1>3, <2>1, <2>2 DEF Moves
<1> QED BY <1>2, <1>3

-----------------------------------------------------------------------------
(* Sleepers *)

\* A push that has added its entry and has yet to wake the pollers.
Announcing == {"pushInvalidate", "pushNotify"}

SelfPolling(w) == pc[w] \in Polling /\ polling[w] = Self

\* A waiter whose Poller is registered and not woken, while no push is about to
\* wake it, knows of all that is in the ready list: it sleeps beside an empty
\* list, has found the epoll file ready, or has it all within its limit.
KnowsAt(w) ==
  /\ pc[w] = "sleep" => entries = <<>>
  /\ pc[w] \in {"cache", "polled"} /\ polling[w] = Self /\ entries # <<>> => events[w] = "ready"
  /\ limit[w] # None => Len(entries) <= limit[w]

ToldAt(w) ==
  /\ pc[w] \in {"idle", "register", "sleep"} \/ SelfPolling(w) => limit[w] = None
  /\ pc[w] = "sleep" \/ SelfPolling(w) => w \in pollers
  /\ w \in pollers \ woken => KnowsAt(w) \/ \E t \in Tasks : pc[t] \in Announcing

Told == \A w \in Waiters : ToldAt(w)

\* The other waiters, when t neither ends a push nor takes anything away that
\* they count on.
LEMMA ToldElsewhere ==
  ASSUME Shape, Told, NEW t \in Tasks, NEW s, Moves(t, s),
         pc[t] \in Announcing => s \in Announcing,
         \A u \in Waiters \ {t} : /\ limit'[u] = limit[u] /\ (u \in pollers' <=> u \in pollers)
                                  /\ u \in woken => u \in woken',
         \/ s \in Announcing \/ entries' = entries
         \/ entries # <<>> /\ \A u \in Waiters \ {t} : limit[u] = None
  PROVE  \A u \in Waiters \ {t} : ToldAt(u)'
<1> SUFFICES ASSUME NEW u \in Waiters \ {t} PROVE ToldAt(u)'
  OBVIOUS
<1>1. u \in Tasks \ {t} /\ ToldAt(u) /\ pc'[t] = s /\ \A v \in Tasks \ {t} : pc'[v] = pc[v]
  BY OthersStay, Constants DEF Told
<1>2. /\ pc'[u] = pc[u] /\ polling'[u] = polling[u] /\ events'[u] = events[u] /\ limit'[u] = limit[u]
      /\ SelfPolling(u)' <=> SelfPolling(u)
      /\ u \in pollers' <=> u \in pollers
      /\ u \in woken => u \in woken'
  BY <1>1 DEF Moves, SelfPolling
<1>3. ASSUME u \in pollers' \ woken' PROVE KnowsAt(u)' \/ \E v \in Tasks : pc'[v] \in Announcing
  <2>1. KnowsAt(u) \/ \E v \in Tasks : pc[v] \in Announcing
    BY <1>1, <1>2, <1>3 DEF ToldAt
  <2>2. CASE \E v \in Tasks : pc[v] \in Announcing
    <3>1. PICK v \in Tasks : pc[v] \in Announcing
      BY <2>2
    <3>2. pc'[v] \in Announcing
      BY <1>1, <3>1
    <3> QED BY <3>2
  <2>3. CASE s \in Announcing
    BY <1>1, <2>3
  <2>4. CASE KnowsAt(u) /\ entries' = entries
    BY <1>2, <2>4 DEF KnowsAt
  <2>5. CASE KnowsAt(u) /\ entries # <<>> /\ limit[u] = None
    BY <1>2, <2>5 DEF KnowsAt
  <2> QED BY <2>1, <2>2, <2>3, <2>4, <2>5
<1> QED BY <1>1, <1>2, <1>3 DEF ToldAt

\* A step of a task that is no waiter, or of a waiter that is told.
LEMMA ToldBy ==
  ASSUME Shape, Told, NEW t \in Tasks, NEW s, Moves(t, s), pc[t] \notin Announcing,
         UNCHANGED <<limit, pollers, woken, entries>>, t \in Waiters => ToldAt(t)'
  PROVE  Told'
BY ToldElsewhere DEF Told

\* A waiter that keeps its limit, or has none, and is not about to sleep.
LEMMA ToldOnward ==
  ASSUME Shape, NEW w \in Waiters, NEW s, Moves(w, s), ToldAt(w), pc[w] \notin Announcing,
         UNCHANGED <<limit, pollers, woken, entries>>,
         s \notin {"idle", "register", "sleep"}, s \in Polling => polling'[w] # Self
  PROVE  ToldAt(w)'
<1>1. w \in Tasks /\ pc'[w] = s /\ \A v \in Tasks \ {w} : pc'[v] = pc[v]
  BY OthersStay, Constants
<1>2. ~SelfPolling(w)'
  BY <1>1 DEF SelfPolling
<1>3. KnowsAt(w) => KnowsAt(w)'
  BY <1>1 DEF KnowsAt, Polling
<1>4. (\E t \in Tasks : pc[t] \in Announcing) => \E t \in Tasks : pc'[t] \in Announcing
  BY <1>1
<1> QED BY <1>1, <1>2, <1>3, <1>4 DEF ToldAt

\* Drivers and controllers leave the ready list and the waiters alone, unless
\* they push.
LEMMA ToldOutside ==
  ASSUME Shape, Told, NEW t \in Drivers \cup Controllers, NEW s, Moves(t, s), pc[t] \notin Announcing,
         UNCHANGED <<readyVars, waitVars>>
  PROVE  Told'
<1>1. t \in Tasks /\ t \notin Waiters /\ UNCHANGED <<limit, pollers, woken, entries>>
  BY Constants DEF readyVars, waitVars
<1> QED BY <1>1, ToldBy

\* poll_with: what a waiter finds in the cache or in the list is true.
LEMMA ToldPoll == ASSUME IInv, Told, NEW t \in Tasks, poll(t) PROVE Told'
<1>1. Shape /\ Self \in Pollees /\ FreshAt(Self) /\ LocatedAt(t)
  BY Constants DEF IInv, Shape, Located
<1>2. UNCHANGED <<limit, pollers, woken, entries, polling>> /\ pc[t] \in Polling \ {"polled"}
  BY <1>1, PollMoves DEF poll, readyVars, waitVars
<1>3. PICK s \in Polling \ {"load"} : Moves(t, s)
  BY <1>1, PollMoves
<1>4. pc'[t] = s /\ pc[t] \notin Announcing /\ s \in Polling
  BY <1>1, <1>2, <1>3, OthersStay DEF Polling, Announcing
<1>5. ASSUME t \in Waiters PROVE ToldAt(t)'
  <2>1. ToldAt(t)
    BY <1>5 DEF Told
  <2>2. CASE polling[t] # Self
    BY <1>1, <1>2, <1>3, <1>4, <1>5, <2>1, <2>2, ToldOnward DEF Polling
  <2>3. CASE polling[t] = Self
    <3>1. limit'[t] = None /\ t \in pollers'
      BY <1>2, <2>1, <2>3 DEF ToldAt, SelfPolling
    <3>2. \A u \in Tasks : pc[u] \in Announcing => pc'[u] \in Announcing
      BY <1>1, <1>3, <1>4, OthersStay
    <3>3. CASE \E u \in Tasks : pc[u] \in Announcing
      BY <1>4, <3>1, <3>2, <3>3 DEF ToldAt
    <3>4. CASE ~ \E u \in Tasks : pc[u] \in Announcing
      <4>1. cache[Self] \in IoEvents => cache[Self] = Events(Self)
        BY <1>1, <3>4 DEF FreshAt, Invalidating, Announcing
      <4>2. ASSUME t \notin woken, s \in {"cache", "polled"}, entries # <<>> PROVE events'[t] = "ready"
        <5>1. Events(Self) = "ready" /\ events \in [Tasks -> IoEvents]
          BY <1>1, <4>2 DEF Events, HasEvents, Shape, TypeOK, PolleeTypeOK
        <5>2. CASE pollLoad(t)
          BY <1>1, <1>3, <1>4, <2>3, <4>1, <4>2, <5>1, <5>2 DEF pollLoad, Goto, Shape, Located
        <5>3. CASE pollSwap(t)
          <6>1. pc'[t] = "check"
            BY <1>1, <5>3 DEF pollSwap, Goto, Shape, Located
          <6> QED BY <1>4, <4>2, <6>1
        <5>4. CASE pollCache(t)
          BY <1>2, <2>1, <2>3, <3>1, <3>4, <4>2, <5>4 DEF pollCache, ToldAt, KnowsAt
        <5>5. CASE pollCheck(t, Events(polling[t]))
          BY <2>3, <5>1, <5>5 DEF pollCheck
        <5> QED BY <5>2, <5>3, <5>4, <5>5 DEF poll
      <4>3. t \in pollers' \ woken' => KnowsAt(t)'
        BY <1>2, <1>4, <3>1, <4>2 DEF KnowsAt, Polling
      <4> QED BY <1>4, <3>1, <4>3 DEF ToldAt, Polling
    <3> QED BY <3>3, <3>4
  <2> QED BY <2>2, <2>3
<1> QED BY <1>1, <1>2, <1>3, <1>4, <1>5, ToldBy

\* push, and the entry that it adds.
LEMMA ToldPush ==
  ASSUME IInv, Told, NEW t \in Tasks, push(t) \/ pushLock(t) \/ pushInvalidate(t) PROVE Told'
<1>1. Shape
  BY DEF IInv
<1>2. UNCHANGED <<limit, pollers, woken, polling, events>>
  BY DEF push, pushLock, pushInvalidate, polleeVars, waitVars
<1>3. CASE push(t)
  <2>1. PICK s \in {"pushLock", "each", "idle", "next"} : Moves(t, s) /\ (t \in Waiters => s # "idle")
    BY <1>1, <1>3, PushMoves, Constants DEF Returns
  <2>2. pc[t] = "push" /\ entries' = entries /\ pc[t] \notin Announcing /\ s \notin Polling
    BY <1>3, <2>1 DEF push, readyVars, Announcing, Polling
  <2>3. t \in Waiters => ToldAt(t)'
    BY <1>1, <1>2, <2>1, <2>2, ToldOnward DEF Told
  <2> QED BY <1>1, <1>2, <2>1, <2>2, <2>3, ToldBy
<1>4. CASE pushLock(t) \/ pushInvalidate(t)
  <2>1. PICK s \in Announcing : Moves(t, s)
    BY <1>1, <1>4, PushMoves DEF Announcing
  <2>2. \A u \in Waiters \ {t} : ToldAt(u)'
    BY <1>1, <1>2, <2>1, ToldElsewhere
  <2>3. ToldAt(t)'
    <3>1. pc'[t] \in Announcing
      BY <1>1, <2>1, OthersStay
    <3> QED BY <3>1 DEF ToldAt, SelfPolling, Announcing, Polling
  <2> QED BY <2>2, <2>3 DEF Told
<1> QED BY <1>3, <1>4

\* The end of a push, which wakes every registered poller.
LEMMA ToldNotify == ASSUME IInv, Told, NEW t \in Tasks, pushNotify(t) PROVE Told'
<1>1. Shape /\ pollers' = pollers /\ woken' = woken \cup pollers /\ UNCHANGED <<polling, events, limit>>
  BY DEF IInv, pushNotify, polleeVars
<1>2. Moves(t, Returns(t)) /\ (t \in Waiters => Returns(t) = "next")
  BY <1>1, PushMoves, Constants DEF Returns
<1> SUFFICES ASSUME NEW w \in Waiters PROVE ToldAt(w)'
  BY DEF Told
<1>3. w \in Tasks /\ ToldAt(w)
  BY Constants DEF Told
<1>4. CASE w = t
  <2>1. pc'[w] = "next"
    BY <1>1, <1>2, <1>3, <1>4, OthersStay
  <2> QED BY <1>1, <2>1 DEF ToldAt, SelfPolling, Polling
<1>5. CASE w # t
  <2>1. pc'[w] = pc[w]
    BY <1>1, <1>2, <1>3, <1>5, OthersStay
  <2> QED BY <1>1, <1>3, <2>1 DEF ToldAt, SelfPolling
<1> QED BY <1>4, <1>5

\* A waiter stops or goes to sleep: only if it has been told of nothing new.
LEMMA ToldPopped ==
  ASSUME IInv, Told, NEW w \in Waiters, pc[w] = "next", Popped(w), got[w] = 0 => limit[w] = 0 \/ entries = <<>>,
         UNCHANGED <<polling, events, entries, at>>
  PROVE  Told'
<1>1. Shape /\ w \in Tasks /\ ToldAt(w)
  BY Constants DEF IInv, Told
<1>2. /\ limit \in [Waiters -> Nat \cup {None}] /\ got[w] \in Nat /\ entries \in Seq(Entries)
      /\ pollers \subseteq Waiters /\ woken \subseteq pollers
  BY <1>1 DEF Shape, TypeOK
<1>3. limit' = [limit EXCEPT ![w] = None] /\ limit'[w] = None
  BY <1>2 DEF Popped
<1>4. PICK s \in {"idle", "sleep", "register"} :
        /\ Moves(w, s) /\ \A u \in Waiters \ {w} : (u \in pollers' <=> u \in pollers) /\ (u \in woken => u \in woken')
        /\ s = "idle" => w \notin pollers'
        /\ s # "idle" => got[w] = 0 /\ (s = "sleep" <=> w \in pollers) /\ UNCHANGED <<pollers, woken>>
  <2>1. CASE got[w] > 0
    <3>1. Moves(w, "idle") /\ pollers' = pollers \ {w} /\ woken' = woken \ {w}
      BY <1>1, <2>1, PoppedMoves DEF Popped, Leave
    <3> QED BY <3>1
  <2>2. CASE ~(got[w] > 0)
    <3>1. got[w] = 0
      BY <1>2, <2>2, SMTT(20)
    <3>2. CASE w \in pollers
      <4>1. Moves(w, "sleep") /\ UNCHANGED <<pollers, woken>>
        BY <1>1, <2>2, <3>2, PoppedMoves DEF Popped
      <4> QED BY <3>1, <3>2, <4>1
    <3>3. CASE w \notin pollers
      <4>1. Moves(w, "register") /\ UNCHANGED <<pollers, woken>>
        BY <1>1, <2>2, <3>3, PoppedMoves DEF Popped
      <4> QED BY <3>1, <3>3, <4>1
    <3> QED BY <3>2, <3>3
  <2> QED BY <2>1, <2>2
<1>5. pc'[w] = s /\ \A u \in Tasks \ {w} : pc'[u] = pc[u]
  BY <1>1, <1>4, OthersStay
<1>6. \A u \in Waiters \ {w} : ToldAt(u)'
  <2>1. \A u \in Waiters \ {w} : limit'[u] = limit[u]
    BY <1>2, <1>3
  <2>2. pc[w] \notin Announcing
    BY DEF Announcing
  <2> QED BY <1>1, <1>4, <2>1, <2>2, ToldElsewhere
<1>7. ToldAt(w)'
  <2>1. CASE s # "sleep"
    BY <1>3, <1>4, <1>5, <2>1 DEF ToldAt, SelfPolling, KnowsAt, Polling
  <2>2. CASE s = "sleep"
    <3>1. w \in pollers /\ UNCHANGED <<pollers, woken>> /\ (limit[w] = 0 \/ entries = <<>>)
      BY <1>4, <2>2
    <3>2. (\E t \in Tasks : pc[t] \in Announcing) => \E t \in Tasks : pc'[t] \in Announcing
      BY <1>5 DEF Announcing
    <3>3. ASSUME w \notin woken, KnowsAt(w) PROVE entries = <<>>
      <4>1. None # 0
        BY Constants, SMTT(20)
      <4> QED BY <1>2, <3>1, <3>3, <4>1, SMTT(20) DEF KnowsAt
    <3>4. w \in pollers' \ woken' => KnowsAt(w)' \/ \E t \in Tasks : pc'[t] \in Announcing
      BY <1>1, <1>3, <1>5, <2>2, <3>1, <3>2, <3>3 DEF ToldAt, KnowsAt
    <3> QED BY <1>3, <1>5, <2>2, <3>1, <3>4 DEF ToldAt
  <2> QED BY <2>1, <2>2
<1> QED BY <1>6, <1>7 DEF Told

\* ReadySetPopIter::next and the end of pop_multi_ready.
LEMMA ToldPop == ASSUME IInv, Told, NEW w \in Waiters, finishPop(w) \/ popNext(w) PROVE Told'
<1>1. Shape /\ w \in Tasks /\ ToldAt(w) /\ Popping
  BY Constants DEF IInv, Told, Shape
<1>2. /\ limit \in [Waiters -> Nat \cup {None}] /\ got[w] \in Nat /\ entries \in Seq(Entries)
  BY <1>1 DEF Shape, TypeOK
<1>3. CASE finishPop(w)
  <2>1. got[w] = 0 => limit[w] = 0
    BY <1>2, <1>3, EpollAssumption, SMTT(20) DEF finishPop
  <2> QED BY <1>3, <2>1, ToldPopped DEF finishPop, polleeVars
<1>4. CASE popNext(w)
  <2> DEFINE left == IF limit[w] = None THEN Len(entries) ELSE limit[w]
  <2>1. pc[w] = "next" /\ limit[w] # 0 /\ popGuard \in {None, w} /\ UNCHANGED <<polling, events>>
    BY <1>4 DEF popNext
  <2>2. CASE left = 0 /\ Popped(w) /\ UNCHANGED <<entries, at>>
    <3>1. entries = <<>>
      BY <1>2, <2>1, <2>2, SMTT(20)
    <3> QED BY <2>1, <2>2, <3>1, ToldPopped
  <2>3. CASE left > 0 /\ entries' = Tail(entries)
    <3>1. /\ limit' = [limit EXCEPT ![w] = left - 1] /\ UNCHANGED <<pollers, woken>>
      BY <1>4, <2>3, SMTT(20) DEF popNext
    <3>2. PICK s \in {"poll", "next"} : Moves(w, s)
      <4>1. left # 0
        BY <1>2, <2>3, SMTT(20)
      <4> QED BY <1>1, <1>4, <4>1, PopMoves
    <3>3. pc'[w] = s /\ (\A u \in Tasks \ {w} : pc'[u] = pc[u]) /\ pc[w] \notin Announcing
      BY <1>1, <2>1, <3>2, OthersStay DEF Announcing
    <3>4. \A u \in Waiters \ {w} : limit'[u] = limit[u] /\ limit[u] = None
      <4>1. \A u \in Waiters \ {w} : limit'[u] = limit[u]
        BY <1>2, <3>1
      <4>2. \A u \in Waiters \ {w} : limit[u] = None
        BY <1>1, <2>1, Constants DEF Popping, PoppingAt
      <4> QED BY <4>1, <4>2
    <3>5. entries # <<>>
      <4>1. limit[w] # None => limit[w] <= Len(entries)
        BY <1>1 DEF Popping, PoppingAt
      <4> QED BY <1>2, <2>3, <4>1, SMTT(20)
    <3>6. \A u \in Waiters \ {w} : ToldAt(u)'
      BY <1>1, <3>1, <3>2, <3>3, <3>4, <3>5, ToldElsewhere
    <3>7. KnowsAt(w) => Len(entries') <= limit'[w]
      <4>1. KnowsAt(w) => Len(entries) <= left
        BY <1>2, SMTT(20) DEF KnowsAt
      <4>2. left \in Nat
        BY <1>2, SMTT(20)
      <4>3. limit'[w] = left - 1
        BY <1>2, <3>1
      <4> HIDE DEF left
      <4> QED BY <1>2, <2>3, <3>5, <4>1, <4>2, <4>3, SMTT(20)
    <3>8. KnowsAt(w) => KnowsAt(w)'
      BY <3>3, <3>7 DEF KnowsAt
    <3>9. (\E t \in Tasks : pc[t] \in Announcing) => \E t \in Tasks : pc'[t] \in Announcing
      BY <3>3
    <3>10. ToldAt(w)'
      BY <1>1, <3>1, <3>3, <3>8, <3>9 DEF ToldAt, SelfPolling, Polling
    <3> QED BY <3>6, <3>10 DEF Told
  <2> QED BY <1>4, <2>2, <2>3 DEF popNext
<1> QED BY <1>3, <1>4

\* The other steps of a waiter.
LEMMA ToldWait ==
  ASSUME IInv, Told, NEW w \in Waiters,
         wait(w) \/ wake(w) \/ giveUp(w) \/ registerWaiter(w) \/ selfPolled(w)
  PROVE  Told'
<1>1. Shape /\ w \in Tasks /\ ToldAt(w) /\ UNCHANGED <<at, entries, limit>>
  BY Constants DEF IInv, Told, wait, wake, giveUp, registerWaiter, selfPolled, readyVars, waitVars
<1>3. limit[w] = None
  BY <1>1 DEF wait, wake, giveUp, registerWaiter, selfPolled, ToldAt, SelfPolling, Polling
<1>4. PICK s \in {"next", "idle", "load", "sleep"} :
        /\ Moves(w, s)
        /\ s = "load" => registerWaiter(w)
        /\ s = "sleep" => selfPolled(w) /\ events[w] # "ready"
  <2>1. CASE wait(w) \/ wake(w) \/ giveUp(w)
    BY <1>1, <2>1, WaiterMoves
  <2>2. CASE registerWaiter(w)
    BY <1>1, <2>2, WaiterMoves
  <2>3. CASE selfPolled(w)
    BY <1>1, <2>3, WaiterMoves
  <2> QED BY <2>1, <2>2, <2>3
<1>5. pc'[w] = s /\ (\A u \in Tasks \ {w} : pc'[u] = pc[u]) /\ pc[w] \notin Announcing
  BY <1>1, <1>4, OthersStay DEF wait, wake, giveUp, registerWaiter, selfPolled, Announcing
<1>6. \A u \in Waiters \ {w} : ToldAt(u)'
  <2>1. \A u \in Waiters \ {w} : (u \in pollers' <=> u \in pollers) /\ (u \in woken => u \in woken')
    BY DEF wait, wake, giveUp, Leave, registerWaiter, selfPolled, waitVars
  <2> QED BY <1>1, <1>4, <1>5, <2>1, ToldElsewhere
<1>7. ToldAt(w)'
  <2>1. CASE s = "sleep"
    <3>1. selfPolled(w) /\ events[w] # "ready" /\ UNCHANGED <<pollers, woken>>
      BY <1>4, <2>1 DEF selfPolled, waitVars
    <3>2. w \in pollers
      BY <1>1, <3>1 DEF ToldAt, SelfPolling, selfPolled, Polling
    <3>3. KnowsAt(w) => entries = <<>>
      BY <3>1 DEF KnowsAt, selfPolled
    <3>4. (\E t \in Tasks : pc[t] \in Announcing) => \E t \in Tasks : pc'[t] \in Announcing
      BY <1>5
    <3>5. w \in pollers' \ woken' => KnowsAt(w)' \/ \E t \in Tasks : pc'[t] \in Announcing
      BY <1>1, <1>3, <1>5, <2>1, <3>1, <3>3, <3>4 DEF ToldAt, KnowsAt
    <3> QED BY <1>1, <1>3, <1>5, <2>1, <3>1, <3>2, <3>5 DEF ToldAt
  <2>2. CASE s # "sleep"
    <3>1. KnowsAt(w)'
      BY <1>1, <1>3, <1>4, <1>5, <2>2 DEF KnowsAt
    <3>2. s = "load" => w \in pollers'
      BY <1>4 DEF registerWaiter
    <3> QED BY <1>1, <1>3, <1>4, <1>5, <2>2, <3>1, <3>2 DEF ToldAt, SelfPolling, Polling
  <2> QED BY <2>1, <2>2
<1> QED BY <1>6, <1>7 DEF Told

\* The steps of a waiter at an entry.
LEMMA ToldEntry ==
  ASSUME IInv, Told, NEW w \in Waiters, entryPoll(w) \/ deleteDead(w) \/ entryPolled(w)
  PROVE  Told'
<1>1. Shape /\ w \in Tasks /\ ToldAt(w) /\ UNCHANGED <<entries, limit, pollers, woken>>
  BY Constants DEF IInv, Told, entryPoll, deleteDead, entryPolled, readyVars, waitVars
<1>3. PICK s \in {"next", "load", "push"} : Moves(w, s) /\ (s = "load" => polling'[w] # Self)
  <2>1. CASE entryPoll(w)
    <3>1. polling \in [Tasks -> Pollees \cup {None}] /\ open \subseteq Files
      BY <1>1 DEF Shape, TypeOK, PolleeTypeOK
    <3>2. enabled[at[w]] => polling'[w] # Self
      BY <1>1, <2>1, <3>1, Constants DEF entryPoll, poll_with
    <3> QED BY <1>1, <2>1, <3>2, WaiterMoves
  <2>2. CASE deleteDead(w) \/ entryPolled(w)
    BY <1>1, <2>2, WaiterMoves
  <2> QED BY <2>1, <2>2
<1>4. pc[w] \notin Announcing
  BY DEF entryPoll, deleteDead, entryPolled, Announcing
<1>5. ToldAt(w)'
  BY <1>1, <1>3, <1>4, ToldOnward DEF Polling
<1> QED BY <1>1, <1>3, <1>4, <1>5, ToldBy

\* Every step.
LEMMA ToldStep == ASSUME IInv, Told, [Next]_vars PROVE Told'
<1>1. Shape
  BY DEF IInv
<1>2. CASE \E d \in Drivers, f \in Files : produce(d, f) \/ consume(d, f)
  <2>1. PICK d \in Drivers, f \in Files : produce(d, f) \/ consume(d, f)
    BY <1>2
  <2>2. pc[d] \notin Announcing /\ UNCHANGED <<readyVars, waitVars>>
    BY <2>1 DEF produce, consume, change, Announcing
  <2> QED BY <1>1, <2>1, <2>2, DriverMoves, ToldOutside
<1>3. CASE \E f \in Files : close(f)
  <2>1. UNCHANGED <<pc, polling, events, limit, pollers, woken, entries>>
    BY <1>3 DEF close, readyVars, waitVars
  <2> QED BY <2>1 DEF Told, ToldAt, SelfPolling, KnowsAt
<1>4. CASE \E c \in Controllers : \E e : control(c, e, "update") \/ control(c, e, "shutdown")
  <2>0. PICK c \in Controllers : \E e : control(c, e, "update") \/ control(c, e, "shutdown")
    BY <1>4
  <2>1. PICK e : control(c, e, "update") \/ control(c, e, "shutdown")
    BY <2>0
  <2>2. pc[c] \notin Announcing /\ UNCHANGED <<readyVars, waitVars>>
    BY <2>1 DEF control, Announcing
  <2> QED BY <1>1, <2>1, <2>2, ControllerMoves, ToldOutside
<1>5. CASE Begin
  <2>1. \A c \in Controllers : /\ \A f : add_interest(c, f) => \E e : control(c, e, "update")
                               /\ \A e : mod_interest(c, e) => control(c, e, "update")
                               /\ \A e : del_interest(c, e) => control(c, e, "shutdown")
    BY DEF add_interest, mod_interest, del_interest
  <2> QED BY <1>2, <1>3, <1>4, <1>5, <2>1, ToldWait DEF Begin
<1>6. ASSUME NEW t \in Tasks, Step(t) PROVE Told'
  <2>1. CASE poll(t) \/ push(t) \/ pushLock(t) \/ pushInvalidate(t) \/ pushNotify(t)
    BY <2>1, ToldPoll, ToldPush, ToldNotify
  <2>2. CASE t \in Drivers /\ (notify(t) \/ invalidateOnly(t) \/ notify_observers(t) \/ on_events(t) \/ notified(t))
    <3>1. pc[t] \notin Announcing /\ UNCHANGED <<readyVars, waitVars>>
      BY <2>2 DEF notify, invalidateOnly, notify_observers, on_events, notified, Announcing
    <3> QED BY <1>1, <2>2, <3>1, DriverMoves, ToldOutside
  <2>3. CASE t \in Controllers /\ ((\E m \in bound.modes : update(t, m))
                                   \/ register_poller(t) \/ updated(t) \/ shutdown(t) \/ unregister(t))
    <3>1. pc[t] \notin Announcing /\ UNCHANGED <<readyVars, waitVars>>
      BY <2>3 DEF update, register_poller, updated, shutdown, unregister, Announcing
    <3> QED BY <1>1, <2>3, <3>1, ControllerMoves, ToldOutside
  <2>4. CASE t \in Waiters /\ (finishPop(t) \/ popNext(t) \/ entryPoll(t) \/ deleteDead(t)
                               \/ entryPolled(t) \/ registerWaiter(t) \/ selfPolled(t) \/ wake(t))
    BY <2>4, ToldPop, ToldEntry, ToldWait
  <2> QED BY <1>6, <2>1, <2>2, <2>3, <2>4 DEF Step
<1>7. CASE UNCHANGED vars
  <2>1. UNCHANGED <<pc, polling, events, limit, pollers, woken, entries>>
    BY <1>7 DEF vars, polleeVars, readyVars, waitVars
  <2> QED BY <2>1 DEF Told, ToldAt, SelfPolling, KnowsAt
<1> QED BY <1>5, <1>6, <1>7 DEF Next

\* A thread that sleeps in epoll_wait beside a ready list with entries has been
\* woken, or is about to be, with any number of files, entries and tasks.
THEOREM SleepersKnow == Spec => []SleepersAreTold
<1>1. Init => Told
  BY Constants DEF Init, Told, ToldAt, SelfPolling, Polling
<1>2. IInv /\ Told => SleepersAreTold
  BY DEF Told, ToldAt, KnowsAt, SleepersAreTold, Announcing
<1>3. IInv /\ Told /\ [Next]_vars => Told'
  BY ToldStep
<1> QED BY <1>1, <1>2, <1>3, Invariance, PTL DEF Spec

-----------------------------------------------------------------------------
(* Events *)

\* Closed files have no events; a file's observers are entries of it; an event
\* is owed only while the file has it.
Recorded ==
  /\ \A f \in Files : ready[f] => f \in open
  /\ \A f \in Files : \A e \in observers[f] : file[e] = f
  /\ \A e \in owed : e \in Entries /\ file[e] \in Files /\ ready[file[e]]

\* Whoever polls the file of an entry, or registers or unregisters it, holds
\* the entry's lock.
LockedAt(t) ==
  /\ pc[t] \in {"registerEntry", "unregister"} \/ (pc[t] \in Polling /\ polling[t] # Self) =>
       inner[at[t]] = t
  /\ pc[t] = "unregister" => ~enabled[at[t]]

Locked == \A t \in Tasks : LockedAt(t)

\* The controller that has enabled the entry or is going to disable it.
Minds(c, e) == at[c] = e /\ pc[c] \in {"registerEntry", "shutdown"} \cup Polling

\* An enabled entry is in the interest list, or a controller is at work on it.
Enabled == \A e \in Entries : enabled[e] => e \in interest \/ \E c \in Controllers : Minds(c, e)

\* An enabled entry observes its file, or is about to.
Observed ==
  \A e \in Entries : enabled[e] /\ file[e] \in open =>
    e \in observers[file[e]] \/ \E c \in Controllers : at[c] = e /\ pc[c] = "registerEntry"

\* A driver has observers to notify only while it notifies those of its file.
QueuedAt(d) ==
  \A e \in todo[d] : file[e] = polling[d] /\ pc[d] \in {"each", "push", "pushLock"} \cup Announcing

Queued == \A d \in Drivers : QueuedAt(d)

\* Where no events are cached, or are about to be, for a file that has some,
\* the driver that has produced them is about to invalidate the cache.
NoneAt(f) ==
  /\ ready[f]
  /\ \/ cache[f] = "none"
     \/ \E t \in Tasks : pc[t] = "cache" /\ polling[t] = f /\ cache[f] = t /\ events[t] = "none"
  => \E d \in Drivers : pc[d] = "notify" /\ polling[d] = f

Noticed == \A f \in Files : NoneAt(f)

\* The task is going to push the entry, to poll its file or to disable it, or
\* to notify it.  A wait that has read the events is no longer one of them.
Handles(t, e) ==
  \/ /\ at[t] = e
     /\ \/ pc[t] \in {"push", "pushLock", "poll", "registerEntry", "shutdown"}
        \/ /\ polling[t] = file[e]
           /\ \/ pc[t] \in {"load", "swap", "check", "checkOnly"}
              \/ t \notin Waiters /\ pc[t] \in {"cache", "polled"} /\ events[t] = "ready"
  \/ /\ t \in Drivers
     /\ e \in todo[t] \/ (pc[t] \in {"notify", "notifyObservers"} /\ polling[t] = file[e])

Listed(e) == \E i \in DOMAIN entries : entries[i] = e
InHand(e) == Listed(e) \/ \E t \in Tasks : Handles(t, e)

\* An event that is owed is in the ready list or in somebody's hands.
Owing == \A e \in owed : enabled[e] => InHand(e)

Watch == Recorded /\ Locked /\ Enabled /\ Observed /\ Queued
Watching == Watch /\ Noticed /\ Owing

\* What most steps leave alone.
Quiet == UNCHANGED <<open, observers, file, interest, enabled, inner>>

\* A step at the entry e: the others are as they were.
OnlyEntry(e) ==
  \A x \in Entries \ {e} : /\ inner'[x] = inner[x] /\ enabled'[x] = enabled[x]
                           /\ x \in interest' <=> x \in interest
                           /\ \A f \in Files : x \in observers'[f] <=> x \in observers[f]

\* All about the other tasks is as it was.
LEMMA OthersSame ==
  ASSUME Shape, NEW t \in Tasks, NEW s, Moves(t, s)
  PROVE  /\ pc'[t] = s
         /\ \A u \in Tasks \ {t} : /\ pc'[u] = pc[u] /\ at'[u] = at[u]
                                   /\ polling'[u] = polling[u] /\ events'[u] = events[u]
BY OthersStay DEF Moves

\* A quiet step of t keeps Watch if t goes on with its poll of a file, or does
\* not poll one, and is not done with an entry that it minds.
LEMMA WatchKept ==
  ASSUME Shape, Watch, NEW t \in Tasks, NEW s, Moves(t, s), Quiet, Recorded',
         pc[t] \notin {"registerEntry", "shutdown"}, s \notin {"registerEntry", "unregister"},
         \/ pc[t] \in Polling /\ s \in Polling /\ at'[t] = at[t] /\ polling'[t] = polling[t]
         \/ (t \in Controllers => pc[t] \notin Polling) /\ (s \in Polling => polling'[t] = Self),
         \A d \in Drivers \ {t} : todo'[d] = todo[d], t \in Drivers => QueuedAt(t)'
  PROVE  Watch'
<1>1. /\ pc'[t] = s /\ \A u \in Tasks \ {t} : pc'[u] = pc[u] /\ at'[u] = at[u] /\ polling'[u] = polling[u]
  BY OthersSame
<1>2. UNCHANGED <<open, observers, file, interest, enabled, inner>>
  BY DEF Quiet
<1>4. Locked'
  <2> SUFFICES ASSUME NEW u \in Tasks PROVE LockedAt(u)'
    BY DEF Locked
  <2>1. LockedAt(u)
    BY DEF Watch, Locked
  <2>2. CASE u = t
    BY <1>1, <1>2, <2>1, <2>2 DEF LockedAt
  <2>3. CASE u # t
    BY <1>1, <1>2, <2>1, <2>3 DEF LockedAt
  <2> QED BY <2>2, <2>3
<1>5. \A c \in Controllers, e \in Entries : Minds(c, e) => Minds(c, e)'
  <2> SUFFICES ASSUME NEW c \in Controllers, NEW e \in Entries, Minds(c, e) PROVE Minds(c, e)'
    OBVIOUS
  <2>1. CASE c = t
    BY <1>1, <2>1 DEF Minds
  <2>2. CASE c # t
    BY <1>1, <2>2, Constants DEF Minds
  <2> QED BY <2>1, <2>2
<1>6. Enabled'
  BY <1>2, <1>5 DEF Watch, Enabled
<1>7. Observed'
  <2>1. \A c \in Controllers : pc[c] = "registerEntry" => pc'[c] = "registerEntry" /\ at'[c] = at[c]
    BY <1>1, Constants
  <2> SUFFICES ASSUME NEW e \in Entries, enabled[e], file[e] \in open, e \notin observers[file[e]]
               PROVE  \E c \in Controllers : at'[c] = e /\ pc'[c] = "registerEntry"
    BY <1>2 DEF Observed
  <2>2. PICK c \in Controllers : at[c] = e /\ pc[c] = "registerEntry"
    BY DEF Watch, Observed
  <2> QED BY <2>1, <2>2
<1>8. Queued'
  <2> SUFFICES ASSUME NEW d \in Drivers PROVE QueuedAt(d)'
    BY DEF Queued
  <2>1. CASE d = t
    BY <2>1
  <2>2. CASE d # t
    BY <1>1, <1>2, <2>2, Constants DEF Watch, Queued, QueuedAt
  <2> QED BY <2>1, <2>2
<1> QED BY <1>4, <1>6, <1>7, <1>8 DEF Watch

\* No events are cached for f by the step, and no notification of f ends.
LEMMA NoneKept ==
  ASSUME Shape, NEW f \in Files, NoneAt(f), NEW t \in Tasks, NEW s, Moves(t, s),
         ready'[f] => ready[f], cache'[f] \in {cache[f], INV_STATE},
         s = "cache" /\ polling'[t] = f => ~(events'[t] = "none" /\ ready'[f]),
         pc[t] = "notify" => polling[t] # f
  PROVE  NoneAt(f)'
<1>1. /\ pc'[t] = s
      /\ \A u \in Tasks \ {t} : pc'[u] = pc[u] /\ polling'[u] = polling[u] /\ events'[u] = events[u]
  BY OthersSame
<1>2. INV_STATE \notin Tasks /\ INV_STATE # "none"
  BY EpollAssumption DEF INV_STATE
<1>3. ASSUME ready'[f], cache'[f] = "none" \/ \E u \in Tasks : pc'[u] = "cache" /\ polling'[u] = f /\ cache'[f] = u /\ events'[u] = "none"
      PROVE  \E d \in Drivers : pc'[d] = "notify" /\ polling'[d] = f
  <2>1. cache'[f] = cache[f]
    BY <1>2, <1>3
  <2>2. cache[f] = "none" \/ \E u \in Tasks : pc[u] = "cache" /\ polling[u] = f /\ cache[f] = u /\ events[u] = "none"
    BY <1>1, <1>3, <2>1
  <2>3. PICK d \in Drivers : pc[d] = "notify" /\ polling[d] = f
    BY <1>3, <2>2 DEF NoneAt
  <2> QED BY <1>1, <2>3, Constants
<1> QED BY <1>3 DEF NoneAt

\* Owing, when t hands over what it has in hand.
LEMMA OwingKept ==
  ASSUME Shape, Owing, NEW t \in Tasks, NEW s, Moves(t, s), \A e \in owed : file'[e] = file[e],
         \A d \in Drivers \ {t} : todo'[d] = todo[d],
         \A e \in owed' : enabled'[e] =>
           \/ InHand(e)'
           \/ e \in owed /\ enabled[e] /\ (Listed(e) => InHand(e)') /\ (Handles(t, e) => InHand(e)')
  PROVE  Owing'
<1>1. /\ pc'[t] = s
      /\ \A u \in Tasks \ {t} : /\ pc'[u] = pc[u] /\ at'[u] = at[u]
                                /\ polling'[u] = polling[u] /\ events'[u] = events[u]
  BY OthersSame
<1>2. \A e \in owed, u \in Tasks \ {t} : Handles(u, e) => Handles(u, e)'
  BY <1>1 DEF Handles
<1> SUFFICES ASSUME NEW e \in owed', enabled'[e] PROVE InHand(e)'
  BY DEF Owing
<1>3. CASE e \in owed /\ enabled[e] /\ (Listed(e) => InHand(e)') /\ (Handles(t, e) => InHand(e)')
  <2>1. InHand(e)
    BY <1>3 DEF Owing
  <2>2. CASE \E u \in Tasks \ {t} : Handles(u, e)
    BY <1>2, <2>2 DEF InHand
  <2> QED BY <1>3, <2>1, <2>2 DEF InHand
<1> QED BY <1>3

\* A step of t at its entry e, whose lock nobody else has, keeps Watch if it
\* does so for t and e.
LEMMA WatchAt ==
  ASSUME Shape, Watch, NEW t \in Tasks, t \notin Drivers, NEW s, Moves(t, s), NEW e \in Entries, at[t] = e,
         UNCHANGED <<open, file, todo>>, inner[e] \in {None, t}, Recorded', LockedAt(t)',
         OnlyEntry(e),
         enabled'[e] => \/ e \in interest'
                        \/ t \in Controllers /\ Minds(t, e)'
                        \/ t \notin Controllers /\ enabled[e] /\ interest' = interest,
         enabled'[e] /\ file[e] \in open =>
           \/ e \in observers'[file[e]]
           \/ t \in Controllers /\ at'[t] = e /\ s = "registerEntry"
           \/ enabled[e] /\ pc[t] # "registerEntry" /\ observers' = observers
  PROVE  Watch'
<1>1. /\ pc'[t] = s /\ \A u \in Tasks \ {t} : pc'[u] = pc[u] /\ at'[u] = at[u] /\ polling'[u] = polling[u]
  BY OthersSame, SMTT(20)
<1>2. ASSUME NEW u \in Tasks \ {t} PROVE LockedAt(u)'
  <2>1. LockedAt(u) /\ LocatedAt(u) /\ u # None
    BY Constants DEF Watch, Locked, Shape, Located
  <2>2. pc[u] \in {"registerEntry", "unregister"} \/ (pc[u] \in Polling /\ polling[u] # Self) =>
          at[u] \in Entries \ {e}
    BY <2>1 DEF LockedAt, LocatedAt
  <2>3. CASE at[u] \in Entries \ {e}
    <3>1. inner'[at[u]] = inner[at[u]] /\ enabled'[at[u]] = enabled[at[u]]
      BY <2>3 DEF OnlyEntry
    <3> QED BY <1>1, <2>1, <3>1 DEF LockedAt
  <2>4. CASE at[u] \notin Entries \ {e}
    BY <1>1, <2>2, <2>4 DEF LockedAt
  <2> QED BY <2>3, <2>4
<1>3. Locked'
  BY <1>2 DEF Locked
<1>4. \A c \in Controllers \ {t}, x \in Entries : Minds(c, x) => Minds(c, x)'
  BY <1>1, Constants DEF Minds
<1>5. Enabled'
  <2> SUFFICES ASSUME NEW x \in Entries, enabled'[x]
               PROVE  x \in interest' \/ \E c \in Controllers : Minds(c, x)'
    BY DEF Enabled
  <2>1. CASE x = e /\ t \notin Controllers /\ enabled[e] /\ interest' = interest
    BY <1>4, <2>1 DEF Watch, Enabled
  <2>2. CASE x # e
    <3>1. enabled[x] /\ ~Minds(t, x) /\ (x \in interest' <=> x \in interest)
      BY <2>2 DEF Minds, OnlyEntry
    <3> QED BY <1>4, <3>1 DEF Watch, Enabled
  <2>3. CASE x = e /\ ~(t \notin Controllers /\ enabled[e] /\ interest' = interest)
    BY <2>3
  <2> QED BY <2>1, <2>2, <2>3
<1>6. Observed'
  <2> SUFFICES ASSUME NEW x \in Entries, enabled'[x], file[x] \in open, x \notin observers'[file[x]]
               PROVE  \E c \in Controllers : at'[c] = x /\ pc'[c] = "registerEntry"
    BY DEF Observed
  <2>1. file[x] \in Files
    BY DEF Shape, TypeOK
  <2>2. CASE x = e /\ t \in Controllers /\ at'[t] = e /\ s = "registerEntry"
    BY <1>1, <2>2
  <2>3. CASE enabled[x] /\ x \notin observers[file[x]] /\ (x = e => pc[t] # "registerEntry")
    <3>1. PICK c \in Controllers : at[c] = x /\ pc[c] = "registerEntry"
      BY <2>3 DEF Watch, Observed
    <3>2. c # t
      BY <2>3, <3>1
    <3> QED BY <1>1, <3>1, <3>2, Constants
  <2>4. x # e => enabled[x] /\ x \notin observers[file[x]]
    BY <2>1 DEF OnlyEntry
  <2> QED BY <2>2, <2>3, <2>4
<1>7. Queued'
  <2> SUFFICES ASSUME NEW d \in Drivers PROVE QueuedAt(d)'
    BY DEF Queued
  <2>1. d \in Tasks \ {t}
    BY Constants
  <2>2. QueuedAt(d)
    BY DEF Watch, Queued
  <2>3. UNCHANGED <<todo[d], file, polling[d], pc[d]>>
    BY <1>1, <2>1
  <2> QED BY <2>2, <2>3 DEF QueuedAt
<1> QED BY <1>3, <1>5, <1>6, <1>7 DEF Watch

\* The files' events are as they were, and no more of them are owed.
LEMMA RecordedKept ==
  ASSUME Watch, UNCHANGED <<ready, open, observers, file>>, owed' \subseteq owed
  PROVE  Recorded'
BY DEF Watch, Recorded

\* A driver that has nobody to notify.
LEMMA NothingQueued ==
  ASSUME Watch, NEW t \in Tasks, pc[t] \notin {"each", "push", "pushLock"} \cup Announcing
  PROVE  t \in Drivers => todo[t] = {}
BY DEF Watch, Queued, QueuedAt

\* poll_with: an event that is owed is found, or its driver is about to notify.
LEMMA WatchPoll == ASSUME IInv, Watching, NEW t \in Tasks, poll(t) PROVE Watching'
<1>1. Shape /\ Watch /\ Owing
  BY DEF IInv, Watching
<1>2. /\ Quiet /\ UNCHANGED <<ready, todo, entries, at, polling>> /\ pc[t] \in Polling \ {"polled"}
      /\ owed' \subseteq owed /\ (Finds(t) => at[t] \notin owed')
  BY <1>1, PollMoves DEF Quiet, poll, fileVars, entryVars, readyVars
<1>3. PICK s \in Polling \ {"load"} : Moves(t, s)
  BY <1>1, PollMoves
<1>4. /\ cache \in [Pollees -> {INV_STATE} \cup IoEvents \cup Tasks] /\ events \in [Tasks -> IoEvents]
      /\ pc = [u \in Tasks |-> pc[u]] /\ t \notin IoEvents /\ polling[t] \in Pollees
  BY <1>1, <1>2, EpollAssumption DEF Shape, TypeOK, PolleeTypeOK, Located, LocatedAt
<1>5. pc'[t] = s /\ \A u \in Tasks \ {t} : pc'[u] = pc[u] /\ polling'[u] = polling[u] /\ events'[u] = events[u]
  BY <1>1, <1>3, OthersSame
<1>6. t \in Drivers => todo[t] = {}
  BY <1>1, <1>2, NothingQueued DEF Polling, Announcing
<1>7. Watch'
  <2>1. Recorded'
    BY <1>1, <1>2, RecordedKept DEF Quiet
  <2>2. pc[t] \notin {"registerEntry", "shutdown"} /\ s \notin {"registerEntry", "unregister"} /\ s \in Polling
    BY <1>2, <1>3 DEF Polling
  <2>3. t \in Drivers => QueuedAt(t)'
    BY <1>2, <1>6 DEF QueuedAt
  <2> QED BY <1>1, <1>2, <1>3, <2>1, <2>2, <2>3, WatchKept
<1>8. ASSUME NEW f \in Files PROVE NoneAt(f)'
  <2>1. NoneAt(f) /\ f \in Pollees /\ pc[t] # "notify" /\ ready' = ready
    BY <1>2, Constants DEF Watching, Noticed, Polling
  <2>2. CASE s # "cache" /\ cache'[f] = cache[f]
    BY <1>1, <1>3, <2>1, <2>2, NoneKept
  <2>3. CASE pollLoad(t)
    <3>1. pc'[t] # "cache" /\ cache' = cache
      BY <1>4, <2>3 DEF pollLoad, Goto
    <3> QED BY <1>5, <2>2, <3>1
  <2>4. CASE pollSwap(t)
    <3>1. pc'[t] = "check" /\ cache' = [cache EXCEPT ![polling[t]] = t]
      BY <1>4, <2>4 DEF pollSwap, Goto
    <3>2. CASE f = polling[t]
      <4>1. cache'[f] = t /\ t # "none"
        BY <1>4, <3>1, <3>2 DEF IoEvents
      <4> QED BY <3>1, <4>1 DEF NoneAt
    <3>3. CASE f # polling[t]
      BY <1>4, <1>5, <2>1, <2>2, <3>1, <3>3
    <3> QED BY <3>2, <3>3
  <2>5. CASE pollCache(t)
    <3>1. pc[t] = "cache" /\ pc'[t] = "polled"
      BY <1>4, <2>5 DEF pollCache, Goto
    <3>2. CASE cache'[f] = cache[f]
      BY <1>5, <2>2, <3>1, <3>2
    <3>3. CASE cache'[f] # cache[f]
      <4>1. f = polling[t] /\ cache[f] = t /\ cache'[f] = events[t] /\ events[t] \notin Tasks
        BY <1>4, <2>1, <2>5, <3>3, EpollAssumption DEF pollCache
      <4>2. ASSUME ready[f], events[t] = "none" PROVE \E d \in Drivers : pc'[d] = "notify" /\ polling'[d] = f
        <5>1. PICK d \in Drivers : pc[d] = "notify" /\ polling[d] = f
          BY <2>1, <3>1, <4>1, <4>2 DEF NoneAt
        <5>2. d \in Tasks \ {t}
          BY <2>1, <5>1, Constants
        <5> QED BY <1>5, <5>1, <5>2
      <4> QED BY <2>1, <4>1, <4>2 DEF NoneAt
    <3> QED BY <3>2, <3>3
  <2>6. CASE pollCheck(t, Events(polling[t]))
    <3>1. cache' = cache /\ events'[t] = Events(polling[t])
      BY <1>4, <2>6 DEF pollCheck
    <3>2. polling'[t] = f => ~(events'[t] = "none" /\ ready'[f])
      BY <1>2, <2>1, <3>1, Constants DEF Events, HasEvents
    <3> QED BY <1>1, <1>3, <2>1, <3>1, <3>2, NoneKept
  <2> QED BY <2>3, <2>4, <2>5, <2>6 DEF poll
<1>9. Owing'
  <2>1. UNCHANGED <<enabled, file, todo>>
    BY <1>2 DEF Quiet
  <2>2. ASSUME NEW e \in owed', enabled[e], Handles(t, e) PROVE InHand(e)'
    <3>1. e \in owed /\ file[e] \in Files /\ ready[file[e]] /\ file[e] # Self
      BY <1>1, <1>2, Constants DEF Watch, Recorded
    <3>2. /\ at[t] = e /\ polling[t] = file[e]
          /\ pc[t] = "cache" => events[t] = "ready" /\ t \notin Waiters
      BY <1>2, <1>6, <2>2 DEF Handles, Polling
    <3>3. at'[t] = e /\ polling'[t] = file'[e]
      BY <1>2, <2>1, <3>2
    <3>8. pc[t] # "cache" /\ events'[t] = "ready" => t \notin Waiters
      BY <1>2, <3>2 DEF Finds
    <3>4. CASE pollLoad(t)
      <4>1. CASE cache[polling[t]] = "none"
        <5>1. PICK d \in Drivers : pc[d] = "notify" /\ polling[d] = file[e]
          BY <3>1, <3>2, <4>1 DEF Watching, Noticed, NoneAt
        <5>2. d \in Tasks /\ d # t
          BY <1>2, <5>1, Constants DEF Polling
        <5>3. Handles(d, e)'
          BY <1>5, <2>1, <5>1, <5>2 DEF Handles
        <5> QED BY <5>2, <5>3 DEF InHand
      <4>2. CASE cache[polling[t]] = "ready"
        <5>1. pc[t] # "cache" /\ pc'[t] = "polled" /\ events'[t] = "ready"
          BY <1>4, <3>4, <4>2 DEF pollLoad, Goto, IoEvents
        <5> QED BY <3>3, <3>8, <5>1 DEF InHand, Handles
      <4>3. CASE cache[polling[t]] \notin IoEvents
        <5>1. pc'[t] \in {"swap", "checkOnly"}
          BY <1>4, <3>4, <4>3 DEF pollLoad, Goto
        <5> QED BY <3>3, <5>1 DEF InHand, Handles
      <4> QED BY <4>1, <4>2, <4>3 DEF IoEvents
    <3>5. CASE pollSwap(t)
      <4>1. pc'[t] = "check"
        BY <1>4, <3>5 DEF pollSwap, Goto
      <4> QED BY <3>3, <4>1 DEF InHand, Handles
    <3>6. CASE pollCache(t)
      <4>1. pc'[t] = "polled" /\ events'[t] = "ready" /\ t \notin Waiters
        BY <1>4, <3>2, <3>6 DEF pollCache, Goto
      <4> QED BY <3>3, <4>1 DEF InHand, Handles
    <3>7. CASE pollCheck(t, Events(polling[t]))
      <4>1. pc[t] # "cache" /\ pc'[t] \in {"cache", "polled"} /\ events'[t] = Events(polling[t])
        BY <1>4, <3>7 DEF pollCheck, Goto
      <4>2. events'[t] = "ready"
        BY <3>1, <3>2, <4>1 DEF Events, HasEvents
      <4> QED BY <3>3, <3>8, <4>1, <4>2 DEF InHand, Handles
    <3> QED BY <3>4, <3>5, <3>6, <3>7 DEF poll
  <2>3. \A e \in owed' : enabled'[e] =>
          e \in owed /\ enabled[e] /\ (Listed(e) => InHand(e)') /\ (Handles(t, e) => InHand(e)')
    BY <1>2, <2>1, <2>2 DEF InHand, Listed
  <2> QED BY <1>1, <1>3, <2>1, <2>3, OwingKept
<1> QED BY <1>7, <1>8, <1>9 DEF Watching, Noticed

\* A quiet step outside the poll of a file: what is left to show is that the
\* step hands over what is listed and what t has in hand.
LEMMA WatchQuiet ==
  ASSUME Shape, Watching, NEW t \in Tasks, NEW s, Moves(t, s), Quiet, UNCHANGED <<ready, owed>>,
         pc[t] \notin {"registerEntry", "shutdown"}, s \notin {"registerEntry", "unregister", "cache"},
         t \in Controllers => pc[t] \notin Polling, s \in Polling => polling'[t] = Self,
         \A f \in Files : cache'[f] \in {cache[f], INV_STATE},
         pc[t] = "notify" => cache'[polling[t]] = INV_STATE,
         \A d \in Drivers \ {t} : todo'[d] = todo[d], t \in Drivers => QueuedAt(t)',
         \A e \in owed : enabled[e] /\ (Listed(e) \/ Handles(t, e)) => InHand(e)'
  PROVE  Watching'
<1>1. UNCHANGED <<open, observers, file, enabled>> /\ Watch /\ Owing
  BY DEF Quiet, Watching
<1>2. Recorded'
  BY <1>1, RecordedKept
<1>3. Watch'
  BY <1>1, <1>2, WatchKept
<1>4. ASSUME NEW f \in Files PROVE NoneAt(f)'
  <2>1. NoneAt(f) /\ ready' = ready
    BY DEF Watching, Noticed
  <2>2. CASE pc[t] = "notify" /\ polling[t] = f
    <3>1. cache'[f] = INV_STATE /\ INV_STATE \notin Tasks /\ INV_STATE # "none"
      BY <2>2, EpollAssumption DEF INV_STATE
    <3> QED BY <3>1 DEF NoneAt
  <2>3. CASE ~(pc[t] = "notify" /\ polling[t] = f)
    BY <2>1, <2>3, NoneKept
  <2> QED BY <2>2, <2>3
<1>5. Owing'
  <2>1. \A e \in owed' : enabled'[e] =>
          e \in owed /\ enabled[e] /\ (Listed(e) => InHand(e)') /\ (Handles(t, e) => InHand(e)')
    BY <1>1
  <2> QED BY <1>1, <2>1, OwingKept
<1> QED BY <1>3, <1>4, <1>5 DEF Watching, Noticed

\* Within push, a driver goes on with the observers that it has to notify.
LEMMA QueueKept ==
  ASSUME Shape, Watch, NEW t \in Drivers, NEW s \in {"each", "push", "pushLock"} \cup Announcing, Moves(t, s),
         UNCHANGED <<todo, file, polling>>
  PROVE  QueuedAt(t)'
<1>1. t \in Tasks /\ QueuedAt(t)
  BY Constants DEF Watch, Queued
<1>2. pc'[t] = s
  BY <1>1, OthersSame
<1> QED BY <1>1, <1>2 DEF QueuedAt

\* An entry that is enabled lives, so that is_ready tells whether it is listed.
LEMMA EnabledListed ==
  ASSUME ListExact, Watch, NEW e \in Entries, enabled[e], isReady[e]
  PROVE  Listed(e)
<1>1. Alive(e)
  BY DEF Watch, Enabled, Minds, Alive
<1> QED BY <1>1 DEF ListExact, Listed

\* ReadySet::push: what it has in hand gets into the ready list.
LEMMA WatchPush ==
  ASSUME IInv, Watching, NEW t \in Tasks, push(t) \/ pushLock(t) \/ pushInvalidate(t) \/ pushNotify(t)
  PROVE  Watching'
<1>1. Shape /\ ListExact /\ Watch /\ cache \in [Pollees -> {INV_STATE} \cup IoEvents \cup Tasks] /\ entries \in Seq(Entries)
  BY DEF IInv, Watching, Shape, TypeOK, PolleeTypeOK
<1>2. PICK s \in {"pushLock", "pushInvalidate", "pushNotify", Returns(t)} : Moves(t, s)
  BY <1>1, PushMoves
<1>3. /\ Quiet /\ UNCHANGED <<ready, owed, todo, polling>>
      /\ pc[t] \in {"push", "pushLock", "pushInvalidate", "pushNotify"}
  BY DEF Quiet, push, pushLock, pushInvalidate, pushNotify, fileVars, entryVars, polleeVars
<1>4. \A f \in Files : cache'[f] = cache[f]
  BY <1>1, Constants DEF push, pushLock, pushInvalidate, pushNotify, polleeVars, invalidate
<1>5. s \notin Polling \cup {"registerEntry", "unregister"} /\ pc[t] \notin Polling
  BY <1>2, <1>3 DEF Returns, Polling
<1>6. t \in Drivers => QueuedAt(t)'
  <2> HAVE t \in Drivers
  <2>1. s \in {"each", "push", "pushLock"} \cup Announcing
    BY <1>2 DEF Returns, Announcing
  <2>2. UNCHANGED file
    BY <1>3 DEF Quiet
  <2> QED BY <1>1, <1>2, <1>3, <2>1, <2>2, QueueKept
<1>7. ASSUME NEW e \in owed, enabled[e], Listed(e) PROVE Listed(e)'
  <2>1. CASE entries' = entries
    BY <1>7, <2>1 DEF Listed
  <2>2. CASE entries' # entries
    <3>1. entries' = Append(entries, at[t]) /\ at[t] \in Entries
      BY <1>1, <2>2 DEF push, pushLock, pushInvalidate, pushNotify, readyVars, Shape, Located, LocatedAt
    <3>2. \A i \in DOMAIN entries : i \in DOMAIN entries' /\ entries'[i] = entries[i]
      BY <1>1, <3>1, SMTT(20)
    <3> QED BY <1>7, <3>2 DEF Listed
  <2> QED BY <2>1, <2>2
<1>8. ASSUME NEW e \in owed, enabled[e], Handles(t, e) PROVE InHand(e)'
  <2>1. UNCHANGED file /\ e \in Entries
    BY <1>1, <1>3 DEF Quiet, Watch, Recorded
  <2>2. CASE t \in Drivers /\ e \in todo[t]
    BY <1>3, <2>2 DEF InHand, Handles
  <2>3. CASE at[t] = e /\ pc[t] \in {"push", "pushLock"}
    <3>1. CASE push(t)
      <4>1. Moves(t, "pushLock") /\ UNCHANGED at
        BY <1>1, <1>8, <2>3, <3>1, PushMoves DEF push
      <4>2. pc'[t] = "pushLock"
        BY <1>1, <4>1, OthersSame
      <4> QED BY <2>3, <4>1, <4>2 DEF InHand, Handles
    <3>2. CASE pushLock(t)
      <4>1. CASE isReady[e]
        <5>1. Listed(e) /\ entries' = entries
          BY <1>1, <1>8, <2>1, <2>3, <3>2, <4>1, EnabledListed DEF pushLock
        <5> QED BY <5>1 DEF InHand, Listed
      <4>2. CASE ~isReady[e]
        <5>1. entries' = Append(entries, e)
          BY <2>3, <3>2, <4>2 DEF pushLock
        <5>2. Len(entries) + 1 \in DOMAIN entries' /\ entries'[Len(entries) + 1] = e
          BY <1>1, <2>1, <5>1, SMTT(20)
        <5> QED BY <5>2 DEF InHand, Listed
      <4> QED BY <4>1, <4>2
    <3> QED BY <2>3, <3>1, <3>2 DEF pushInvalidate, pushNotify
  <2> QED BY <1>3, <1>8, <2>2, <2>3 DEF Handles
<1>9. \A e \in owed : enabled[e] /\ (Listed(e) \/ Handles(t, e)) => InHand(e)'
  BY <1>7, <1>8 DEF InHand
<1>10. /\ pc[t] \notin {"registerEntry", "shutdown"} /\ s \notin {"registerEntry", "unregister", "cache"}
       /\ t \in Controllers => pc[t] \notin Polling
       /\ s \in Polling => polling'[t] = Self
       /\ \A f \in Files : cache'[f] \in {cache[f], INV_STATE}
       /\ pc[t] = "notify" => cache'[polling[t]] = INV_STATE
       /\ \A d \in Drivers \ {t} : todo'[d] = todo[d]
  BY <1>3, <1>4, <1>5 DEF Polling
<1> QED BY <1>1, <1>2, <1>3, <1>6, <1>9, <1>10, WatchQuiet

\* Pollee::notify and ::invalidate: all enabled entries of the file are notified,
\* but for one that is about to be registered and polls the file after that.
LEMMA WatchNotify ==
  ASSUME IInv, Watching, NEW d \in Drivers,
         notify(d) \/ invalidateOnly(d) \/ notify_observers(d) \/ on_events(d) \/ notified(d)
  PROVE  Watching'
<1>1. /\ Shape /\ Watch /\ Recorded /\ QueuedAt(d) /\ d \in Tasks
      /\ cache \in [Pollees -> {INV_STATE} \cup IoEvents \cup Tasks]
      /\ polling \in [Tasks -> Pollees \cup {None}] /\ at \in [Tasks -> Entries \cup {None}]
      /\ todo \in [Drivers -> SUBSET Entries] /\ observers \in [Files -> SUBSET Entries]
  BY Constants DEF IInv, Watching, Watch, Queued, Shape, TypeOK, PolleeTypeOK
<1>2. PICK s \in {"notifyObservers", "idle", "each", "push"} : Moves(d, s)
  BY <1>1, DriverMoves
<1>3. /\ Quiet /\ UNCHANGED <<ready, owed, entries>>
      /\ pc[d] \in {"notify", "invalidate", "notifyObservers", "each"}
      /\ pc[d] \in {"notify", "invalidate", "notifyObservers"} => polling[d] \in Files
  BY <1>1 DEF Quiet, notify, invalidateOnly, notify_observers, on_events, notified, fileVars, entryVars,
              readyVars, Shape, Located, LocatedAt
<1>4. /\ pc'[d] = s
      /\ \A u \in Tasks \ {d} : pc'[u] = pc[u] /\ at'[u] = at[u] /\ polling'[u] = polling[u]
  BY <1>1, <1>2, OthersSame
<1>5. UNCHANGED <<file, open, observers, enabled>>
  BY <1>3 DEF Quiet
<1>6. pc[d] # "each" => todo[d] = {}
  BY <1>1, <1>3, NothingQueued DEF Announcing
<1>7. \A e \in owed : e \in Entries /\ file[e] \in Files /\ ready[file[e]] /\ file[e] \in open
  BY <1>1 DEF Recorded
<1>8. /\ \A f \in Files : cache'[f] \in {cache[f], INV_STATE}
      /\ pc[d] = "notify" => cache'[polling[d]] = INV_STATE
  <2>1. CASE notify(d) \/ invalidateOnly(d)
    BY <1>1, <1>3, <2>1, Constants DEF notify, invalidateOnly, invalidate
  <2>2. CASE notify_observers(d) \/ on_events(d) \/ notified(d)
    BY <2>2 DEF notify_observers, on_events, notified, polleeVars
  <2> QED BY <2>1, <2>2
<1> DEFINE Goal == /\ \A u \in Drivers \ {d} : todo'[u] = todo[u]
                   /\ QueuedAt(d)'
                   /\ \A e \in owed : enabled[e] /\ Handles(d, e) => InHand(e)'
<1>9. Goal
  <2>1. CASE notify(d)
    <3>1. UNCHANGED <<todo, polling>> /\ pc[d] = "notify" /\ pc'[d] = "notifyObservers"
      BY <1>1, <2>1, DriverMoves, OthersSame DEF notify, fileVars
    <3>2. QueuedAt(d)'
      BY <1>6, <3>1 DEF QueuedAt
    <3>3. \A e \in owed : Handles(d, e) => Handles(d, e)'
      BY <1>5, <1>6, <3>1 DEF Handles
    <3> QED BY <1>1, <3>1, <3>2, <3>3 DEF InHand
  <2>2. CASE invalidateOnly(d) \/ notified(d)
    <3>1. UNCHANGED todo /\ pc[d] \in {"invalidate", "each"} /\ todo[d] = {}
      BY <1>6, <2>2 DEF invalidateOnly, notified, fileVars
    <3>2. QueuedAt(d)' /\ \A e \in owed : ~Handles(d, e)
      BY <3>1 DEF QueuedAt, Handles
    <3> QED BY <3>1, <3>2
  <2>3. CASE notify_observers(d)
    <3>1. pc[d] = "notifyObservers" /\ todo[d] = {} /\ polling[d] \in Files
      BY <1>3, <1>6, <2>3 DEF notify_observers
    <3>2. \/ observers[polling[d]] = {} /\ todo' = todo
          \/ /\ todo' = [todo EXCEPT ![d] = observers[polling[d]]]
             /\ UNCHANGED polling /\ Goto(d, "each")
      BY <2>3 DEF notify_observers
    <3>3. todo'[d] = observers[polling[d]] /\ \A u \in Drivers \ {d} : todo'[u] = todo[u]
      BY <1>1, <3>1, <3>2
    <3>4. observers[polling[d]] # {} => pc'[d] = "each" /\ UNCHANGED polling
      BY <1>1, <3>2 DEF Shape, Located, Goto
    <3>5. QueuedAt(d)'
      <4>1. ASSUME NEW e \in todo'[d] PROVE file'[e] = polling'[d] /\ pc'[d] = "each"
        <5>1. e \in observers[polling[d]]
          BY <3>3
        <5>2. \A f \in Files : \A x \in observers[f] : file[x] = f
          BY <1>1 DEF Recorded
        <5>3. file[e] = polling[d] /\ observers[polling[d]] # {}
          BY <3>1, <5>1, <5>2
        <5> QED BY <1>5, <3>4, <5>3
      <4> QED BY <4>1 DEF QueuedAt
    <3>6. ASSUME NEW e \in owed, enabled[e], Handles(d, e) PROVE InHand(e)'
      <4>1. polling[d] = file[e]
        BY <3>1, <3>6 DEF Handles
      <4>2. CASE e \in observers[file[e]]
        BY <1>1, <3>3, <4>1, <4>2 DEF InHand, Handles
      <4>3. CASE e \notin observers[file[e]]
        <5>1. PICK c \in Controllers : at[c] = e /\ pc[c] = "registerEntry"
          BY <1>1, <1>7, <3>6, <4>3 DEF Watch, Observed
        <5>2. c \in Tasks \ {d}
          BY <5>1, Constants
        <5> QED BY <1>4, <5>1, <5>2 DEF InHand, Handles
      <4> QED BY <4>2, <4>3
    <3> QED BY <3>3, <3>5, <3>6
  <2>4. CASE on_events(d)
    <3>1. /\ pc[d] = "each" /\ UNCHANGED polling /\ pc'[d] = "push"
      BY <1>1, <2>4, DriverMoves, OthersSame DEF on_events, polleeVars
    <3>2. PICK x \in todo[d] : at' = [at EXCEPT ![d] = x] /\ todo' = [todo EXCEPT ![d] = @ \ {x}]
      BY <2>4 DEF on_events
    <3>3. at'[d] = x /\ todo'[d] = todo[d] \ {x} /\ \A u \in Drivers \ {d} : todo'[u] = todo[u]
      BY <1>1, <3>2
    <3>4. QueuedAt(d)'
      BY <1>1, <1>5, <3>1, <3>3 DEF QueuedAt
    <3>5. \A e \in owed : Handles(d, e) => Handles(d, e)'
      BY <3>1, <3>3 DEF Handles
    <3> QED BY <1>1, <3>3, <3>4, <3>5 DEF InHand
  <2> QED BY <2>1, <2>2, <2>3, <2>4
<1>10. \A e \in owed : enabled[e] /\ (Listed(e) \/ Handles(d, e)) => InHand(e)'
  BY <1>3, <1>9 DEF InHand, Listed
<1>11. /\ pc[d] \notin {"registerEntry", "shutdown"} /\ s \notin {"registerEntry", "unregister", "cache"}
       /\ d \in Controllers => pc[d] \notin Polling
       /\ s \in Polling => polling'[d] = Self
  BY <1>2, <1>3 DEF Polling
<1> QED BY <1>1, <1>2, <1>3, <1>8, <1>9, <1>10, <1>11, WatchQuiet

\* A quiet step of a waiter that has no entry in hand, after which the ready
\* list is as it was.
LEMMA WatchFree ==
  ASSUME Shape, Watching, NEW t \in Tasks, t \in Waiters, NEW s, Moves(t, s), Quiet,
         UNCHANGED <<ready, owed, todo, entries, cache>>,
         pc[t] \in {"idle", "register", "sleep", "next"} \/ (pc[t] = "polled" /\ polling[t] = Self),
         s \in {"idle", "register", "sleep", "next"} \/ (s = "load" /\ polling'[t] = Self)
  PROVE  Watching'
<1>1. /\ pc[t] \notin {"registerEntry", "shutdown"} /\ s \notin {"registerEntry", "unregister", "cache"}
      /\ t \in Controllers => pc[t] \notin Polling
      /\ s \in Polling => polling'[t] = Self
      /\ pc[t] # "notify" /\ t \notin Drivers
      /\ \A f \in Files : cache'[f] \in {cache[f], INV_STATE}
  BY Constants DEF Polling
<1>2. ASSUME NEW e \in owed PROVE ~Handles(t, e)
  <2>1. file[e] # Self /\ t \notin Drivers
    BY Constants DEF Watching, Watch, Recorded
  <2> QED BY <2>1 DEF Handles
<1>3. \A e \in owed : enabled[e] /\ (Listed(e) \/ Handles(t, e)) => InHand(e)'
  BY <1>2 DEF InHand, Listed
<1> QED BY <1>1, <1>3, WatchQuiet

\* The steps of wait that have no entry at hand.
LEMMA WatchWait ==
  ASSUME Shape, Watching, NEW w \in Waiters,
         \/ wait(w) \/ giveUp(w) \/ wake(w) \/ registerWaiter(w) \/ selfPolled(w)
         \/ Popped(w) /\ pc[w] = "next" /\ UNCHANGED <<polleeVars, fileVars, entryVars, entries, at, owed>>
  PROVE  Watching'
<1>1. /\ w \in Tasks /\ w \notin Drivers /\ w \notin Controllers
      /\ polling \in [Tasks -> Pollees \cup {None}]
  BY Constants DEF Shape, TypeOK, PolleeTypeOK
<1>2. Quiet /\ UNCHANGED <<ready, owed, todo, entries, cache>>
  BY DEF Quiet, wait, giveUp, wake, registerWaiter, selfPolled, fileVars, entryVars, readyVars, polleeVars
<1>3. pc[w] \in {"idle", "register", "sleep", "next"} \/ (pc[w] = "polled" /\ polling[w] = Self)
  BY DEF wait, giveUp, wake, registerWaiter, selfPolled
<1>4. CASE Popped(w) /\ UNCHANGED <<polleeVars, fileVars, entryVars, entries, at, owed>>
  <2>1. PICK s \in {"idle", "sleep", "register"} : Moves(w, s)
    BY <1>4, PoppedMoves DEF polleeVars
  <2> QED BY <1>1, <1>2, <1>3, <2>1, WatchFree
<1>5. CASE registerWaiter(w)
  <2>1. Moves(w, "load") /\ polling'[w] = Self
    BY <1>1, <1>5, WaiterMoves DEF registerWaiter, poll_with
  <2> QED BY <1>1, <1>2, <1>3, <2>1, WatchFree
<1>6. CASE wait(w) \/ giveUp(w) \/ wake(w) \/ selfPolled(w)
  <2>1. PICK s \in {"idle", "sleep", "next"} : Moves(w, s)
    BY <1>6, WaiterMoves
  <2> QED BY <1>1, <1>2, <1>3, <2>1, WatchFree
<1> QED BY <1>4, <1>5, <1>6

\* The iterator takes an entry that is enabled into its hands.
LEMMA WatchPop == ASSUME IInv, Watching, NEW w \in Waiters, finishPop(w) \/ popNext(w) PROVE Watching'
<1>1. /\ Shape /\ w \in Tasks /\ Popping /\ Watch /\ w \notin Drivers /\ w \notin Controllers
      /\ cache \in [Pollees -> {INV_STATE} \cup IoEvents \cup Tasks] /\ at \in [Tasks -> Entries \cup {None}]
      /\ limit \in [Waiters -> Nat \cup {None}] /\ entries \in Seq(Entries)
  BY Constants DEF IInv, Shape, Watching, TypeOK, PolleeTypeOK
<1> DEFINE left == IF limit[w] = None THEN Len(entries) ELSE limit[w]
<1>2. CASE finishPop(w)
  <2>1. pc[w] = "next" /\ Popped(w) /\ UNCHANGED <<polleeVars, fileVars, entryVars, entries, at, owed>>
    BY <1>2 DEF finishPop
  <2> QED BY <1>1, <2>1, WatchWait
<1>3. CASE popNext(w) /\ left = 0
  <2>1. pc[w] = "next" /\ UNCHANGED <<polling, events, fileVars, entryVars, owed>>
    BY <1>3 DEF popNext
  <2>2. Popped(w) /\ UNCHANGED <<cache, entries, at>>
    BY <1>3, SMTT(20) DEF popNext
  <2>3. UNCHANGED <<polleeVars, fileVars, entryVars, entries, at, owed>>
    BY <2>1, <2>2 DEF polleeVars
  <2> QED BY <1>1, <2>1, <2>2, <2>3, WatchWait
<1>4. CASE popNext(w) /\ left # 0
  <2>1. pc[w] = "next" /\ UNCHANGED <<polling, events, fileVars, entryVars, owed>>
    BY <1>4 DEF popNext
  <2>2. /\ entries' = Tail(entries) /\ cache' \in {cache, [cache EXCEPT ![Self] = INV_STATE]}
        /\ Alive(Head(entries)) => at' = [at EXCEPT ![w] = Head(entries)]
    BY <1>4 DEF popNext, invalidate
  <2>3. entries # <<>>
    <3>1. limit[w] # None => limit[w] <= Len(entries)
      BY <1>1 DEF Popping, PoppingAt
    <3> QED BY <1>1, <1>4, <3>1, SMTT(20)
  <2>4. Moves(w, IF Alive(Head(entries)) THEN "poll" ELSE "next")
    BY <1>1, <1>4, PopMoves
  <2>5. PICK s \in {"poll", "next"} : Moves(w, s) /\ (Alive(Head(entries)) => s = "poll")
    BY <2>4
  <2>6. Quiet /\ UNCHANGED <<ready, todo>>
    BY <2>1 DEF Quiet, fileVars, entryVars
  <2>7. /\ pc[w] \notin {"registerEntry", "shutdown"} /\ s \notin {"registerEntry", "unregister", "cache"}
        /\ w \in Controllers => pc[w] \notin Polling
        /\ s \in Polling => polling'[w] = Self
        /\ \A f \in Files : cache'[f] \in {cache[f], INV_STATE}
        /\ pc[w] = "notify" => cache'[polling[w]] = INV_STATE
        /\ \A d \in Drivers \ {w} : todo'[d] = todo[d]
    BY <1>1, <2>1, <2>2, <2>5, <2>6, Constants DEF Polling
  <2>8. ASSUME NEW e \in owed, enabled[e], Listed(e) \/ Handles(w, e) PROVE InHand(e)'
    <3>1. ~Handles(w, e) /\ e \in Entries
      BY <1>1, <2>1 DEF Handles, Watch, Recorded
    <3>2. PICK i \in DOMAIN entries : entries[i] = e
      BY <2>8, <3>1 DEF Listed
    <3>3. CASE i = 1
      <4>1. Head(entries) = e
        BY <1>1, <2>3, <3>2, <3>3, SMTT(20)
      <4>2. Alive(e)
        BY <1>1, <2>8, <3>1 DEF Watch, Enabled, Minds, Alive
      <4>3. at'[w] = e /\ pc'[w] = "poll"
        BY <1>1, <2>2, <2>5, <4>1, <4>2, OthersSame
      <4> QED BY <1>1, <4>3 DEF InHand, Handles
    <3>4. CASE i # 1
      <4>1. i - 1 \in DOMAIN entries' /\ entries'[i - 1] = e
        BY <1>1, <2>2, <2>3, <3>2, <3>4, SMTT(20)
      <4> QED BY <4>1 DEF InHand, Listed
    <3> QED BY <3>3, <3>4
  <2> QED BY <1>1, <2>1, <2>5, <2>6, <2>7, <2>8, WatchQuiet
<1> QED BY <1>2, <1>3, <1>4

\* Events come, and their driver is going to notify; or they go.
LEMMA WatchChange ==
  ASSUME Shape, Watching, NEW d \in Drivers, NEW f \in Files, produce(d, f) \/ consume(d, f)
  PROVE  Watching'
<1>1. /\ Watch /\ Owing /\ Recorded /\ d \in Tasks /\ d \notin Controllers /\ ready \in [Files -> BOOLEAN]
      /\ polling \in [Tasks -> Pollees \cup {None}] /\ file \in [Entries -> Files \cup {None}]
  BY Constants DEF Watching, Watch, Shape, TypeOK, PolleeTypeOK
<1>2. Quiet /\ UNCHANGED <<open, observers, file, enabled, todo, cache, entries>> /\ f \in open /\ pc[d] = "idle"
  BY DEF produce, consume, change, Quiet, entryVars, readyVars
<1>3. PICK s \in {"notify", "invalidate"} : Moves(d, s) /\ (produce(d, f) => s = "notify")
  BY DriverMoves
<1>4. /\ \A g \in Files \ {f} : ready'[g] = ready[g]
      /\ \A e \in owed' : e \in owed \/ e \in Of(f)
      /\ polling'[d] = f /\ todo[d] = {} /\ pc'[d] = s
  <2>1. \A g \in Files \ {f} : ready'[g] = ready[g]
    BY <1>1 DEF produce, consume
  <2>2. polling'[d] = f /\ \A e \in owed' : e \in owed \/ e \in Of(f)
    BY <1>1 DEF produce, consume, change
  <2> QED BY <1>1, <1>2, <1>3, <2>1, <2>2, OthersSame, NothingQueued DEF Announcing
<1>5. \/ ready'[f] /\ produce(d, f)
      \/ ~ready'[f] /\ \A e \in owed' : e \notin Of(f)
  BY <1>1 DEF produce, consume
<1>6. Recorded'
  <2>1. \A g \in Files : ready'[g] => g \in open
    BY <1>1, <1>2, <1>4 DEF Recorded
  <2>2. ASSUME NEW e \in owed' PROVE e \in Entries /\ file[e] \in Files /\ ready'[file[e]]
    <3>1. CASE e \in Of(f)
      BY <1>5, <2>2, <3>1 DEF Of
    <3>2. CASE e \notin Of(f)
      <4>1. e \in owed
        BY <1>4, <2>2, <3>2
      <4>2. e \in Entries /\ file[e] \in Files \ {f} /\ ready[file[e]]
        BY <1>1, <3>2, <4>1 DEF Recorded, Of
      <4> QED BY <1>4, <4>2
    <3> QED BY <3>1, <3>2
  <2> QED BY <1>1, <1>2, <2>1, <2>2 DEF Recorded
<1>7. Watch'
  <2>1. QueuedAt(d)'
    BY <1>2, <1>4 DEF QueuedAt
  <2>2. /\ pc[d] \notin {"registerEntry", "shutdown"} /\ s \notin {"registerEntry", "unregister"}
        /\ s \in Polling => polling'[d] = Self
        /\ \A u \in Drivers \ {d} : todo'[u] = todo[u]
    BY <1>2, <1>3 DEF Polling
  <2> QED BY <1>1, <1>2, <1>3, <1>6, <2>1, <2>2, WatchKept
<1>8. ASSUME NEW g \in Files PROVE NoneAt(g)'
  <2>1. NoneAt(g) /\ pc[d] # "notify" /\ s # "cache"
    BY <1>2, <1>3 DEF Watching, Noticed
  <2>2. CASE g = f /\ produce(d, f)
    BY <1>3, <1>4, <2>2 DEF NoneAt
  <2>3. CASE ~(g = f /\ produce(d, f))
    <3>1. ready'[g] => ready[g]
      BY <1>4, <1>5, <2>3
    <3> QED BY <1>1, <1>2, <1>3, <2>1, <3>1, NoneKept
  <2> QED BY <2>2, <2>3
<1>9. Owing'
  <2>1. ASSUME NEW e \in owed', enabled'[e]
        PROVE  \/ InHand(e)'
               \/ e \in owed /\ enabled[e] /\ (Listed(e) => InHand(e)') /\ (Handles(d, e) => InHand(e)')
    <3>1. CASE e \in Of(f)
      <4>1. pc'[d] = "notify" /\ polling'[d] = file'[e]
        BY <1>2, <1>3, <1>4, <1>5, <2>1, <3>1 DEF Of
      <4> QED BY <1>1, <4>1 DEF InHand, Handles
    <3>2. CASE e \notin Of(f)
      <4>1. e \in owed /\ enabled[e] /\ ~Handles(d, e)
        BY <1>2, <1>4, <2>1, <3>2 DEF Handles
      <4> QED BY <1>2, <4>1 DEF InHand, Listed
    <3> QED BY <3>1, <3>2
  <2> QED BY <1>1, <1>2, <1>3, <2>1, OwingKept
<1> QED BY <1>7, <1>8, <1>9 DEF Watching, Noticed

\* A file is closed: it has no events that are owed.
LEMMA WatchClose == ASSUME Shape, Watching, NEW f \in Files, close(f) PROVE Watching'
<1>1. /\ ready \in [Files -> BOOLEAN] /\ observers \in [Files -> SUBSET Entries] /\ Watch /\ Owing
      /\ cache \in [Pollees -> {INV_STATE} \cup IoEvents \cup Tasks] /\ Files \subseteq Pollees
  BY Constants DEF Shape, TypeOK, PolleeTypeOK, Watching
<1>2. UNCHANGED <<pc, polling, events, at, todo, file, interest, enabled, inner, entries>>
  BY DEF close, entryVars, readyVars
<1>3. open' = open \ {f} /\ owed' = owed \ Of(f) /\ ~ready'[f] /\ observers'[f] = {}
  BY <1>1 DEF close
<1>4. \A g \in Files \ {f} : ready'[g] = ready[g] /\ observers'[g] = observers[g] /\ cache'[g] = cache[g]
  BY <1>1 DEF close
<1>5. Recorded'
  <2>1. \A g \in Files : /\ ready'[g] => g \in open'
                         /\ \A e \in observers'[g] : file[e] = g
    BY <1>1, <1>3, <1>4 DEF Watch, Recorded
  <2>2. ASSUME NEW e \in owed' PROVE e \in Entries /\ file[e] \in Files /\ ready'[file[e]]
    <3>1. e \in Entries /\ file[e] \in Files \ {f} /\ ready[file[e]]
      BY <1>1, <1>3, <2>2 DEF Watch, Recorded, Of
    <3> QED BY <1>4, <3>1
  <2> QED BY <1>2, <2>1, <2>2 DEF Recorded
<1>6. Locked' /\ Enabled' /\ Queued'
  BY <1>1, <1>2 DEF Watch, Locked, LockedAt, Enabled, Minds, Queued, QueuedAt
<1>7. Observed'
  <2> SUFFICES ASSUME NEW e \in Entries, enabled[e], file[e] \in open'
               PROVE  e \in observers'[file[e]] \/ \E c \in Controllers : at[c] = e /\ pc[c] = "registerEntry"
    BY <1>2 DEF Observed
  <2>1. file[e] \in Files \ {f} /\ file[e] \in open
    BY <1>3 DEF Shape, TypeOK
  <2> QED BY <1>1, <1>4, <2>1 DEF Watch, Observed
<1>8. Noticed'
  <2> SUFFICES ASSUME NEW g \in Files PROVE NoneAt(g)'
    BY DEF Noticed
  <2>1. CASE g = f
    BY <1>3, <2>1 DEF NoneAt
  <2>2. CASE g # f
    <3>1. NoneAt(g)
      BY DEF Watching, Noticed
    <3>2. ready'[g] = ready[g] /\ cache'[g] = cache[g]
      BY <1>4, <2>2
    <3> QED BY <1>2, <3>1, <3>2 DEF NoneAt
  <2> QED BY <2>1, <2>2
<1>9. Owing'
  <2>1. ASSUME NEW e \in owed, InHand(e) PROVE InHand(e)'
    <3>1. Listed(e) => Listed(e)'
      BY <1>2 DEF Listed
    <3>2. ASSUME NEW t \in Tasks, Handles(t, e) PROVE Handles(t, e)'
      BY <1>2, <3>2 DEF Handles
    <3> QED BY <2>1, <3>1, <3>2 DEF InHand
  <2> QED BY <1>1, <1>2, <1>3, <2>1 DEF Owing
<1> QED BY <1>5, <1>6, <1>7, <1>8, <1>9 DEF Watch, Watching

\* An entry that is not made is not enabled.
LEMMA EnabledMade == ASSUME Shape, Watch, NEW e \in Entries, enabled[e] PROVE file[e] # None
BY Constants DEF Shape, Unmade, Watch, Enabled, Minds

\* EpollFile::control: an entry to add is neither watched nor owed anything, and
\* one to delete is in the controller's hands.
LEMMA WatchControl ==
  ASSUME Shape, Watching, NEW c \in Controllers, NEW s \in {"update", "shutdown"}, Moves(c, s), pc[c] = "idle",
         UNCHANGED <<ready, open, observers, todo, cache, entries, inner, enabled, owed>>,
         \A e \in Entries : file[e] # None => file'[e] = file[e],
         \A e \in interest : e \in interest' \/ (at'[c] = e /\ s = "shutdown")
  PROVE  Watching'
<1>1. /\ c \in Tasks /\ c \notin Drivers /\ Watch /\ Owing /\ Recorded /\ Unmade /\ pc'[c] = s
      /\ todo \in [Drivers -> SUBSET Entries] /\ observers \in [Files -> SUBSET Entries]
      /\ \A u \in Tasks \ {c} : pc'[u] = pc[u] /\ at'[u] = at[u] /\ polling'[u] = polling[u]
  BY Constants, OthersSame, SMTT(20) DEF Shape, TypeOK, Watching, Watch
<1>2. ASSUME NEW e \in owed PROVE e \in Entries /\ file[e] \in Files /\ ready[file[e]] /\ file'[e] = file[e]
  <2>1. e \in Entries /\ file[e] \in Files /\ ready[file[e]]
    BY <1>1 DEF Recorded
  <2> QED BY <2>1, Constants
<1>3. ASSUME NEW f \in Files, NEW e \in observers[f] PROVE file[e] = f /\ file'[e] = f
  <2>1. e \in Entries /\ file[e] = f
    BY <1>1 DEF Recorded
  <2> QED BY <2>1, Constants
<1>4. Recorded'
  BY <1>1, <1>2, <1>3 DEF Recorded
<1>5. Locked'
  <2> SUFFICES ASSUME NEW u \in Tasks PROVE LockedAt(u)'
    BY DEF Locked
  <2>1. LockedAt(u)
    BY <1>1 DEF Watch, Locked
  <2> QED BY <1>1, <2>1 DEF LockedAt, Polling
<1>6. \A u \in Controllers, e \in Entries : Minds(u, e) => Minds(u, e)'
  BY <1>1, Constants DEF Minds, Polling
<1>7. Enabled'
  <2> SUFFICES ASSUME NEW e \in Entries, enabled[e]
               PROVE  e \in interest' \/ \E u \in Controllers : Minds(u, e)'
    BY DEF Enabled
  <2>1. CASE e \in interest
    BY <1>1, <2>1 DEF Minds
  <2>2. CASE e \notin interest
    BY <1>1, <1>6, <2>2 DEF Watch, Enabled
  <2> QED BY <2>1, <2>2
<1>8. Observed'
  <2> SUFFICES ASSUME NEW e \in Entries, enabled[e], file'[e] \in open, e \notin observers[file'[e]]
               PROVE  \E u \in Controllers : at'[u] = e /\ pc'[u] = "registerEntry"
    BY DEF Observed
  <2>1. file'[e] = file[e]
    BY <1>1, EnabledMade
  <2>2. PICK u \in Controllers : at[u] = e /\ pc[u] = "registerEntry"
    BY <1>1, <2>1 DEF Watch, Observed
  <2>3. u \in Tasks \ {c}
    BY <2>2, Constants
  <2> QED BY <1>1, <2>2, <2>3
<1>9. Queued'
  <2> SUFFICES ASSUME NEW d \in Drivers PROVE QueuedAt(d)'
    BY DEF Queued
  <2>1. QueuedAt(d) /\ d \in Tasks \ {c}
    BY <1>1, Constants DEF Watch, Queued
  <2>2. \A e \in todo[d] : file'[e] = file[e]
    BY <1>1 DEF Unmade
  <2> QED BY <1>1, <2>1, <2>2 DEF QueuedAt
<1>10. Noticed'
  <2>1. \A f \in Files : NoneAt(f)
    BY DEF Watching, Noticed
  <2> QED BY <1>1, <2>1, NoneKept DEF Noticed
<1>11. Owing'
  <2>1. \A e \in owed : ~Handles(c, e)
    BY <1>1 DEF Handles
  <2>2. \A e \in owed' : enabled'[e] =>
          e \in owed /\ enabled[e] /\ (Listed(e) => InHand(e)') /\ (Handles(c, e) => InHand(e)')
    BY <2>1 DEF InHand, Listed
  <2> QED BY <1>1, <1>2, <2>2, OwingKept
<1> QED BY <1>4, <1>5, <1>7, <1>8, <1>9, <1>10, <1>11 DEF Watch, Watching

\* A step of t at its entry e that leaves the files' events and the ready list
\* alone, after which e observes no file but its own.
EntryStep(t, e) ==
  /\ at[t] = e /\ inner[e] \in {None, t} /\ OnlyEntry(e)
  /\ UNCHANGED <<ready, open, todo, cache, entries, file>>
  /\ \A f \in Files : \A x \in observers'[f] : x \in observers[f] \/ (x = e /\ f = file[e])
  /\ \A x \in owed' : x \in owed \/ (x = e /\ ready[file[e]])
  /\ pc[t] # "notify"

\* After the step the entry is enabled only if it is in the interest list or t
\* minds it, and then it observes its file, or is about to.
EntryKept(t, e) ==
  enabled'[e] =>
    /\ \/ e \in interest'
       \/ t \in Controllers /\ Minds(t, e)'
       \/ t \notin Controllers /\ enabled[e] /\ interest' = interest
    /\ \/ e \in observers'[file[e]]
       \/ t \in Controllers /\ at'[t] = e /\ pc'[t] = "registerEntry"
       \/ enabled[e] /\ pc[t] # "registerEntry" /\ observers' = observers

LEMMA WatchEntry ==
  ASSUME Shape, Watching, NEW t \in Tasks, t \notin Drivers, NEW s, Moves(t, s), s # "cache",
         NEW e \in Entries, EntryStep(t, e), EntryKept(t, e), LockedAt(t)',
         e \in owed' /\ enabled'[e] => Handles(t, e)' \/ (e \in owed /\ enabled[e] /\ ~Handles(t, e))
  PROVE  Watching'
<1>1. /\ Watch /\ Owing /\ Recorded /\ pc'[t] = s /\ at[t] = e /\ inner[e] \in {None, t} /\ OnlyEntry(e)
      /\ pc[t] # "notify"
  <2>1. pc'[t] = s
    BY OthersSame, SMTT(20)
  <2> QED BY <2>1 DEF EntryStep, Watching, Watch
<1>2. UNCHANGED <<ready, open, todo, cache, entries, file>>
  BY DEF EntryStep
<1>3. file[e] \in Files
  BY <1>1, Constants DEF Shape, TypeOK, Unmade
<1>4. Recorded'
  <2>1. ASSUME NEW f \in Files, NEW x \in observers'[f] PROVE file[x] = f
    <3>1. x \in observers[f] \/ f = file[x]
      BY <2>1 DEF EntryStep
    <3> QED BY <1>1, <3>1 DEF Recorded
  <2>2. ASSUME NEW x \in owed' PROVE x \in Entries /\ file[x] \in Files /\ ready[file[x]]
    <3>1. x \in owed \/ (x = e /\ ready[file[e]])
      BY <2>2 DEF EntryStep
    <3> QED BY <1>1, <1>3, <3>1 DEF Recorded
  <2> QED BY <1>1, <1>2, <2>1, <2>2 DEF Recorded
<1>5. Watch'
  <2>1. enabled'[e] => \/ e \in interest'
                       \/ t \in Controllers /\ Minds(t, e)'
                       \/ t \notin Controllers /\ enabled[e] /\ interest' = interest
    BY DEF EntryKept
  <2>2. enabled'[e] => \/ e \in observers'[file[e]]
                       \/ t \in Controllers /\ at'[t] = e /\ s = "registerEntry"
                       \/ enabled[e] /\ pc[t] # "registerEntry" /\ observers' = observers
    BY <1>1 DEF EntryKept
  <2>3. UNCHANGED <<open, file, todo>>
    BY <1>2
  <2> QED BY <1>1, <1>4, <2>1, <2>2, <2>3, WatchAt
<1>6. Noticed'
  <2>1. ASSUME NEW f \in Files PROVE NoneAt(f)'
    <3>1. NoneAt(f)
      BY DEF Watching, Noticed
    <3>2. (ready'[f] => ready[f]) /\ cache'[f] \in {cache[f], INV_STATE}
      BY <1>2
    <3>3. pc[t] = "notify" => polling[t] # f
      BY <1>1
    <3> QED BY <3>1, <3>2, <3>3, NoneKept
  <2> QED BY <2>1 DEF Noticed
<1>7. Owing'
  <2>1. ASSUME NEW x \in owed', enabled'[x]
        PROVE  \/ InHand(x)'
               \/ x \in owed /\ enabled[x] /\ (Listed(x) => InHand(x)') /\ (Handles(t, x) => InHand(x)')
    <3>1. Listed(x) => InHand(x)'
      BY <1>2 DEF InHand, Listed
    <3>2. CASE x = e
      BY <2>1, <3>1, <3>2 DEF InHand
    <3>3. CASE x # e
      <4>1. x \in owed /\ x \in Entries
        BY <1>1, <2>1, <3>3 DEF EntryStep, Recorded
      <4>2. enabled[x] /\ ~Handles(t, x)
        BY <1>1, <2>1, <3>3, <4>1 DEF OnlyEntry, Handles
      <4> QED BY <3>1, <4>1, <4>2
    <3> QED BY <3>2, <3>3
  <2>2. (\A x \in owed : file'[x] = file[x]) /\ \A d \in Drivers \ {t} : todo'[d] = todo[d]
    BY <1>2
  <2>3. Owing
    BY <1>1
  <2> QED BY <2>1, <2>2, <2>3, OwingKept
<1> QED BY <1>5, <1>6, <1>7 DEF Watching

\* Entry::update and shutdown.
LEMMA WatchUpdate ==
  ASSUME Shape, Watching, NEW c \in Controllers,
         \/ \E m \in bound.modes : update(c, m)
         \/ register_poller(c) \/ updated(c) \/ shutdown(c) \/ unregister(c)
  PROVE  Watching'
<1>0. PICK e \in Entries \cup {None} : at[c] = e
  BY Constants DEF Shape, TypeOK
<1>1. /\ c \in Tasks /\ c \notin Drivers /\ Watch /\ LockedAt(c) /\ LocatedAt(c)
      /\ pc = [u \in Tasks |-> pc[u]] /\ at \in [Tasks -> Entries \cup {None}]
      /\ polling \in [Tasks -> Pollees \cup {None}] /\ observers \in [Files -> SUBSET Entries]
      /\ inner \in [Entries -> Tasks \cup {None}] /\ enabled \in [Entries -> BOOLEAN]
  BY Constants DEF Shape, Located, TypeOK, PolleeTypeOK, Watching, Watch, Locked
<1> DEFINE Effect ==
      /\ pc[c] \in {"update", "registerEntry", "polled", "shutdown", "unregister"}
      /\ pc[c] \in {"update", "shutdown"} => inner[e] = None
      /\ UNCHANGED <<ready, open, todo, cache, entries, file>>
      /\ inner' \in {inner, [inner EXCEPT ![e] = c], [inner EXCEPT ![e] = None]}
      /\ enabled' \in {enabled, [enabled EXCEPT ![e] = TRUE], [enabled EXCEPT ![e] = FALSE]}
      /\ interest' \in {interest, interest \cup {e}}
      /\ observers' \in {observers, [observers EXCEPT ![file[e]] = @ \cup {e}], [observers EXCEPT ![file[e]] = @ \ {e}]}
      /\ owed' = owed \/ (owed' = owed \cup {e} /\ ready[file[e]])
<1>2. Effect
  <2>1. CASE \E m \in bound.modes : update(c, m)
    BY <1>0, <2>1 DEF update, fileVars, readyVars, polleeVars
  <2>2. CASE register_poller(c)
    BY <1>0, <2>2 DEF register_poller, entryVars, readyVars
  <2>3. CASE updated(c)
    BY <1>0, <2>3 DEF updated, fileVars, readyVars
  <2>4. CASE shutdown(c)
    BY <1>0, <2>4 DEF shutdown, fileVars, readyVars, polleeVars
  <2>5. CASE unregister(c)
    BY <1>0, <2>5 DEF unregister, readyVars, polleeVars
  <2> QED BY <2>1, <2>2, <2>3, <2>4, <2>5
<1>3. e \in Entries /\ (pc[c] \in Polling => polling[c] # Self)
  BY <1>0, <1>1, <1>2, Constants DEF LocatedAt, Polling
<1>4. file[e] \in Files
  BY <1>0, <1>1, <1>3, Constants DEF Shape, TypeOK, Unmade
<1>5. inner[e] \in {None, c}
  BY <1>0, <1>1, <1>2, <1>3 DEF LockedAt, Polling
<1>6. OnlyEntry(e)
  <2>1. \A x \in Entries \ {e} : inner'[x] = inner[x] /\ enabled'[x] = enabled[x]
    BY <1>1, <1>2
  <2>2. \A x \in Entries \ {e} : x \in interest' <=> x \in interest
    BY <1>2
  <2>3. \A x \in Entries \ {e} : \A f \in Files : x \in observers'[f] <=> x \in observers[f]
    BY <1>1, <1>2, SMTT(20)
  <2> QED BY <2>1, <2>2, <2>3 DEF OnlyEntry
<1>7. EntryStep(c, e)
  <2>1. \A f \in Files : \A x \in observers'[f] : x \in observers[f] \/ (x = e /\ f = file[e])
    BY <1>1, <1>2, SMTT(20)
  <2>2. \A x \in owed' : x \in owed \/ (x = e /\ ready[file[e]])
    BY <1>2
  <2>3. pc[c] # "notify"
    BY <1>2
  <2> QED BY <1>0, <1>2, <1>5, <1>6, <2>1, <2>2, <2>3 DEF EntryStep
<1>8. CASE \E m \in bound.modes : update(c, m)
  <2>1. pc[c] = "update" /\ at' = at /\ inner'[e] = c /\ pc'[c] = "registerEntry" /\ Moves(c, "registerEntry")
    BY <1>0, <1>1, <1>3, <1>8, ControllerMoves DEF update, Goto
  <2>2. EntryKept(c, e) /\ LockedAt(c)' /\ Handles(c, e)'
    BY <1>0, <2>1 DEF EntryKept, Minds, LockedAt, Polling, Handles
  <2> QED BY <1>1, <1>3, <1>7, <2>1, <2>2, WatchEntry
<1>9. CASE register_poller(c)
  <2>1. /\ pc[c] = "registerEntry" /\ at' = at /\ pc'[c] = "load" /\ Moves(c, "load") /\ polling'[c] = file[e]
        /\ UNCHANGED inner /\ e \in observers'[file[e]]
    BY <1>0, <1>1, <1>4, <1>9, ControllerMoves DEF register_poller, poll_with, Goto, entryVars
  <2>2. inner[e] = c
    BY <1>0, <1>1, <2>1 DEF LockedAt
  <2>3. EntryKept(c, e) /\ LockedAt(c)' /\ Handles(c, e)'
    BY <1>0, <1>2, <2>1, <2>2 DEF EntryKept, Minds, LockedAt, Polling, Handles
  <2> QED BY <1>1, <1>3, <1>7, <2>1, <2>3, WatchEntry
<1>10. CASE updated(c)
  <2>1. PICK s \in {"push", "idle"} :
          /\ pc'[c] = s /\ Moves(c, s) /\ pc[c] = "polled"
          /\ events[c] = "ready" => s = "push" /\ at' = at
    BY <1>0, <1>1, <1>10, ControllerMoves, OthersSame DEF updated
  <2>2. e \in interest' /\ UNCHANGED <<observers, enabled, owed>>
    BY <1>0, <1>10 DEF updated, fileVars
  <2>3. EntryKept(c, e) /\ LockedAt(c)'
    BY <1>0, <2>1, <2>2 DEF EntryKept, LockedAt, Polling
  <2>4. e \in owed' /\ enabled'[e] => Handles(c, e)' \/ (e \in owed /\ enabled[e] /\ ~Handles(c, e))
    BY <1>0, <1>1, <2>1, <2>2 DEF Handles
  <2>5. c \in Tasks /\ c \notin Drivers /\ Moves(c, s) /\ s # "cache" /\ e \in Entries
    BY <1>0, <1>1, <1>3, <2>1
  <2> QED BY <1>7, <2>3, <2>4, <2>5, WatchEntry
<1>11. CASE shutdown(c)
  <2>1. pc'[c] = "unregister" /\ Moves(c, "unregister") /\ at' = at /\ inner'[e] = c /\ ~enabled'[e]
    BY <1>0, <1>1, <1>3, <1>11, ControllerMoves DEF shutdown, Goto
  <2>2. EntryKept(c, e) /\ LockedAt(c)'
    BY <1>0, <2>1 DEF EntryKept, LockedAt, Polling
  <2> QED BY <1>1, <1>3, <1>7, <2>1, <2>2, WatchEntry
<1>12. CASE unregister(c)
  <2>1. pc[c] = "unregister" /\ pc'[c] = "idle" /\ Moves(c, "idle") /\ UNCHANGED enabled
    BY <1>0, <1>1, <1>12, ControllerMoves DEF unregister, Goto
  <2>2. ~enabled'[e]
    BY <1>0, <1>1, <2>1 DEF LockedAt
  <2>3. EntryKept(c, e) /\ LockedAt(c)'
    BY <1>0, <2>1, <2>2 DEF EntryKept, LockedAt, Polling
  <2> QED BY <1>1, <1>3, <1>7, <2>1, <2>2, <2>3, WatchEntry
<1> QED BY <1>8, <1>9, <1>10, <1>11, <1>12

\* Entry::poll and what follows: an event that is found is returned.
LEMMA WatchEntryPoll ==
  ASSUME Shape, Watching, NEW w \in Waiters, entryPoll(w) \/ deleteDead(w) \/ entryPolled(w)
  PROVE  Watching'
<1>0. PICK e \in Entries \cup {None} : at[w] = e
  BY Constants DEF Shape, TypeOK
<1>1. /\ w \in Tasks /\ w \notin Drivers /\ w \notin Controllers /\ Watch /\ LockedAt(w) /\ LocatedAt(w)
      /\ polling \in [Tasks -> Pollees \cup {None}] /\ open \subseteq Files
      /\ inner \in [Entries -> Tasks \cup {None}] /\ enabled \in [Entries -> BOOLEAN]
  BY Constants DEF Shape, Located, TypeOK, PolleeTypeOK, Watching, Watch, Locked
<1> DEFINE Effect ==
      /\ pc[w] \in {"poll", "polled"} /\ (pc[w] = "poll" => inner[e] = None) /\ (pc[w] = "polled" => polling[w] # Self)
      /\ UNCHANGED <<ready, open, todo, cache, entries, file, observers>>
      /\ inner' \in {inner, [inner EXCEPT ![e] = w], [inner EXCEPT ![e] = None]}
      /\ \E b \in BOOLEAN : enabled' = [enabled EXCEPT ![e] = b] /\ (b => enabled[e])
      /\ interest' = interest \/ (interest' = interest \ {e} /\ ~enabled'[e])
      /\ owed' \subseteq owed
<1>2. pc[w] \in {"poll", "polled"} /\ (pc[w] = "polled" => polling[w] # Self) /\ e \in Entries
  BY <1>0, <1>1 DEF entryPoll, deleteDead, entryPolled, LocatedAt, Polling
<1>3. Effect
  <2>1. CASE entryPoll(w)
    <3>1. enabled' = enabled /\ enabled = [enabled EXCEPT ![e] = enabled[e]] /\ enabled[e] \in BOOLEAN
      BY <1>1, <1>2, <2>1 DEF entryPoll
    <3>2. \E b \in BOOLEAN : enabled' = [enabled EXCEPT ![e] = b] /\ (b => enabled[e])
      BY <3>1
    <3> QED BY <1>0, <2>1, <3>2 DEF entryPoll, fileVars, readyVars
  <2>2. CASE deleteDead(w)
    <3>1. enabled' = [enabled EXCEPT ![e] = FALSE] /\ ~enabled'[e]
      BY <1>0, <1>1, <1>2, <2>2 DEF deleteDead
    <3> QED BY <1>0, <2>2, <3>1 DEF deleteDead, fileVars, readyVars, polleeVars
  <2>3. CASE entryPolled(w)
    <3>1. enabled' = [enabled EXCEPT ![e] = enabled[e] /\ ~(events[w] = "ready" /\ mode[e] = "oneshot")]
      BY <1>0, <2>3 DEF entryPolled
    <3>2. \E b \in BOOLEAN : enabled' = [enabled EXCEPT ![e] = b] /\ (b => enabled[e])
      BY <3>1
    <3> QED BY <1>0, <2>3, <3>2 DEF entryPolled, fileVars, readyVars
  <2> QED BY <2>1, <2>2, <2>3
<1>4. inner[e] \in {None, w} /\ (pc[w] = "polled" => inner[e] = w)
  BY <1>0, <1>1, <1>2, <1>3 DEF LockedAt, Polling
<1>5. OnlyEntry(e) /\ (enabled'[e] => enabled[e])
  <2>1. \A x \in Entries \ {e} : inner'[x] = inner[x] /\ enabled'[x] = enabled[x]
    BY <1>1, <1>3
  <2>2. enabled'[e] => enabled[e]
    BY <1>1, <1>2, <1>3
  <2>3. \A x \in Entries \ {e} : x \in interest' <=> x \in interest
    BY <1>3
  <2> QED BY <1>3, <2>1, <2>2, <2>3 DEF OnlyEntry
<1>6. EntryStep(w, e)
  BY <1>0, <1>2, <1>3, <1>4, <1>5 DEF EntryStep
<1>7. EntryKept(w, e)
  <2>1. pc[w] # "registerEntry"
    BY <1>2
  <2> QED BY <1>1, <1>3, <1>5, <2>1 DEF EntryKept
<1>8. PICK s \in {"load", "next", "push"} :
        /\ Moves(w, s) /\ pc'[w] = s
        /\ entryPoll(w) /\ enabled[e] => s = "load"
        /\ s = "load" => entryPoll(w) /\ enabled[e]
  <2>1. \A s : Moves(w, s) => pc'[w] = s
    BY <1>1, OthersSame
  <2>2. entryPoll(w) => Moves(w, IF enabled[e] THEN "load" ELSE "next")
    BY <1>0, WaiterMoves
  <2>3. CASE entryPoll(w)
    BY <2>1, <2>2, <2>3
  <2>4. CASE ~entryPoll(w)
    <3>1. Moves(w, "next") \/ Moves(w, "push")
      BY <2>4, WaiterMoves
    <3> QED BY <2>1, <2>4, <3>1
  <2> QED BY <2>3, <2>4
<1>9. s = "load" => at'[w] = e /\ inner'[e] = w /\ polling'[w] = file[e]
  BY <1>0, <1>1, <1>2, <1>8 DEF entryPoll, poll_with
<1>10. LockedAt(w)'
  BY <1>8, <1>9 DEF LockedAt, Polling
<1>11. ASSUME e \in owed', enabled'[e]
       PROVE  Handles(w, e)' \/ (e \in owed /\ enabled[e] /\ ~Handles(w, e))
  <2>1. e \in owed /\ enabled[e]
    BY <1>3, <1>5, <1>11
  <2>2. CASE entryPoll(w)
    BY <1>3, <1>8, <1>9, <2>1, <2>2 DEF Handles
  <2>3. CASE deleteDead(w)
    BY <1>0, <1>1, <1>2, <1>11, <2>3 DEF deleteDead
  <2>4. CASE entryPolled(w)
    <3>1. pc[w] = "polled"
      BY <2>4 DEF entryPolled
    <3> QED BY <1>1, <2>1, <3>1 DEF Handles
  <2> QED BY <2>2, <2>3, <2>4
<1>12. w \in Tasks /\ w \notin Drivers /\ s # "cache"
  BY <1>1, <1>8
<1> QED BY <1>2, <1>6, <1>7, <1>8, <1>10, <1>11, <1>12, WatchEntry

\* Every step.
LEMMA WatchStep == ASSUME IInv, Watching, [Next]_vars PROVE Watching'
<1>1. Shape
  BY DEF IInv
<1>2. ASSUME NEW c \in Controllers, NEW e, control(c, e, "update"), file' = file, interest' = interest
      PROVE  Watching'
  <2>1. Moves(c, "update")
    BY <1>1, <1>2, ControllerMoves
  <2>2. pc[c] = "idle" /\ UNCHANGED <<ready, open, observers, todo, cache, entries, inner, enabled, owed>>
    BY <1>2 DEF control, fileVars, readyVars, polleeVars
  <2> QED BY <1>1, <1>2, <2>1, <2>2, WatchControl, SMTT(20)
<1>3. ASSUME NEW c \in Controllers, NEW f \in Files, add_interest(c, f) PROVE Watching'
  <2>1. PICK e \in Unused : control(c, e, "update") /\ file' = [file EXCEPT ![e] = f] /\ UNCHANGED interest
    <3>1. (CHOOSE x \in Unused : TRUE) \in Unused
      BY <1>3 DEF add_interest
    <3> QED BY <1>3, <3>1 DEF add_interest
  <2>2. Moves(c, "update")
    BY <1>1, <2>1, ControllerMoves
  <2>3. pc[c] = "idle" /\ UNCHANGED <<ready, open, observers, todo, cache, entries, inner, enabled, owed>>
    BY <2>1 DEF control, fileVars, readyVars, polleeVars
  <2>4. \A x \in Entries : file[x] # None => file'[x] = file[x]
    BY <1>1, <2>1 DEF Unused, Shape, TypeOK
  <2> QED BY <1>1, <2>1, <2>2, <2>3, <2>4, WatchControl, SMTT(20)
<1>4. ASSUME NEW c \in Controllers, NEW e \in Entries, del_interest(c, e) PROVE Watching'
  <2>1. control(c, e, "shutdown") /\ interest' = interest \ {e} /\ UNCHANGED file
    BY <1>4 DEF del_interest
  <2>2. Moves(c, "shutdown")
    BY <1>1, <2>1, ControllerMoves
  <2>3. pc[c] = "idle" /\ UNCHANGED <<ready, open, observers, todo, cache, entries, inner, enabled, owed>>
    BY <2>1 DEF control, fileVars, readyVars, polleeVars
  <2>4. at'[c] = e
    BY <1>1, <2>1, Constants DEF control, Shape, TypeOK
  <2>5. \A x \in interest : x \in interest' \/ at'[c] = x
    BY <2>1, <2>4
  <2> QED BY <1>1, <2>1, <2>2, <2>3, <2>5, WatchControl, SMTT(20)
<1>5. CASE Begin
  <2>1. \A c \in Controllers, e \in Entries : mod_interest(c, e) => Watching'
    BY <1>2 DEF mod_interest
  <2> QED BY <1>1, <1>3, <1>4, <1>5, <2>1, WatchChange, WatchClose, WatchWait DEF Begin
<1>6. ASSUME NEW t \in Tasks, Step(t) PROVE Watching'
  <2>1. CASE poll(t) \/ push(t) \/ pushLock(t) \/ pushInvalidate(t) \/ pushNotify(t)
    BY <2>1, WatchPoll, WatchPush
  <2>2. CASE t \in Drivers /\ (notify(t) \/ invalidateOnly(t) \/ notify_observers(t) \/ on_events(t) \/ notified(t))
    BY <2>2, WatchNotify
  <2>3. CASE t \in Controllers /\ ((\E m \in bound.modes : update(t, m))
                                   \/ register_poller(t) \/ updated(t) \/ shutdown(t) \/ unregister(t))
    BY <1>1, <2>3, WatchUpdate
  <2>4. CASE t \in Waiters /\ (finishPop(t) \/ popNext(t) \/ entryPoll(t) \/ deleteDead(t)
                               \/ entryPolled(t) \/ registerWaiter(t) \/ selfPolled(t) \/ wake(t))
    BY <1>1, <2>4, WatchPop, WatchEntryPoll, WatchWait
  <2> QED BY <1>6, <2>1, <2>2, <2>3, <2>4 DEF Step
<1>7. CASE UNCHANGED vars
  <2>1. UNCHANGED <<pc, polling, events, cache, ready, open, observers, todo, file, interest, inner, enabled, entries, at, owed>>
    BY <1>7 DEF vars, polleeVars, fileVars, entryVars, readyVars
  <2>2. Watch'
    BY <2>1 DEF Watching, Watch, Recorded, Locked, LockedAt, Enabled, Minds, Observed, Queued, QueuedAt
  <2>3. Noticed'
    BY <2>1 DEF Watching, Noticed, NoneAt
  <2>4. \A e \in owed : InHand(e) => InHand(e)'
    BY <2>1 DEF InHand, Listed, Handles
  <2>5. Owing'
    BY <2>1, <2>4 DEF Watching, Owing
  <2> QED BY <2>2, <2>3, <2>5 DEF Watching
<1> QED BY <1>5, <1>6, <1>7 DEF Next

\* An event of a watched file that no wait has returned is never forgotten, with
\* any number of files, entries and tasks.
THEOREM EventsKept == Spec => []NoLostEvent
<1>1. Init => Watching
  <2> SUFFICES ASSUME Init PROVE Watching
    OBVIOUS
  <2>1. /\ \A t \in Tasks : pc[t] = "idle"
        /\ \A f \in Files : ~ready[f] /\ observers[f] = {}
        /\ \A e \in Entries : ~enabled[e]
        /\ \A d \in Drivers : todo[d] = {}
        /\ owed = {}
    BY DEF Init
  <2>2. Watch
    BY <2>1, Constants DEF Watch, Recorded, Locked, LockedAt, Polling, Enabled, Observed, Queued, QueuedAt
  <2>3. Noticed /\ Owing
    BY <2>1 DEF Noticed, NoneAt, Owing
  <2> QED BY <2>2, <2>3 DEF Watching
<1>2. IInv /\ Watching => NoLostEvent
  <2> SUFFICES ASSUME Watching, NEW e \in owed, enabled[e], \A t \in Tasks : ~Busy(t, e)
               PROVE  Listed(e)
    BY DEF NoLostEvent, Listed
  <2>1. InHand(e) /\ Queued
    BY DEF Watching, Watch, Owing
  <2>2. ASSUME NEW t \in Tasks PROVE ~Handles(t, e)
    BY <2>1 DEF Busy, Handles, Queued, QueuedAt
  <2> QED BY <2>1, <2>2 DEF InHand
<1>3. IInv /\ Watching /\ [Next]_vars => Watching'
  BY WatchStep
<1> QED BY <1>1, <1>2, <1>3, Invariance, PTL DEF Spec
=============================================================================
