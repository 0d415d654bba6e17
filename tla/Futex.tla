------------------------------- MODULE Futex -------------------------------
(***************************************************************************)
(* kernel/core/src/process/posix_thread/futex.rs: the futex system call,   *)
(* with the timed, interruptible pause of a waiter                         *)
(* (kernel/core/src/process/signal/pause.rs).                              *)
(*                                                                         *)
(* Waiters call futex_wait_bitset.  Callers make the calls that wake or    *)
(* move waiters; a call that needs two buckets locks them one by one.      *)
(* What runs under the bucket locks is one step: beside it only has_woken  *)
(* can change, and that of different waiters independently.                *)
(*                                                                         *)
(* A waker is named by its waiter, and becomes Dead when the waiter is     *)
(* dropped.  How a waiter parks is in WaitQueue and Scheduler; here it     *)
(* sleeps until has_woken is set.                                          *)
(***************************************************************************)
EXTENDS Naturals, Sequences, FiniteSets

CONSTANTS
  Waiters, Callers,
  Addrs,          \* the futex identities
  Hash,           \* [Addrs -> Nat]: the bucket of an identity
  Bits,           \* the bits of a FutexBitSet
  WordBits,       \* how many bits a futex word has
  Loads,          \* the loads that user code may put on the futexes
  Dead, None

\* A futex word is the set of its bits that are one.
Positions == 0 .. WordBits - 1
Values == SUBSET Positions
Buckets == {Hash[a] : a \in Addrs}
Key == [addr : Addrs, bitset : SUBSET Bits]
Item == [key : Key, waker : Waiters \cup {Dead}]

\* FutexWakeOpEncode: the operand of a shifted operation is a position.
IsWakeOp(o) ==
  /\ o.op \in {"SET", "ADD", "OR", "ANDN", "XOR"}
  /\ o.cmp \in {"EQ", "NE", "LT", "LE", "GT", "GE"} /\ o.cmparg \in Values
  /\ IF o.shift THEN o.oparg \in Nat ELSE o.oparg \in Values

ASSUME FutexAssumption ==
  /\ Hash \in [Addrs -> Nat]
  /\ WordBits \in Nat \ {0}
  /\ IsFiniteSet(Waiters) /\ Dead \notin Waiters /\ None \notin Callers
  /\ \A l \in Loads :
       /\ l.waits \subseteq Waiters \X Addrs \X ((SUBSET Bits) \ {{}})
       /\ l.stores \subseteq Addrs
       /\ l.interruptible \subseteq Waiters
       /\ \A c \in l.calls :
            /\ c.op \in {"wake", "requeue", "wakeOp"} /\ c.addr1 \in Addrs /\ c.addr2 \in Addrs
            /\ c.max1 \in Nat \ {0} /\ c.max2 \in Nat /\ c.bitset \in SUBSET Bits
            /\ c.op = "wake" => c.addr1 = c.addr2
            /\ c.op # "wake" => c.bitset = Bits
            /\ c.op = "wakeOp" => IsWakeOp(c.wakeOp)

VARIABLES
  load,      \* the load of this execution
  word,      \* the futex words, in user memory
  items,     \* FutexBucket::items of each bucket
  lock,      \* who holds a bucket's lock between two steps
  hasWoken,  \* Waker::has_woken of each waiter; TRUE when it is closed
  pc,        \* the next step of each waiter
  timer,     \* the timer of each waiter's timeout
  pending,   \* a signal is pending for the waiter's thread
  waking,    \* enqueue_signal has yet to call wake_signalled_waker
  result,    \* what pause_timeout has returned to each waiter
  returned,  \* what the last futex_wait_bitset of each waiter has returned
  call,      \* the call that each caller is making
  expects,   \* the address and value that each waiter gave, while it waits
  counted    \* how many wake calls have counted the waiter's present wait

waitVars == <<pc, timer, result, returned, expects>>
signalVars == <<pending, waking>>
vars == <<load, word, items, lock, hasWoken, waitVars, signalVars, call, counted>>

Waits == load.waits                  \* the waits that are made: waiter, identity, bitset
Stores == load.stores                \* the identities to which user code stores
Calls == load.calls                  \* the other calls that callers make
Interruptible == load.interruptible  \* the waiters that have timeouts and get signals

NoCall == [op |-> "none"]

Init ==
  /\ load \in Loads
  /\ word = [a \in Addrs |-> {}]
  /\ items = [b \in Buckets |-> <<>>]
  /\ lock = [b \in Buckets |-> None]
  /\ hasWoken = [w \in Waiters |-> TRUE]
  /\ pc = [w \in Waiters |-> "run"]
  /\ timer = [w \in Waiters |-> "none"]
  /\ pending = [w \in Waiters |-> FALSE]
  /\ waking = [w \in Waiters |-> FALSE]
  /\ result = [w \in Waiters |-> "ok"]
  /\ returned = [w \in Waiters |-> "ok"]
  /\ call = [k \in Callers |-> NoCall]
  /\ expects = [w \in Waiters |-> None]
  /\ counted = [w \in Waiters |-> 1]

At(w, label) == pc[w] = label
Goto(w, label) == pc' = [pc EXCEPT ![w] = label]
Unlocked(b) == lock[b] = None

-----------------------------------------------------------------------------
(* The buckets *)

match_up(k1, k2) == k1.addr = k2.addr /\ k1.bitset \cap k2.bitset # {}

\* The first n positions of s that satisfy the test.
FirstN(s, Test(_), n) ==
  {i \in DOMAIN s : Test(s[i]) /\ Cardinality({j \in 1 .. i : Test(s[j])}) <= n}

\* The items of s at the given positions, in their order.
Pick(s, positions) ==
  LET n == Cardinality(positions)
      Nth(i) == CHOOSE p \in positions : Cardinality({q \in positions : q <= p}) = i
  IN [i \in 1 .. n |-> s[Nth(i)]]

\* The wakers of the items that remove_and_wake_items takes out of s: those
\* that match and whose wake_up succeeds, up to max of them.
WakenIn(s, key, max) ==
  LET Wakes(it) == match_up(it.key, key) /\ it.waker # Dead /\ ~hasWoken[it.waker]
  IN {s[i].waker : i \in FirstN(s, Wakes, max)}

Without(s, wakers) == Pick(s, {i \in DOMAIN s : s[i].waker \notin wakers})

\* The wakers have been woken and counted by a wake call.
Wake(wakers) ==
  /\ hasWoken' = [w \in Waiters |-> hasWoken[w] \/ w \in wakers]
  /\ counted' = [w \in Waiters |-> counted[w] + (IF w \in wakers THEN 1 ELSE 0)]

\* update_item_keys tests its count only after it has changed a key.
update_item_keys(s, key, new, max) ==
  LET Matches(it) == match_up(it.key, key)
      moved == IF max > 0 THEN FirstN(s, Matches, max)
               ELSE {i \in DOMAIN s : i = 1 /\ Matches(s[1])}
  IN [i \in DOMAIN s |-> IF i \in moved THEN [s[i] EXCEPT !.key = new] ELSE s[i]]

\* Mutant: the count is compared after the item has been taken.
requeueOneMore(s, key, max) ==
  LET Matches(it) == match_up(it.key, key)
  IN FirstN(s, Matches, max + 1)

\* The positions that requeue_items_to_another_bucket extracts.
requeued(s, key, max) ==
  LET Matches(it) == match_up(it.key, key)
  IN FirstN(s, Matches, max)

\* Mutant: an item keeps its key when it moves.
requeueKeepsKey(s, positions, new) == Pick(s, positions)

\* Their new form in the other bucket.
withKey(s, positions, new) ==
  LET picked == Pick(s, positions)
  IN [i \in DOMAIN picked |-> [picked[i] EXCEPT !.key = new]]

-----------------------------------------------------------------------------
(* futex_wait_bitset *)

\* Mutant: the word is not compared under the lock.
waitUnchecked(w, a, v, bitset) ==
  /\ At(w, "run")
  /\ Unlocked(Hash[a])
  /\ items' = [items EXCEPT ![Hash[a]] =
                 Append(@, [key |-> [addr |-> a, bitset |-> bitset], waker |-> w])]
  /\ hasWoken' = [hasWoken EXCEPT ![w] = FALSE]
  /\ counted' = [counted EXCEPT ![w] = 0]
  /\ expects' = [expects EXCEPT ![w] = <<a, v>>]
  /\ returned' = [returned EXCEPT ![w] = "ok"]
  /\ Goto(w, "pause")
  /\ UNCHANGED <<word, lock, timer, result, signalVars, call>>

\* Under the bucket's lock: the word is read and the item added.  A page fault
\* drops the lock and starts again; another value is EAGAIN.
futex_wait_bitset(w, a, v, bitset) ==
  /\ At(w, "run")
  /\ Unlocked(Hash[a])
  /\ word[a] = v
  /\ items' = [items EXCEPT ![Hash[a]] =
                 Append(@, [key |-> [addr |-> a, bitset |-> bitset], waker |-> w])]
  /\ hasWoken' = [hasWoken EXCEPT ![w] = FALSE]
  /\ counted' = [counted EXCEPT ![w] = 0]
  /\ expects' = [expects EXCEPT ![w] = <<a, v>>]
  /\ returned' = [returned EXCEPT ![w] = "ok"]
  /\ Goto(w, "pause")
  /\ UNCHANGED <<word, lock, timer, result, signalVars, call>>

\* pause_timeout: the timeout has expired, or a timer is armed, or there is no
\* timeout; then set_signalled_waker.
pause_timeout(w) ==
  /\ At(w, "pause")
  /\ \/ w \in Interruptible /\ Goto(w, "remove") /\ UNCHANGED timer
        /\ result' = [result EXCEPT ![w] = "ETIME"]
     \/ w \in Interruptible /\ Goto(w, "check") /\ UNCHANGED result
        /\ timer' = [timer EXCEPT ![w] = "armed"]
     \/ Goto(w, "check") /\ UNCHANGED <<timer, result>>
  /\ UNCHANGED <<word, items, lock, hasWoken, returned, expects, signalVars, call, counted>>

\* "Check has_pending after set_signalled_waker to avoid race conditions."
checkPending(w) ==
  /\ At(w, "check")
  /\ IF pending[w]
     THEN Goto(w, "remove") /\ result' = [result EXCEPT ![w] = "EINTR"]
     ELSE Goto(w, "sleep") /\ UNCHANGED result
  /\ UNCHANGED <<word, items, lock, hasWoken, timer, returned, expects, signalVars, call,
                 counted>>

\* Waiter::wait, whose do_wait takes has_woken back.
do_wait(w) ==
  /\ At(w, "sleep")
  /\ hasWoken[w]
  /\ hasWoken' = [hasWoken EXCEPT ![w] = FALSE]
  /\ Goto(w, "woken")
  /\ UNCHANGED <<word, items, lock, timer, result, returned, expects, signalVars, call,
                 counted>>

\* The rest of pause_timeout: clear_signalled_waker, then why has it woken?
pauseEnd(w) ==
  /\ At(w, "woken")
  /\ result' = [result EXCEPT ![w] =
                  IF timer[w] \in {"expired", "fired"} THEN "ETIME"
                  ELSE IF pending[w] THEN "EINTR" ELSE "ok"]
  /\ timer' = [timer EXCEPT ![w] = IF @ = "armed" THEN "none" ELSE @]
  /\ Goto(w, "remove")
  /\ UNCHANGED <<word, items, lock, hasWoken, returned, expects, signalVars, call, counted>>

\* The position of w's item in s, and s after swap_remove.
HasItem(s, w) == \E i \in DOMAIN s : s[i].waker = w
swap_remove(s, w) ==
  LET idx == CHOOSE i \in DOMAIN s : s[i].waker = w
  IN SubSeq([s EXCEPT ![idx] = s[Len(s)]], 1, Len(s) - 1)

\* The end of the call: the waiter is dropped and its waker closed, also in
\* an item that another bucket still holds; pending signals are delivered.
Finish(w, answer, rest) ==
  /\ returned' = [returned EXCEPT ![w] = answer]
  /\ hasWoken' = [hasWoken EXCEPT ![w] = TRUE]
  /\ items' = [b \in Buckets |->
                 [i \in DOMAIN rest[b] |->
                    IF rest[b][i].waker = w THEN [rest[b][i] EXCEPT !.waker = Dead]
                    ELSE rest[b][i]]]
  /\ timer' = [timer EXCEPT ![w] = "none"]
  /\ pending' = [pending EXCEPT ![w] = FALSE]
  /\ result' = [result EXCEPT ![w] = "ok"]
  /\ Goto(w, "run")
  /\ expects' = [expects EXCEPT ![w] = None]
  /\ UNCHANGED <<word, lock, waking, call, counted>>

\* Mutant: the answer is that of the pause, also when the item is gone.
removeTrustsPause(w) ==
  LET b == Hash[expects[w][1]]
  IN /\ At(w, "remove") /\ Unlocked(b)
     /\ IF HasItem(items[b], w)
        THEN Finish(w, IF result[w] = "ok" THEN "EINTR" ELSE result[w],
                    [items EXCEPT ![b] = swap_remove(items[b], w)])
        ELSE Finish(w, result[w], items)

\* Mutant: the item is left in the bucket after a timeout or signal.
removeOnlyOnSuccess(w) ==
  LET b == Hash[expects[w][1]]
  IN /\ At(w, "remove") /\ Unlocked(b)
     /\ IF HasItem(items[b], w)
        THEN Finish(w, IF result[w] = "ok" THEN "EINTR" ELSE result[w],
                    IF result[w] = "ok" THEN [items EXCEPT ![b] = swap_remove(items[b], w)]
                    ELSE items)
        ELSE Finish(w, "ok", items)

\* remove_by_waker in the bucket where the wait began, and the answer: an item
\* that is gone means success, whatever the pause has returned.
remove_by_waker(w) ==
  LET b == Hash[expects[w][1]]
  IN /\ At(w, "remove") /\ Unlocked(b)
     /\ IF HasItem(items[b], w)
        THEN Finish(w, IF result[w] = "ok" THEN "EINTR" ELSE result[w],
                    [items EXCEPT ![b] = swap_remove(items[b], w)])
        ELSE Finish(w, "ok", items)

-----------------------------------------------------------------------------
(* Timers and signals *)

expire(w) ==
  /\ timer[w] = "armed"
  /\ timer' = [timer EXCEPT ![w] = "expired"]
  /\ UNCHANGED <<word, items, lock, hasWoken, pc, result, returned, expects, signalVars,
                 call, counted>>

\* The callback of the timer: waker.wake_up().
timerCallback(w) ==
  /\ timer[w] = "expired"
  /\ timer' = [timer EXCEPT ![w] = "fired"]
  /\ hasWoken' = [hasWoken EXCEPT ![w] = TRUE]
  /\ UNCHANGED <<word, items, lock, pc, result, returned, expects, signalVars, call, counted>>

\* enqueue_signal: the signal is queued (one that comes before the call has
\* locked the bucket is as one that comes right after) ...
enqueue_signal(w) ==
  /\ w \in Interruptible /\ ~At(w, "run") /\ ~pending[w] /\ ~waking[w]
  /\ pending' = [pending EXCEPT ![w] = TRUE]
  /\ waking' = [waking EXCEPT ![w] = TRUE]
  /\ UNCHANGED <<word, items, lock, hasWoken, waitVars, call, counted>>

\* ... and then the waker, if one is set by now, is woken.
wake_signalled_waker(w) ==
  /\ waking[w]
  /\ waking' = [waking EXCEPT ![w] = FALSE]
  /\ hasWoken' = IF pc[w] \in {"check", "sleep", "woken"}
                 THEN [hasWoken EXCEPT ![w] = TRUE] ELSE hasWoken
  /\ UNCHANGED <<word, items, lock, waitVars, pending, call, counted>>

-----------------------------------------------------------------------------
(* The calls that wake *)

Return(k) == call' = [call EXCEPT ![k] = NoCall]

\* User code: it stores to a word and then wakes all who wait there.
WakeAll(a) ==
  [op |-> "wake", addr1 |-> a, addr2 |-> a, bitset |-> Bits, max1 |-> Cardinality(Waiters),
   max2 |-> 0, wakeOp |-> None]

store(k, a, v) ==
  /\ call[k] = NoCall
  /\ word[a] # v
  /\ word' = [word EXCEPT ![a] = v]
  /\ call' = [call EXCEPT ![k] = WakeAll(a)]
  /\ UNCHANGED <<items, lock, hasWoken, waitVars, signalVars, counted>>

\* The buckets of a call's two keys.
Pair(c) == {Hash[c.addr1], Hash[c.addr2]}

\* Mutant: the bucket of the first address is locked first.
lockInCallOrder(c) == Hash[c.addr1]

\* lock_bucket_pairs: the bucket with the lower index is locked first.
firstLock(c) == CHOOSE b \in Pair(c) : \A d \in Pair(c) : b <= d

\* A call with two buckets begins when it has locked the first.
lock_bucket_pairs(k, c) ==
  /\ call[k] = NoCall /\ Cardinality(Pair(c)) = 2
  /\ Unlocked(firstLock(c))
  /\ lock' = [lock EXCEPT ![firstLock(c)] = k]
  /\ call' = [call EXCEPT ![k] = c]
  /\ UNCHANGED <<word, items, hasWoken, waitVars, signalVars, counted>>

\* k makes the call c and can have all locks it needs.
Makes(k, c) ==
  /\ call[k] = c \/ (call[k] = NoCall /\ Cardinality(Pair(c)) = 1)
  /\ \A b \in Pair(c) : lock[b] \in {k, None}

Unlock(k) == lock' = [b \in Buckets |-> IF lock[b] = k THEN None ELSE lock[b]]

futex_wake_bitset(k, c) ==
  LET b == Hash[c.addr1]
      woken == WakenIn(items[b], [addr |-> c.addr1, bitset |-> c.bitset], c.max1)
  IN /\ c.op = "wake" /\ Makes(k, c)
     /\ items' = [items EXCEPT ![b] = Without(@, woken)]
     /\ Wake(woken)
     /\ Return(k)
     /\ UNCHANGED <<word, lock, waitVars, signalVars>>

futex_requeue(k, c) ==
  LET b1 == Hash[c.addr1]
      b2 == Hash[c.addr2]
      key == [addr |-> c.addr1, bitset |-> Bits]
      new == [addr |-> c.addr2, bitset |-> Bits]
      woken == WakenIn(items[b1], key, c.max1)
      left == Without(items[b1], woken)
      out == requeued(left, key, c.max2)
  IN /\ c.op = "requeue" /\ Makes(k, c)
     /\ Wake(woken)
     /\ items' = IF b1 = b2
                 THEN [items EXCEPT ![b1] = update_item_keys(left, key, new, c.max2)]
                 ELSE [items EXCEPT ![b1] = Pick(left, DOMAIN left \ out),
                                    ![b2] = @ \o withKey(left, out, new)]
     /\ Unlock(k) /\ Return(k)
     /\ UNCHANGED <<word, waitVars, signalVars>>

oparg(op) == IF op.shift THEN {op.oparg % WordBits} ELSE op.oparg

\* A carry comes to bit i from below.
Carry(x, y, i) == \E j \in x \cap y : j < i /\ (j + 1) .. (i - 1) \subseteq x \cup y

wrapping_add(x, y) ==
  {i \in Positions : IF Carry(x, y, i) THEN i \in x <=> i \in y ELSE ~(i \in x <=> i \in y)}

\* FutexWakeOpEncode::calculate_new_val.
calculate_new_val(op, old) ==
  CASE op.op = "SET" -> oparg(op)
    [] op.op = "ADD" -> wrapping_add(oparg(op), old)
    [] op.op = "OR" -> oparg(op) \cup old
    [] op.op = "ANDN" -> old \ oparg(op)
    [] op.op = "XOR" -> (oparg(op) \ old) \cup (old \ oparg(op))

\* The highest bit in which x and y differ is one in y.
Less(x, y) == \E i \in y \ x : \A j \in Positions : j > i => (j \in x <=> j \in y)

\* FutexWakeOpEncode::should_wake.
should_wake(op, old) ==
  CASE op.cmp = "EQ" -> old = op.cmparg
    [] op.cmp = "NE" -> old # op.cmparg
    [] op.cmp = "LT" -> Less(old, op.cmparg)
    [] op.cmp = "LE" -> ~Less(op.cmparg, old)
    [] op.cmp = "GT" -> Less(op.cmparg, old)
    [] op.cmp = "GE" -> ~Less(old, op.cmparg)

futex_wake_op(k, c) ==
  LET b1 == Hash[c.addr1]
      b2 == Hash[c.addr2]
      old == word[c.addr2]
      woken1 == WakenIn(items[b1], [addr |-> c.addr1, bitset |-> Bits], c.max1)
      woken2 == IF should_wake(c.wakeOp, old)
                THEN WakenIn(Without(items[b2], woken1), [addr |-> c.addr2, bitset |-> Bits], c.max2)
                ELSE {}
  IN /\ c.op = "wakeOp" /\ Makes(k, c)
     /\ word' = [word EXCEPT ![c.addr2] = calculate_new_val(c.wakeOp, old)]
     /\ Wake(woken1 \cup woken2)
     /\ items' = [b \in Buckets |-> Without(items[b], woken1 \cup woken2)]
     /\ Unlock(k) /\ Return(k)
     /\ UNCHANGED <<waitVars, signalVars>>

-----------------------------------------------------------------------------

WaiterStep(w) ==
  \/ pause_timeout(w) \/ checkPending(w) \/ do_wait(w) \/ pauseEnd(w) \/ remove_by_waker(w)
  \/ timerCallback(w) \/ wake_signalled_waker(w)

Run(k, c) == futex_wake_bitset(k, c) \/ futex_requeue(k, c) \/ futex_wake_op(k, c)

AllCalls == Calls \cup {WakeAll(a) : a \in Stores}

Next ==
  /\ \/ \E w \in Waiters : WaiterStep(w) \/ expire(w) \/ enqueue_signal(w)
     \/ \E wait \in Waits, v \in Values : futex_wait_bitset(wait[1], wait[2], v, wait[3])
     \/ \E k \in Callers, c \in AllCalls : lock_bucket_pairs(k, c) \/ Run(k, c)
     \/ \E k \in Callers, a \in Stores, v \in Values : store(k, a, v)
  /\ UNCHANGED load

Spec == Init /\ [][Next]_vars

-----------------------------------------------------------------------------
(* Properties *)

TypeOK ==
  /\ word \in [Addrs -> Values]
  /\ load \in Loads
  /\ items \in [Buckets -> Seq(Item)]
  /\ lock \in [Buckets -> Callers \cup {None}]
  /\ hasWoken \in [Waiters -> BOOLEAN]
  /\ pc \in [Waiters -> {"run", "pause", "check", "sleep", "woken", "remove"}]
  /\ timer \in [Waiters -> {"none", "armed", "expired", "fired"}]
  /\ pending \in [Waiters -> BOOLEAN] /\ waking \in [Waiters -> BOOLEAN]
  /\ result \in [Waiters -> {"ok", "ETIME", "EINTR"}]
  /\ returned \in [Waiters -> {"ok", "ETIME", "EINTR"}]
  /\ call \in [Callers -> AllCalls \cup {NoCall}]
  /\ expects \in [Waiters -> (Addrs \X Values) \cup {None}]
  /\ counted \in [Waiters -> Nat]

\* "The futex item will be removed asynchronously if and only if it has been
\* woken up. In that case, we should report success to the user."  A wait that
\* has returned was successful exactly if one wake call, and only one, has
\* counted it, whatever timers and signals have done meanwhile.
SuccessIffWoken ==
  \A w \in Waiters :
    /\ counted[w] <= 1
    /\ At(w, "run") => (returned[w] = "ok" <=> counted[w] = 1)

\* "The FutexItem must be dequeued and dropped": no item outlives its wait.
NoStaleItems ==
  \A b \in Buckets : \A i \in DOMAIN items[b] : items[b][i].waker # Dead

\* "Lock the futex bucket first to avoid race conditions": a waiter that still
\* sleeps, or is going to, although its word has changed, is about to be woken
\* by the thread that changed it.  (A waiter that has been moved to another
\* address waits for that one.)
NoMissedWake ==
  \A b \in Buckets : \A i \in DOMAIN items[b] :
    LET it == items[b][i]
        w == it.waker
    IN /\ w # Dead /\ it.key.addr = expects[w][1] /\ ~hasWoken[w]
       /\ pc[w] \in {"pause", "check", "sleep"}
       /\ word[it.key.addr] # expects[w][2]
       => \E k \in Callers : call[k].op = "wake" /\ call[k].addr1 = it.key.addr

\* An item is where a wake call looks for it, however often it was moved.  (The
\* types are checked along with it.)
Findable == TypeOK /\ \A b \in Buckets : \A i \in DOMAIN items[b] : Hash[items[b][i].key.addr] = b

WaitingAt(a) == {w \in Waiters : \E b \in Buckets : \E i \in DOMAIN items[b] :
                                   items[b][i].waker = w /\ items[b][i].key.addr = a}

\* How many waiters a requeue may move.  The syscall layer says of a limit of
\* zero that "it means no requeues"; between buckets it does, but inside a
\* bucket update_item_keys counts an item after it has moved it, so one goes.
MayMove(c) == IF c.max2 = 0 /\ Hash[c.addr1] = Hash[c.addr2] THEN 1 ELSE c.max2

\* A requeue moves no more waiters to the new address than its limit says, or
\* one where the limit is zero and both addresses are in one bucket, however
\* many match and were moved there before.
RequeueAtMost ==
  [][\A k \in Callers, c \in Calls :
       futex_requeue(k, c) =>
         \A a \in {c.addr2} : Cardinality(WaitingAt(a)' \ WaitingAt(a)) <= MayMove(c)]_vars

\* "In a consistent order to avoid deadlock": no two callers each hold the
\* bucket that the other one waits for.
NoCircularWait ==
  \A k1, k2 \in {k \in Callers : call[k] # NoCall} : \A b1 \in Pair(call[k2]), b2 \in Pair(call[k1]) :
    lock[b1] = k1 /\ lock[b2] = k2 => k1 = k2

-----------------------------------------------------------------------------
(* Loads under which the properties hold for every set of waiters and callers *)

\* No requeue moves waiters between buckets.
StaysHome(l) == \A c \in l.calls : c.op = "requeue" => Hash[c.addr1] = Hash[c.addr2]

\* No waiter has a timeout or gets a signal.
Steady(l) == l.interruptible = {}

\* The waits of which a waiter always learns how they have ended.
Tame(l) == StaysHome(l) \/ Steady(l)

\* Every requeue goes from a lower to a higher rank.
Onward(l, rank) == \A c \in l.calls : c.op = "requeue" => rank[c.addr1] < rank[c.addr2]

\* No sequence of requeues brings a waiter back to an address it has left.
Forward(l) == \E rank \in [Addrs -> Nat] : Onward(l, rank)

\* A FUTEX_WAKE_OP that changes the word also wakes all who wait for it.
Heeding(l) ==
  \A c \in l.calls : c.op = "wakeOp" =>
    \A v \in Values : calculate_new_val(c.wakeOp, v) # v =>
      should_wake(c.wakeOp, v) /\ Cardinality(Waiters) <= c.max2
=============================================================================
