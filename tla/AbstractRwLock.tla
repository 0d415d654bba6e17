--------------------------- MODULE AbstractRwLock ---------------------------
(***************************************************************************)
(* What RwLock and RwMutex promise: any number of readers, beside them at  *)
(* most one upgradeable reader, or one writer alone.  Upgrading and        *)
(* downgrading are atomic: nobody else writes in between.                  *)
(***************************************************************************)
CONSTANT Threads

VARIABLE owns   \* the guard each thread owns

Guards == {"none", "read", "write", "upread"}

Init == owns = [t \in Threads |-> "none"]

Nobody(ks) == \A t \in Threads : owns[t] \notin ks

Become(t, k) == owns' = [owns EXCEPT ![t] = k]

Read(t)   == owns[t] = "none" /\ Nobody({"write"}) /\ Become(t, "read")
Upread(t) == owns[t] = "none" /\ Nobody({"write", "upread"}) /\ Become(t, "upread")
Write(t)  == owns[t] = "none" /\ Nobody(Guards \ {"none"}) /\ Become(t, "write")

Release(t) == owns[t] # "none" /\ Become(t, "none")

Upgrade(t) == owns[t] = "upread" /\ Nobody({"read", "write"}) /\ Become(t, "write")

Downgrade(t) == owns[t] = "write" /\ Become(t, "upread")

Next == \E t \in Threads :
  Read(t) \/ Upread(t) \/ Write(t) \/ Release(t) \/ Upgrade(t) \/ Downgrade(t)

Spec == Init /\ [][Next]_owns

\* A writer is alone, and there is at most one upgradeable reader.
Exclusion ==
  \A t, u \in Threads :
    t # u => /\ owns[t] = "write" => owns[u] = "none"
             /\ ~(owns[t] = "upread" /\ owns[u] = "upread")
=============================================================================
