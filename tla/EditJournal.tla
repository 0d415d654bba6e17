---------------------------- MODULE EditJournal ----------------------------
(***************************************************************************)
(* mlsdisk's EditJournal (layers/2-edit/journal.rs) on its CryptoChain and *)
(* CryptoBlobs (layers/1-crypto) and BlockRing (layers/0-bio), with the    *)
(* DefaultCompactPolicy that TxLogStore uses, and crashes at any point     *)
(* between two writes to the device.                                       *)
(*                                                                         *)
(* The journal is behind a mutex, so that its calls come one by one; a     *)
(* call that writes to the device several times is several steps.  Edits   *)
(* are counted, edit groups are numbered, and a state is the sequence of   *)
(* the groups that were applied to it.  A MAC identifies what it is the    *)
(* MAC of: decryption fails exactly where the block was not written as a   *)
(* whole, and two MACs are equal exactly if key and contents are.          *)
(***************************************************************************)
EXTENDS Naturals, Sequences, SequencesExt

CONSTANTS
  Devices,   \* how the device may treat writes that were not flushed
  RingSize,  \* EditJournalMeta::journal_area_nblocks
  Capacity,  \* how many edits fit into a WriteBuf
  Word,      \* 2^64, where usize wraps
  MaxEdits, MaxCommits, MaxCrashes   \* bounds

ASSUME JournalAssumption ==
  /\ Devices \subseteq {"ordered", "tearing", "cached"}
  /\ RingSize \in Nat \ {0}
  /\ Capacity \in Nat \ {0}
  /\ Word \in Nat /\ Word > RingSize
  /\ MaxEdits \in 1 .. Capacity   \* "the serialized record should be less than write_buf"
  /\ MaxCommits \in Nat /\ MaxCrashes \in Nat

VARIABLES
  device,    \* the kind of device
  disk,      \* what the device returns for each location
  lost,      \* what a crash may leave in each location instead
  state,     \* EditJournal::state; when down, what it was
  group,     \* the number of edits in curr_edit_group
  writeBuf,  \* the records in the WriteBuf
  chain,     \* the block range of the CryptoChain and its last MAC
  latest,    \* SnapshotManager::latest_index
  used,      \* DefaultCompactPolicy::used_blocks
  todo,      \* the record that write has yet to buffer, while it compacts
  pc,        \* the next step of the call, or "down" or "failed"
  commits,   \* how many groups have been committed
  crashes,   \* how many crashes there have been
  blocks,    \* how many blocks were ever written to the chain
  durable    \* the state when flush returned last

memory == <<state, group, writeBuf, chain, latest, used, todo>>
vars == <<device, disk, lost, memory, pc, commits, crashes, blocks, durable>>

-----------------------------------------------------------------------------
(* The device: two snapshot areas and then the ring of the journal *)

Garbage == [is |-> "garbage"]
Blobs == {0, 1}
Ring(id) == 2 + (id % RingSize)
Locations == 0 .. RingSize + 1

\* What a write leaves behind if a crash comes before the next flush.  Only
\* the last write of an "ordered" device may be lost, and that of a "tearing"
\* one also be done by half; a "cached" one may lose or tear any of them.
Loses(l) == IF device = "ordered" THEN {disk[l]} ELSE {disk[l], Garbage}

Write(l, content) ==
  /\ disk' = [disk EXCEPT ![l] = content]
  /\ lost' = [m \in Locations |->
                (IF device = "cached" THEN lost[m] ELSE {}) \cup (IF m = l THEN Loses(l) ELSE {})]

-----------------------------------------------------------------------------
(* Blobs, blocks and records *)

Blob(version, contents, from) ==
  [is |-> "blob", version |-> version, state |-> contents, recover_from |-> from]

\* CryptoBlob::current_mac: the two blobs have keys of their own.
Mac(i, blob) == <<i, blob>>

Block(mac, pre, records) == [is |-> "block", mac |-> mac, pre_mac |-> pre, records |-> records]
Edit(id, n) == [is |-> "edit", id |-> id, size |-> n]
Version(mac) == [is |-> "version", mac |-> mac, size |-> 1]
None == [is |-> "none"]
Flush == [is |-> "flush"]

Size(records) == FoldLeft(LAMBDA n, r : n + r.size, 0, records)

NoMac == 0
Length(c) == c.end - c.start

\* EditJournal::format.
Init ==
  LET first == Blob(0, <<>>, 0)
  IN /\ device \in Devices
     /\ disk = [l \in Locations |->
                  IF l \in Blobs THEN first
                  ELSE IF l = Ring(0) THEN Block(1, NoMac, <<Version(Mac(0, first))>>)
                  ELSE Garbage]
     /\ lost = [l \in Locations |-> {}]
     /\ state = <<>> /\ group = 0 /\ writeBuf = <<>>
     /\ chain = [start |-> 0, end |-> 1, last |-> 1]
     /\ latest = 0 /\ used = 1 /\ todo = None
     /\ pc = "idle"
     /\ commits = 0 /\ crashes = 0 /\ blocks = 1 /\ durable = <<>>

-----------------------------------------------------------------------------
(* Committing *)

\* CryptoChain::append, to the ring behind it.
append(records) ==
  /\ Write(Ring(chain.end), Block(blocks + 1, chain.last, records))
  /\ blocks' = blocks + 1

Appended == [start |-> chain.start, end |-> chain.end + 1, last |-> blocks + 1]

\* DefaultCompactPolicy, whose count wraps in a release build.
on_append_journal(u) == (u + 1) % Word
\* Mutant: compaction is due one block too late.
compactsLate(u) == u > RingSize
should_compact(u) == u >= RingSize
done_compact(u, compacted) == (u + Word - compacted) % Word

add ==
  /\ pc = "idle" /\ group < MaxEdits
  /\ group' = group + 1
  /\ UNCHANGED <<device, disk, lost, state, writeBuf, chain, latest, used, todo, pc, commits,
                 crashes, blocks, durable>>

abort ==
  /\ pc = "idle" /\ group > 0
  /\ group' = 0
  /\ UNCHANGED <<device, disk, lost, state, writeBuf, chain, latest, used, todo, pc, commits,
                 crashes, blocks, durable>>

\* The second half of commit: the record is in the buffer, the group applied.
Commit(record, buffered) ==
  /\ writeBuf' = Append(buffered, record)
  /\ state' = Append(state, record.id)

\* commit and write.  A record that does not fit sends the buffer to the
\* journal first (append_write_buf_to_journal), which may have to compact.
commit ==
  LET record == Edit(commits + 1, group)
      fits == Size(writeBuf) + group <= Capacity
      compacts == should_compact(on_append_journal(used))
  IN /\ pc = "idle" /\ group > 0 /\ commits < MaxCommits
     /\ group' = 0
     /\ commits' = commits + 1
     /\ IF fits
        THEN /\ Commit(record, writeBuf)
             /\ UNCHANGED <<disk, lost, chain, used, todo, pc, blocks>>
        ELSE /\ append(writeBuf)
             /\ chain' = Appended
             /\ used' = on_append_journal(used)
             /\ IF compacts
                THEN /\ todo' = record /\ pc' = "compact"
                     /\ writeBuf' = <<>> /\ UNCHANGED state
                ELSE Commit(record, <<>>) /\ UNCHANGED <<todo, pc>>
     /\ UNCHANGED <<device, latest, crashes, durable>>

-----------------------------------------------------------------------------
(* Compaction *)

\* Mutant: the latest blob is overwritten.
persistLatest ==
  /\ pc = "compact"
  /\ Write(latest, Blob(disk[latest].version + 1, state, chain.end))
  /\ pc' = "version"
  /\ UNCHANGED <<device, state, group, writeBuf, chain, latest, used, todo, commits, crashes,
                 blocks, durable>>

\* SnapshotManager::persist: the older blob is overwritten.
persist ==
  LET index == (latest + 1) % 2
  IN /\ pc = "compact"
     /\ Write(index, Blob(disk[index].version + 1, state, chain.end))
     /\ latest' = index
     /\ pc' = "version"
     /\ UNCHANGED <<device, state, group, writeBuf, chain, used, todo, commits, crashes, blocks,
                    durable>>

\* Mutant: the policy does not hear of the block with the Version record.
compactUncounted ==
  /\ pc = "version"
  /\ append(<<Version(Mac(latest, disk[latest]))>>)
  /\ chain' = [Appended EXCEPT !.start = chain.end]
  /\ used' = done_compact(used, Length(Appended) - 1)
  /\ todo' = None
  /\ IF todo = Flush THEN pc' = "flush" /\ UNCHANGED <<writeBuf, state>>
     ELSE pc' = "idle" /\ Commit(todo, <<>>)
  /\ UNCHANGED <<device, group, latest, commits, crashes, durable>>

\* The rest of compact: the MAC of the snapshot goes to the journal, which is
\* trimmed to that one block; then write or flush goes on.
compact ==
  /\ pc = "version"
  /\ append(<<Version(Mac(latest, disk[latest]))>>)
  /\ chain' = [Appended EXCEPT !.start = chain.end]
  /\ used' = done_compact(on_append_journal(used), Length(Appended) - 1)
  /\ todo' = None
  /\ IF todo = Flush THEN pc' = "flush" /\ UNCHANGED <<writeBuf, state>>
     ELSE pc' = "idle" /\ Commit(todo, <<>>)
  /\ UNCHANGED <<device, group, latest, commits, crashes, durable>>

-----------------------------------------------------------------------------
(* Flushing *)

flush ==
  /\ pc = "idle"
  /\ IF writeBuf = <<>>
     THEN pc' = "flush" /\ UNCHANGED <<disk, lost, chain, used, todo, writeBuf, blocks>>
     ELSE /\ append(writeBuf)
          /\ chain' = Appended
          /\ used' = on_append_journal(used)
          /\ writeBuf' = <<>>
          /\ IF should_compact(on_append_journal(used)) THEN todo' = Flush /\ pc' = "compact"
             ELSE pc' = "flush" /\ UNCHANGED todo
  /\ UNCHANGED <<device, state, group, latest, commits, crashes, durable>>

\* journal_chain.flush().
flushDevice ==
  /\ pc = "flush"
  /\ lost' = [l \in Locations |-> {}]
  /\ durable' = state
  /\ pc' = "idle"
  /\ UNCHANGED <<device, disk, memory, commits, crashes, blocks>>

-----------------------------------------------------------------------------
(* Crash and recovery *)

Unflushed == {l \in Locations : lost[l] # {}}

\* What is in memory is gone, and of each unflushed write it is open whether
\* the device has done it.
crash ==
  /\ pc \notin {"down", "failed"} /\ crashes < MaxCrashes
  /\ \E kept \in [Unflushed -> {None} \cup UNION {lost[l] : l \in Unflushed}] :
       disk' = [l \in Locations |->
                  IF l \in Unflushed /\ kept[l] \in lost[l] THEN kept[l] ELSE disk[l]]
  /\ lost' = [l \in Locations |-> {}]
  /\ group' = 0 /\ writeBuf' = <<>> /\ todo' = None
  /\ chain' = [start |-> 0, end |-> 0, last |-> NoMac] /\ latest' = 0 /\ used' = 0
  /\ pc' = "down"
  /\ crashes' = crashes + 1
  /\ UNCHANGED <<device, state, commits, blocks, durable>>

Readable(l) == disk[l] # Garbage

\* Mutant: the chaining of the MACs is not checked.
readsUnchained(first, n) ==
  LET block(i) == disk[Ring(first + i)]
  IN /\ \A i \in 0 .. n - 1 : block(i) # Garbage
     /\ n < RingSize => block(n) = Garbage

\* Recovery::next: it reads n blocks, from the first one on, and then stops.
\* The pre_mac of the first is not checked.
reads(first, n) ==
  LET block(i) == disk[Ring(first + i)]
      Chained(b, c) == b # Garbage /\ b.mac = c.pre_mac
      Valid(i) == block(i) # Garbage /\ (i > 0 => Chained(block(i - 1), block(i)))
  IN /\ \A i \in 0 .. n - 1 : Valid(i)
     /\ n < RingSize => ~Valid(n)

\* The replay of recover: edits count from the Version record of mac on.
replay(records, mac, contents) ==
  FoldLeft(LAMBDA r, record :
             IF record.is = "version" THEN [r EXCEPT !.apply = @ \/ record.mac = mac]
             ELSE IF r.apply THEN [r EXCEPT !.state = Append(@, record.id)] ELSE r,
           [apply |-> FALSE, state |-> contents], records)

\* Mutant: with equal versions the second blob counts as the latest.
latestIsSecond(v0, v1) == IF v0 = v1 \/ v0 + 1 = v1 THEN {1} ELSE {}

\* SnapshotManager::recover: a blob that cannot be read is written anew from
\* the other one.  DEFAULT_LATEST_INDEX is 0.
repaired(i) == IF Readable(i) THEN disk[i] ELSE disk[1 - i]
latestOf(v0, v1) == IF v0 = v1 THEN {0} ELSE IF v0 + 1 = v1 THEN {1} ELSE {}

recoverable ==
  /\ \E i \in Blobs : Readable(i)
  /\ latestOf(repaired(0).version, repaired(1).version) # {}

repair ==
  IF \A i \in Blobs : Readable(i) THEN UNCHANGED <<disk, lost>>
  ELSE LET i == CHOOSE j \in Blobs : ~Readable(j) IN Write(i, repaired(i))

recover ==
  /\ pc = "down" /\ recoverable
  /\ \E index \in latestOf(repaired(0).version, repaired(1).version), n \in 0 .. RingSize :
       LET snapshot == repaired(index)
           first == snapshot.recover_from
           read == [i \in 1 .. n |-> disk[Ring(first + i - 1)]]
           records == FlattenSeq([i \in 1 .. n |-> read[i].records])
       IN /\ reads(first, n)
          /\ latest' = index
          /\ state' = replay(records, Mac(index, snapshot), snapshot.state).state
          /\ chain' = [start |-> first, end |-> first + n,
                       last |-> IF n = 0 THEN NoMac ELSE read[n].mac]
  /\ repair
  /\ used' = 0
  /\ pc' = "idle"
  /\ UNCHANGED <<device, group, writeBuf, todo, commits, crashes, blocks, durable>>

\* Both snapshots are unreadable, or their versions do not go together.
recoverFails ==
  /\ pc = "down" /\ ~recoverable
  /\ pc' = "failed"
  /\ UNCHANGED <<device, disk, lost, memory, commits, crashes, blocks, durable>>

-----------------------------------------------------------------------------

Next ==
  \/ add \/ abort \/ commit \/ persist \/ compact \/ flush \/ flushDevice
  \/ crash \/ recover \/ recoverFails

Spec == Init /\ [][Next]_vars

-----------------------------------------------------------------------------
(* Properties *)

Up == pc \notin {"down", "failed"}

\* What may be stored where.
IsBlob(b) == b.is = "blob" /\ b.version \in Nat /\ b.recover_from \in Nat
IsBlock(b) == b.is = "block" /\ b.mac \in Nat
Belongs(l, c) == c = Garbage \/ IF l \in Blobs THEN IsBlob(c) ELSE IsBlock(c)

TypeOK ==
  /\ device \in Devices
  /\ disk = [l \in Locations |-> disk[l]]
  /\ lost = [l \in Locations |-> lost[l]]
  /\ \A l \in Locations : Belongs(l, disk[l]) /\ \A c \in lost[l] : Belongs(l, c)
  /\ group \in 0 .. MaxEdits
  /\ chain \in [start : Nat, end : Nat, last : Nat]
  /\ latest \in Blobs
  /\ used \in 0 .. Word - 1
  /\ pc \in {"idle", "compact", "version", "flush", "down", "failed"}
  /\ commits \in 0 .. MaxCommits
  /\ crashes \in 0 .. MaxCrashes
  /\ blocks \in Nat

\* SnapshotManager::recover finds a snapshot in these contents of the blobs.
InStep(b0, b1) ==
  /\ IsBlob(b0) /\ IsBlob(b1)
  /\ b1.version \in {b0.version, b0.version + 1}
Recovers(b0, b1) ==
  \/ InStep(b0, b1)
  \/ IsBlob(b0) /\ b1 = Garbage
  \/ b0 = Garbage /\ IsBlob(b1)

\* Without a volatile cache at most one write is undecided.
OneUndecided == \A l, m \in Locations : lost[l] # {} /\ lost[m] # {} => l = m

\* While the journal is up, the second blob is a version ahead of the first
\* exactly if it is the latest; and whatever becomes of an undecided write to a
\* blob, the two blobs still allow recovery.
BlobsInStep ==
  /\ InStep(disk[0], disk[1])
  /\ latest = 1 <=> disk[1].version = disk[0].version + 1
  /\ \A b \in lost[0] : Recovers(b, disk[1])
  /\ \A b \in lost[1] : Recovers(disk[0], b)

\* The inductive invariant behind AlwaysRecovers: persist overwrites the older
\* blob and so keeps the two in step, also after recovery has repaired one.
IInv ==
  /\ TypeOK
  /\ Up => \A i \in Blobs : IsBlob(disk[i])
  /\ device # "cached" =>
       /\ OneUndecided
       /\ Up => BlobsInStep
       /\ pc = "down" => Recovers(disk[0], disk[1]) /\ \A l \in Locations : lost[l] = {}
       /\ pc # "failed"

\* "Each EditJournal keeps two copies of the snapshots so that even one of
\* them is corrupted due to unexpected crashes, the other is still valid":
\* whenever the crash comes, also in compaction or in the repair after an
\* earlier crash, recovery finds a snapshot and accepts the versions.  This is
\* for a device without a volatile cache, since nothing is flushed between two
\* compactions.
AlwaysRecovers == device # "cached" => pc # "failed"

\* "Ensure that all committed edits are persisted to disk": what was committed
\* when flush last returned is in the state of the journal, also after a
\* recovery.
FlushedSurvives == Up => IsPrefix(durable, state)

\* The same for the first crash, of a device that keeps its writes in order
\* and whole: compaction never overwrites a block of the ring that recovery
\* still needs, and it may be interrupted anywhere.
FlushedSurvivesOnce == device = "ordered" /\ crashes <= 1 => FlushedSurvives

\* Until the first crash the policy counts exactly the blocks of the chain, so
\* that the journal compacts before the ring is overrun, and the assertion of
\* done_compact (used_blocks >= compacted_blocks) holds.  A ring of one block,
\* which the code accepts, is overrun by the first append: its one block is in
\* use from the start, and the policy is asked only after it.
PolicyCounts == RingSize > 1 /\ crashes = 0 => used = Length(chain) /\ used <= RingSize

\* PolicyCounts and, to make it inductive, when compaction is due.
PolicyInv ==
  RingSize > 1 /\ crashes = 0 =>
    /\ used = Length(chain)
    /\ IF pc \in {"idle", "flush"} THEN used < RingSize
       ELSE pc \in {"compact", "version"} /\ used = RingSize

\* The journal implements the log: what a recovery finds is a prefix of what
\* was committed, on every device, also after a crash of what an earlier
\* recovery has left.
Log == INSTANCE AbstractLog WITH Groups <- 1 .. MaxCommits, log <- state
Refines == Log!Spec
=============================================================================
