------------------------- MODULE EditJournalProofs -------------------------
(***************************************************************************)
(* EditJournal recovers from every crash, for every size of the ring and   *)
(* of the write buffer and every number of commits and crashes, on devices *)
(* without a volatile cache.                                               *)
(***************************************************************************)
EXTENDS EditJournal, TLAPS

\* Zenon proves most leaves below; those it does not reach name SMT.
USE Zenon

\* Blocks of the chain go to the ring, never into the snapshot areas.
LEMMA RingIsApart ==
  ASSUME NEW id \in Nat
  PROVE  Ring(id) \in Locations \ Blobs
BY JournalAssumption, SMT DEF Ring, Locations, Blobs

\* The two snapshot areas.
LEMMA BlobsAreLocations == /\ 0 \in Locations /\ 1 \in Locations
                           /\ Blobs = {0, 1}
BY JournalAssumption, SMT DEF Locations, Blobs

\* A write to a location of contents that belong there keeps the device
\* well-typed.
LEMMA WriteTyped ==
  ASSUME TypeOK, NEW l \in Locations, NEW c, Belongs(l, c), Write(l, c)
  PROVE  /\ disk' = [m \in Locations |-> disk'[m]]
         /\ lost' = [m \in Locations |-> lost'[m]]
         /\ \A m \in Locations : Belongs(m, disk'[m]) /\ \A b \in lost'[m] : Belongs(m, b)
<1>1. disk' = [m \in Locations |-> IF m = l THEN c ELSE disk[m]]
  BY DEF TypeOK, Write
<1>2. \A m \in Locations : lost'[m] \subseteq
        lost[m] \cup (IF m = l THEN {disk[l], Garbage} ELSE {})
  BY DEF Write, Loses
<1>3. lost' = [m \in Locations |-> lost'[m]]
  BY DEF Write
<1>4. \A m \in Locations : Belongs(m, Garbage)
  BY DEF Belongs
<1>5. \A m \in Locations : Belongs(m, disk'[m])
  BY <1>1 DEF TypeOK
<1>6. \A m \in Locations : \A b \in lost'[m] : Belongs(m, b)
  BY <1>2, <1>4 DEF TypeOK
<1> QED
  BY <1>1, <1>3, <1>5, <1>6

\* Without a cache only the last write is undecided: it is lost, or torn.
LEMMA WriteUndecided ==
  ASSUME TypeOK, device # "cached", NEW l \in Locations, NEW c, Write(l, c)
  PROVE  /\ \A m \in Locations : m # l => disk'[m] = disk[m] /\ lost'[m] = {}
         /\ disk'[l] = c
         /\ lost'[l] \subseteq {disk[l], Garbage}
BY DEF TypeOK, Write, Loses

\* The freshly formatted journal.
LEMMA Initial == Init => IInv
<1> SUFFICES ASSUME Init PROVE IInv
  OBVIOUS
<1> DEFINE first == Blob(0, <<>>, 0)
<1>1. IsBlob(first)
  BY DEF Blob, IsBlob
<1>2. disk[0] = first /\ disk[1] = first /\ lost[0] = {} /\ lost[1] = {}
  BY BlobsAreLocations DEF Init
<1>3. \A l \in Locations : Belongs(l, disk[l]) /\ lost[l] = {}
  BY <1>1 DEF Init, Belongs, IsBlock, Block
<1>4. TypeOK
  BY <1>3, JournalAssumption, BlobsAreLocations, SMT DEF Init, TypeOK
<1>5. OneUndecided
  BY <1>3 DEF OneUndecided
<1>6. BlobsInStep
  <2> HIDE DEF first
  <2>1. first.version \in Nat /\ first.version # first.version + 1
    BY <1>1, SMT DEF IsBlob
  <2>2. latest = 0
    BY DEF Init
  <2> QED BY <1>1, <1>2, <2>1, <2>2, SMT DEF BlobsInStep, InStep
<1>7. pc = "idle"
  BY DEF Init
<1> QED BY <1>1, <1>2, <1>4, <1>5, <1>6, <1>7, BlobsAreLocations DEF IInv

\* A step that appends a block to the chain, and otherwise touches neither the
\* device nor latest_index, keeps the invariant if it keeps the types.
LEMMA AppendStep ==
  ASSUME IInv, Up, NEW records, append(records), UNCHANGED <<device, latest>>, Up', TypeOK'
  PROVE  IInv'
<1> DEFINE l == Ring(chain.end)
<1>1. l \in Locations \ Blobs
  BY RingIsApart DEF IInv, TypeOK
<1>2. Write(l, Block(blocks + 1, chain.last, records))
  BY DEF append
<1> HIDE DEF l
<1>3. disk'[0] = disk[0] /\ disk'[1] = disk[1]
  BY <1>1, <1>2, BlobsAreLocations DEF Write, IInv, TypeOK
<1>4. \A i \in Blobs : IsBlob(disk'[i])
  BY <1>3, BlobsAreLocations DEF IInv
<1>5. CASE device # "cached"
  <2>1. \A m \in Locations : m # l => lost'[m] = {}
    BY <1>1, <1>2, <1>5, WriteUndecided DEF IInv
  <2>2. OneUndecided'
    BY <2>1 DEF OneUndecided, Locations
  <2>3. lost'[0] = {} /\ lost'[1] = {}
    BY <1>1, <2>1, BlobsAreLocations
  <2>4. BlobsInStep'
    BY <1>3, <1>5, <2>3 DEF IInv, BlobsInStep
  <2> QED BY <1>4, <2>2, <2>4 DEF IInv, Up
<1>6. CASE device = "cached"
  BY <1>4, <1>6 DEF IInv
<1> QED BY <1>5, <1>6

\* The types after a block was appended.
LEMMA AppendTyped ==
  ASSUME TypeOK, NEW records, append(records)
  PROVE  /\ disk' = [m \in Locations |-> disk'[m]]
         /\ lost' = [m \in Locations |-> lost'[m]]
         /\ \A m \in Locations : Belongs(m, disk'[m]) /\ \A b \in lost'[m] : Belongs(m, b)
         /\ Appended \in [start : Nat, end : Nat, last : Nat]
         /\ blocks' \in Nat
<1> DEFINE l == Ring(chain.end)
           c == Block(blocks + 1, chain.last, records)
<1>1. l \in Locations \ Blobs
  BY RingIsApart DEF TypeOK
<1>2. Belongs(l, c)
  BY <1>1, SMT DEF Belongs, IsBlock, Block, TypeOK
<1>3. Write(l, c)
  BY DEF append
<1>4. /\ disk' = [m \in Locations |-> disk'[m]]
      /\ lost' = [m \in Locations |-> lost'[m]]
      /\ \A m \in Locations : Belongs(m, disk'[m]) /\ \A b \in lost'[m] : Belongs(m, b)
  <2> HIDE DEF l, c
  <2> QED BY <1>1, <1>2, <1>3, WriteTyped
<1>5. blocks \in Nat /\ chain \in [start : Nat, end : Nat, last : Nat]
  BY DEF TypeOK
<1>7. Appended \in [start : Nat, end : Nat, last : Nat]
  BY <1>5, SMT DEF Appended
<1>8. blocks' \in Nat
  BY <1>5, SMT DEF append
<1> QED BY <1>4, <1>7, <1>8

\* The count of the policy stays a machine word.
LEMMA PolicyTyped ==
  ASSUME NEW u \in 0 .. Word - 1, NEW n \in Int
  PROVE  /\ on_append_journal(u) \in 0 .. Word - 1
         /\ done_compact(u, n) \in 0 .. Word - 1
BY JournalAssumption, SMT DEF on_append_journal, done_compact

\* commit, with and without a block appended, and with and without compaction.
LEMMA CommitStep == ASSUME IInv, commit PROVE IInv'
<1> DEFINE fits == Size(writeBuf) + group <= Capacity
<1>1. /\ device' = device /\ latest' = latest /\ crashes' = crashes
      /\ group' = 0 /\ commits' = commits + 1 /\ commits < MaxCommits /\ pc = "idle"
  BY DEF commit
<1>2. group' \in 0 .. MaxEdits /\ commits' \in 0 .. MaxCommits /\ Up
  BY <1>1, JournalAssumption, SMT DEF IInv, TypeOK, Up
<1>3. CASE fits
  <2>1. UNCHANGED <<disk, lost, chain, used, pc, blocks>>
    BY <1>3 DEF commit
  <2>2. TypeOK'
    BY <1>1, <1>2, <2>1 DEF IInv, TypeOK
  <2> QED BY <1>1, <2>1, <2>2 DEF IInv, OneUndecided, BlobsInStep, Up
<1>4. CASE ~fits
  <2>1. /\ append(writeBuf) /\ chain' = Appended /\ used' = on_append_journal(used)
        /\ pc' \in {"compact", "idle"}
    BY <1>1, <1>4 DEF commit
  <2>2. used' \in 0 .. Word - 1
    BY <2>1, PolicyTyped, SMT DEF IInv, TypeOK
  <2>3. TypeOK'
    BY <1>1, <1>2, <2>1, <2>2, AppendTyped DEF IInv, TypeOK
  <2>4. Up'
    BY <2>1 DEF Up
  <2> QED BY <1>1, <1>2, <2>1, <2>3, <2>4, AppendStep
<1> QED BY <1>3, <1>4

\* flush, up to the flush of the device.
LEMMA FlushStep == ASSUME IInv, flush PROVE IInv'
<1>1. UNCHANGED <<device, latest, group, crashes, commits>> /\ pc = "idle" /\ Up
  BY DEF flush, Up
<1>2. CASE writeBuf = <<>>
  <2>1. pc' = "flush" /\ UNCHANGED <<disk, lost, chain, used, blocks>>
    BY <1>2 DEF flush
  <2>2. TypeOK'
    BY <1>1, <2>1 DEF IInv, TypeOK
  <2> QED BY <1>1, <2>1, <2>2 DEF IInv, OneUndecided, BlobsInStep, Up
<1>3. CASE writeBuf # <<>>
  <2>1. /\ append(writeBuf) /\ chain' = Appended /\ used' = on_append_journal(used)
        /\ pc' \in {"compact", "flush"}
    BY <1>3 DEF flush
  <2>2. used' \in 0 .. Word - 1
    BY <2>1, PolicyTyped, SMT DEF IInv, TypeOK
  <2>3. TypeOK'
    BY <1>1, <2>1, <2>2, AppendTyped DEF IInv, TypeOK
  <2>4. Up'
    BY <2>1 DEF Up
  <2> QED BY <1>1, <2>1, <2>3, <2>4, AppendStep
<1> QED BY <1>2, <1>3

\* The end of compact.
LEMMA CompactStep == ASSUME IInv, compact PROVE IInv'
<1> DEFINE records == <<Version(Mac(latest, disk[latest]))>>
           n == Length(Appended) - 1
<1>1. UNCHANGED <<device, latest, group, crashes, commits>> /\ Up
  BY DEF compact, Up
<1>2. /\ append(records) /\ chain' = [Appended EXCEPT !.start = chain.end]
      /\ used' = done_compact(on_append_journal(used), n)
      /\ pc' \in {"flush", "idle"}
  BY DEF compact
<1> HIDE DEF records
<1>3. Appended \in [start : Nat, end : Nat, last : Nat]
  BY <1>2, AppendTyped DEF IInv
<1>4. used' \in 0 .. Word - 1
  <2>1. n \in Int
    BY <1>3, SMT DEF Length
  <2>2. on_append_journal(used) \in 0 .. Word - 1
    BY PolicyTyped, SMT DEF IInv, TypeOK
  <2> HIDE DEF n
  <2> QED BY <1>2, <2>1, <2>2, PolicyTyped
<1>5. chain' \in [start : Nat, end : Nat, last : Nat]
  BY <1>2, <1>3 DEF IInv, TypeOK
<1>6. TypeOK'
  BY <1>1, <1>2, <1>4, <1>5, AppendTyped DEF IInv, TypeOK
<1>7. Up'
  BY <1>2 DEF Up
<1> QED BY <1>1, <1>2, <1>6, <1>7, AppendStep

\* persist overwrites the older blob: the two stay in step, and so do the older
\* contents of that blob, or none, with the other one.
LEMMA PersistStep == ASSUME IInv, persist PROVE IInv'
<1> DEFINE i == (latest + 1) % 2
           c == Blob(disk[i].version + 1, state, chain.end)
<1>1. /\ pc = "compact" /\ pc' = "version" /\ Up /\ Up'
      /\ Write(i, c) /\ latest' = i
      /\ UNCHANGED <<device, group, chain, used, commits, crashes, blocks>>
  BY DEF persist, Up
<1>2. i \in Blobs /\ i \in Locations /\ i = 1 - latest
  BY BlobsAreLocations, SMT DEF IInv, TypeOK
<1>3. IsBlob(disk[0]) /\ IsBlob(disk[1])
  BY <1>1, BlobsAreLocations DEF IInv
<1>4. IsBlob(c) /\ c.version = disk[i].version + 1
  BY <1>2, <1>3, SMT DEF Blob, IsBlob, IInv, TypeOK, Blobs
<1>5. Belongs(i, c)
  BY <1>2, <1>4 DEF Belongs
<1> HIDE DEF i, c
<1>6. TypeOK'
  BY <1>1, <1>2, <1>5, WriteTyped DEF IInv, TypeOK
<1>7. \A j \in Blobs : IsBlob(disk'[j])
  BY <1>1, <1>2, <1>3, <1>4, BlobsAreLocations DEF Write, IInv, TypeOK
<1>8. CASE device # "cached"
  <2>1. /\ latest = 0 => disk[1].version = disk[0].version
        /\ latest = 1 => disk[1].version = disk[0].version + 1
    BY <1>1, <1>8 DEF IInv, BlobsInStep, InStep, TypeOK, Blobs
  <2>4. /\ \A m \in Locations : m # i => disk'[m] = disk[m] /\ lost'[m] = {}
        /\ disk'[i] = c /\ lost'[i] \subseteq {disk[i], Garbage}
    BY <1>1, <1>2, <1>8, WriteUndecided DEF IInv
  <2>6. OneUndecided'
    BY <2>4 DEF OneUndecided, Locations
  <2>7. BlobsInStep'
    <3>1. CASE latest = 0
      <4>1. i = 1 /\ latest' = 1
        BY <1>1, <1>2, <3>1, SMT
      <4>2. disk'[0] = disk[0] /\ lost'[0] = {} /\ disk'[1] = c
            /\ lost'[1] \subseteq {disk[1], Garbage}
        BY <2>4, <4>1, BlobsAreLocations, SMT
      <4>3. c.version = disk[0].version + 1
        BY <1>4, <2>1, <3>1, <4>1
      <4>4. InStep(disk[0], disk[1])
        BY <1>3, <2>1, <3>1 DEF InStep
      <4> QED BY <1>3, <1>4, <4>1, <4>2, <4>3, <4>4 DEF BlobsInStep, InStep, Recovers
    <3>2. CASE latest = 1
      <4>1. i = 0 /\ latest' = 0
        BY <1>1, <1>2, <3>2, SMT
      <4>2. disk'[1] = disk[1] /\ lost'[1] = {} /\ disk'[0] = c
            /\ lost'[0] \subseteq {disk[0], Garbage}
        BY <2>4, <4>1, BlobsAreLocations, SMT
      <4>3. c.version = disk[1].version /\ c.version \in Nat
        BY <1>4, <2>1, <3>2, <4>1 DEF IsBlob
      <4>4. InStep(disk[0], disk[1])
        BY <1>3, <2>1, <3>2 DEF InStep
      <4> QED BY <1>3, <1>4, <4>1, <4>2, <4>3, <4>4, SMT DEF BlobsInStep, InStep, Recovers
    <3> QED BY <3>1, <3>2, BlobsAreLocations DEF IInv, TypeOK
  <2> QED BY <1>1, <1>6, <1>7, <2>6, <2>7 DEF IInv, Up
<1>9. CASE device = "cached"
  BY <1>1, <1>6, <1>7, <1>9 DEF IInv
<1> QED BY <1>8, <1>9

\* A crash: each location keeps what it has or one of the contents in lost.
LEMMA CrashStep == ASSUME IInv, crash PROVE IInv'
<1>1. /\ Up /\ pc' = "down" /\ crashes' = crashes + 1 /\ crashes < MaxCrashes
      /\ lost' = [l \in Locations |-> {}] /\ group' = 0 /\ latest' = 0 /\ used' = 0
      /\ chain' = [start |-> 0, end |-> 0, last |-> 0]
      /\ UNCHANGED <<device, commits, blocks>>
  BY DEF crash, Up, NoMac
<1>2. /\ disk' = [l \in Locations |-> disk'[l]]
      /\ \A l \in Locations : disk'[l] = disk[l] \/ disk'[l] \in lost[l]
  BY DEF crash
<1>3. TypeOK'
  BY <1>1, <1>2, JournalAssumption, BlobsAreLocations, SMT DEF IInv, TypeOK
<1>4. CASE device # "cached"
  <2>1. OneUndecided'
    BY <1>1 DEF OneUndecided
  <2>2. OneUndecided /\ BlobsInStep
    BY <1>1, <1>4 DEF IInv
  <2>3. disk'[0] = disk[0] \/ disk'[1] = disk[1]
    BY <1>2, <2>2, BlobsAreLocations, SMT DEF OneUndecided
  <2>4. Recovers(disk'[0], disk'[1])
    BY <1>2, <2>2, <2>3, BlobsAreLocations DEF BlobsInStep, Recovers
  <2> QED BY <1>1, <1>3, <2>1, <2>4 DEF IInv, Up
<1>5. CASE device = "cached"
  BY <1>1, <1>3, <1>5 DEF IInv, Up
<1> QED BY <1>4, <1>5

\* What recovery works with, if it does not fail: two blobs, of which one may
\* be a copy of the other.
LEMMA RepairedAreBlobs ==
  ASSUME TypeOK, recoverable
  PROVE  IsBlob(repaired(0)) /\ IsBlob(repaired(1))
BY BlobsAreLocations, SMT DEF TypeOK, recoverable, Readable, repaired, Belongs

\* The repair of a blob: the device then returns the repaired contents.
LEMMA RepairStep ==
  ASSUME TypeOK, recoverable, repair
  PROVE  /\ disk' = [l \in Locations |-> disk'[l]]
         /\ lost' = [l \in Locations |-> lost'[l]]
         /\ \A l \in Locations : Belongs(l, disk'[l]) /\ \A b \in lost'[l] : Belongs(l, b)
         /\ disk'[0] = repaired(0) /\ disk'[1] = repaired(1)
         /\ \/ UNCHANGED <<disk, lost>>
            \/ \E i \in Blobs : disk[i] = Garbage /\ Write(i, repaired(i))
<1>1. IsBlob(repaired(0)) /\ IsBlob(repaired(1))
  BY RepairedAreBlobs
<1>2. CASE \A i \in Blobs : Readable(i)
  BY <1>2, BlobsAreLocations DEF repair, TypeOK, repaired
<1>3. CASE ~\A i \in Blobs : Readable(i)
  <2>1. PICK i \in Blobs : ~Readable(i) /\ Write(i, repaired(i))
    BY <1>3 DEF repair
  <2>2. i \in Locations /\ Belongs(i, repaired(i))
    BY <1>1, BlobsAreLocations DEF Belongs
  <2>3. disk[i] = Garbage /\ disk[1 - i] # Garbage
    BY <2>1, BlobsAreLocations, SMT DEF Readable, recoverable
  <2>4. disk'[0] = repaired(0) /\ disk'[1] = repaired(1)
    BY <2>1, <2>2, <2>3, BlobsAreLocations, SMT DEF Write, TypeOK, repaired, Readable
  <2> QED BY <2>1, <2>2, <2>3, <2>4, WriteTyped
<1> QED BY <1>2, <1>3

\* Recovery puts the two blobs in step and takes the newer one for the latest.
LEMMA RecoverStep == ASSUME IInv, recover PROVE IInv'
<1> DEFINE v(i) == repaired(i).version
<1>1. /\ pc = "down" /\ recoverable /\ repair /\ used' = 0 /\ pc' = "idle"
      /\ UNCHANGED <<device, group, commits, crashes, blocks>>
  BY DEF recover
<1>2. PICK index \in latestOf(v(0), v(1)), n \in 0 .. RingSize :
        /\ reads(repaired(index).recover_from, n)
        /\ latest' = index
        /\ chain' = [start |-> repaired(index).recover_from,
                     end |-> repaired(index).recover_from + n,
                     last |-> IF n = 0 THEN NoMac
                              ELSE [i \in 1 .. n |->
                                      disk[Ring(repaired(index).recover_from + i - 1)]][n].mac]
  BY DEF recover
<1>3. IsBlob(repaired(0)) /\ IsBlob(repaired(1)) /\ index \in Blobs
  BY <1>1, <1>2, RepairedAreBlobs, BlobsAreLocations DEF IInv, latestOf
<1>4. chain' \in [start : Nat, end : Nat, last : Nat]
  <2> DEFINE first == repaired(index).recover_from
             last == disk[Ring(first + n - 1)]
  <2>1. first \in Nat /\ n \in Nat
    BY <1>3, JournalAssumption, BlobsAreLocations, SMT DEF IsBlob
  <2>2. ASSUME n # 0 PROVE last.mac \in Nat
    <3>1. n - 1 \in 0 .. n - 1 /\ first + n - 1 \in Nat /\ first + (n - 1) = first + n - 1
      BY <2>1, <2>2, SMT
    <3>2. last # Garbage
      BY <1>2, <3>1 DEF reads
    <3>3. Ring(first + n - 1) \in Locations \ Blobs
      BY <3>1, RingIsApart
    <3> QED BY <3>2, <3>3 DEF IInv, TypeOK, Belongs, IsBlock
  <2>3. chain' = [start |-> first, end |-> first + n, last |-> IF n = 0 THEN 0 ELSE last.mac]
    BY <1>2, <2>1, SMT DEF NoMac
  <2> HIDE DEF first, last
  <2> QED BY <2>1, <2>2, <2>3, SMT
<1>5. /\ disk'[0] = repaired(0) /\ disk'[1] = repaired(1)
      /\ \/ UNCHANGED <<disk, lost>>
         \/ \E i \in Blobs : disk[i] = Garbage /\ Write(i, repaired(i))
  BY <1>1, RepairStep DEF IInv
<1>6. TypeOK'
  <2>1. /\ disk' = [l \in Locations |-> disk'[l]] /\ lost' = [l \in Locations |-> lost'[l]]
        /\ \A l \in Locations : Belongs(l, disk'[l]) /\ \A b \in lost'[l] : Belongs(l, b)
    BY <1>1, RepairStep DEF IInv
  <2>2. used' \in 0 .. Word - 1
    BY <1>1, JournalAssumption, SMT
  <2> QED BY <1>1, <1>2, <1>3, <1>4, <2>1, <2>2 DEF IInv, TypeOK
<1>7. \A i \in Blobs : IsBlob(disk'[i])
  BY <1>3, <1>5, BlobsAreLocations
<1>8. CASE device # "cached"
  <2>1. InStep(repaired(0), repaired(1)) /\ (index = 1 <=> v(1) = v(0) + 1)
    BY <1>2, <1>3, SMT DEF latestOf, InStep, IsBlob
  <2>2. \A l \in Locations : lost[l] = {}
    BY <1>1, <1>8 DEF IInv
  <2>3. CASE UNCHANGED <<disk, lost>>
    <3>1. OneUndecided'
      BY <2>2, <2>3 DEF OneUndecided
    <3>2. BlobsInStep'
      BY <1>2, <1>5, <2>1, <2>2, <2>3, BlobsAreLocations DEF BlobsInStep
    <3> QED BY <1>1, <1>6, <1>7, <3>1, <3>2 DEF IInv, Up
  <2>4. ASSUME NEW i \in Blobs, disk[i] = Garbage, Write(i, repaired(i))
        PROVE  IInv'
    <3>1. /\ \A m \in Locations : m # i => disk'[m] = disk[m] /\ lost'[m] = {}
          /\ lost'[i] \subseteq {disk[i], Garbage}
      <4>1. i \in Locations
        BY BlobsAreLocations
      <4> QED BY <1>1, <1>8, <2>4, <4>1, WriteUndecided DEF IInv
    <3>2. OneUndecided'
      BY <3>1 DEF OneUndecided, Locations
    <3>3. (\A b \in lost'[0] : b = Garbage) /\ (\A b \in lost'[1] : b = Garbage)
      BY <2>4, <3>1, BlobsAreLocations
    <3>4. BlobsInStep'
      BY <1>2, <1>3, <1>5, <2>1, <3>3 DEF BlobsInStep, Recovers
    <3> QED BY <1>1, <1>6, <1>7, <3>2, <3>4 DEF IInv, Up
  <2> QED BY <1>5, <2>3, <2>4
<1>9. CASE device = "cached"
  BY <1>1, <1>6, <1>7, <1>9 DEF IInv
<1> QED BY <1>8, <1>9

\* Recovery fails only on a device with a cache.
LEMMA FailStep == ASSUME IInv, recoverFails PROVE IInv'
<1>1. /\ pc = "down" /\ ~recoverable /\ pc' = "failed"
      /\ UNCHANGED <<device, disk, lost, group, chain, latest, used, commits, crashes, blocks>>
  BY DEF recoverFails, memory
<1>2. TypeOK'
  BY <1>1 DEF IInv, TypeOK
<1>3. ASSUME device # "cached" PROVE FALSE
  <2>1. Recovers(disk[0], disk[1])
    BY <1>1, <1>3 DEF IInv
  <2>2. \A b : IsBlob(b) => b # Garbage
    BY SMT DEF IsBlob, Garbage
  <2>3. \E i \in Blobs : Readable(i)
    BY <2>1, <2>2, BlobsAreLocations DEF Recovers, InStep, Readable
  <2>4. latestOf(repaired(0).version, repaired(1).version) # {}
    BY <2>1, <2>2, SMT DEF Recovers, InStep, Readable, repaired, latestOf
  <2> QED BY <1>1, <2>3, <2>4 DEF recoverable
<1> QED BY <1>1, <1>2, <1>3 DEF IInv, Up

\* The flush of the device decides every write.
LEMMA FlushDeviceStep == ASSUME IInv, flushDevice PROVE IInv'
<1>1. /\ Up /\ pc' = "idle" /\ lost' = [l \in Locations |-> {}]
      /\ UNCHANGED <<device, disk, group, chain, latest, used, commits, crashes, blocks>>
  BY DEF flushDevice, memory, Up
<1>2. TypeOK'
  BY <1>1 DEF IInv, TypeOK
<1>3. lost'[0] = {} /\ lost'[1] = {}
  BY <1>1, BlobsAreLocations
<1> QED BY <1>1, <1>2, <1>3 DEF IInv, OneUndecided, BlobsInStep, Up

\* add and abort, and steps that change nothing.
LEMMA OtherSteps == ASSUME IInv, add \/ abort \/ UNCHANGED vars PROVE IInv'
<1>1. /\ UNCHANGED <<device, disk, lost, chain, latest, used, pc, commits, crashes, blocks>>
      /\ group' \in 0 .. MaxEdits
  BY JournalAssumption, SMT DEF add, abort, vars, memory, IInv, TypeOK
<1>2. TypeOK'
  BY <1>1 DEF IInv, TypeOK
<1> QED BY <1>1, <1>2 DEF IInv, OneUndecided, BlobsInStep, Up

\* The two snapshots and latest_index stay in step in every behaviour of the
\* journal, whatever crashes there are.
THEOREM Invariance == Spec => []IInv
<1>1. IInv /\ [Next]_vars => IInv'
  BY CommitStep, FlushStep, CompactStep, PersistStep, CrashStep, RecoverStep, FailStep,
     FlushDeviceStep, OtherSteps DEF Next
<1> QED BY <1>1, Initial, PTL DEF Spec

\* SnapshotManager::recover never fails unless the device has a volatile cache.
THEOREM Recovery == Spec => []AlwaysRecovers
<1>1. IInv => AlwaysRecovers
  BY DEF IInv, AlwaysRecovers
<1> QED BY <1>1, Invariance, PTL

-----------------------------------------------------------------------------
(* The policy counts the blocks of the chain *)

\* While no crash has happened, an appended block is counted, and compaction
\* follows when the ring is full.
LEMMA AppendCounts ==
  ASSUME TypeOK, PolicyInv, RingSize > 1, crashes = 0, pc = "idle"
  PROVE  /\ on_append_journal(used) = used + 1
         /\ Length(Appended) = used + 1
         /\ should_compact(used + 1) <=> used + 1 = RingSize
         /\ used + 1 <= RingSize
BY JournalAssumption, SMT
   DEF TypeOK, PolicyInv, on_append_journal, Length, Appended, should_compact

\* Compaction gives back all blocks but the one it has written.
LEMMA CompactCounts ==
  ASSUME TypeOK, PolicyInv, RingSize > 1, crashes = 0, pc = "version"
  PROVE  done_compact(on_append_journal(used), Length(Appended) - 1) = 1
<1>1. /\ used = RingSize /\ used \in Nat /\ RingSize \in Nat /\ Word \in Nat
      /\ Length(Appended) - 1 = RingSize /\ 1 < RingSize /\ RingSize < Word
  BY JournalAssumption, SMT DEF TypeOK, PolicyInv, Length, Appended
<1>2. CASE RingSize + 1 < Word
  <2>1. on_append_journal(used) = RingSize + 1
    BY <1>1, <1>2, SMT DEF on_append_journal
  <2>2. RingSize + 1 + Word - RingSize = Word + 1 /\ (Word + 1) % Word = 1
    BY <1>1, SMT
  <2> QED BY <1>1, <2>1, <2>2 DEF done_compact
<1>3. CASE RingSize + 1 = Word
  <2>1. on_append_journal(used) = 0
    BY <1>1, <1>3, SMT DEF on_append_journal
  <2>2. 0 + Word - RingSize = 1 /\ 1 % Word = 1
    BY <1>1, <1>3, SMT
  <2> QED BY <1>1, <2>1, <2>2 DEF done_compact
<1> QED BY <1>1, <1>2, <1>3, SMT

\* The ring is never overrun, and done_compact never underflows, before the
\* first crash, for every ring of at least two blocks.
THEOREM Counting == Spec => []PolicyCounts
<1>1. Init => PolicyInv
  <2>1. Init => used = 1 /\ chain = [start |-> 0, end |-> 1, last |-> 1] /\ pc = "idle"
    BY DEF Init
  <2> QED BY <2>1, SMT DEF PolicyInv, Length
<1>2. IInv /\ PolicyInv /\ [Next]_vars => PolicyInv'
  <2> SUFFICES ASSUME IInv, PolicyInv, [Next]_vars, RingSize > 1, crashes' = 0 PROVE PolicyInv'
    BY DEF PolicyInv
  <2>1. TypeOK /\ crashes \in Nat
    BY JournalAssumption, SMT DEF IInv, TypeOK
  <2>2. CASE crash
    BY <2>1, <2>2, SMT DEF crash
  <2>3. crashes = 0 \/ crash
    BY DEF Next, add, abort, commit, persist, compact, flush, flushDevice, recover, recoverFails,
           vars
  <2>4. ASSUME crashes = 0, commit PROVE PolicyInv'
    <3>1. pc = "idle" /\ UNCHANGED crashes
      BY <2>4 DEF commit
    <3>2. \/ UNCHANGED <<chain, used, pc>>
          \/ /\ chain' = Appended /\ used' = on_append_journal(used)
             /\ IF should_compact(used') THEN pc' = "compact" ELSE pc' = "idle"
      BY <2>4 DEF commit
    <3>3. CASE UNCHANGED <<chain, used, pc>>
      BY <2>4, <3>1, <3>3 DEF PolicyInv, Length
    <3>4. CASE /\ chain' = Appended /\ used' = on_append_journal(used)
               /\ IF should_compact(used') THEN pc' = "compact" ELSE pc' = "idle"
      <4>1. /\ used' = used + 1 /\ Length(chain)' = used' /\ used' <= RingSize
            /\ IF used' = RingSize THEN pc' = "compact" ELSE pc' = "idle"
        BY <2>1, <2>4, <3>1, <3>4, AppendCounts DEF Length
      <4>2. used' \in Int /\ RingSize \in Int
        BY <2>1, <4>1, JournalAssumption, SMT DEF TypeOK
      <4> QED BY <4>1, <4>2, SMT DEF PolicyInv
    <3> QED BY <3>2, <3>3, <3>4
  <2>5. ASSUME crashes = 0, flush PROVE PolicyInv'
    <3>1. pc = "idle" /\ UNCHANGED crashes
      BY <2>5 DEF flush
    <3>2. \/ UNCHANGED <<chain, used>> /\ pc' = "flush"
          \/ /\ chain' = Appended /\ used' = on_append_journal(used)
             /\ IF should_compact(used') THEN pc' = "compact" ELSE pc' = "flush"
      BY <2>5 DEF flush
    <3>3. CASE UNCHANGED <<chain, used>> /\ pc' = "flush"
      BY <2>5, <3>1, <3>3 DEF PolicyInv, Length
    <3>4. CASE /\ chain' = Appended /\ used' = on_append_journal(used)
               /\ IF should_compact(used') THEN pc' = "compact" ELSE pc' = "flush"
      <4>1. /\ used' = used + 1 /\ Length(chain)' = used' /\ used' <= RingSize
            /\ IF used' = RingSize THEN pc' = "compact" ELSE pc' = "flush"
        BY <2>1, <2>5, <3>1, <3>4, AppendCounts DEF Length
      <4>2. used' \in Int /\ RingSize \in Int
        BY <2>1, <4>1, JournalAssumption, SMT DEF TypeOK
      <4> QED BY <4>1, <4>2, SMT DEF PolicyInv
    <3> QED BY <3>2, <3>3, <3>4
  <2>6. ASSUME crashes = 0, persist PROVE PolicyInv'
    BY <2>6 DEF persist, PolicyInv
  <2>7. ASSUME crashes = 0, compact PROVE PolicyInv'
    <3>1. /\ used' = 1 /\ pc' \in {"idle", "flush"}
          /\ chain' = [Appended EXCEPT !.start = chain.end]
      BY <2>1, <2>7, CompactCounts DEF compact
    <3>2. chain'.start = chain.end /\ chain'.end = chain.end + 1 /\ chain.end \in Nat
      BY <2>1, <3>1 DEF Appended, TypeOK
    <3> QED BY <3>1, <3>2, SMT DEF PolicyInv, Length
  <2>8. ASSUME crashes = 0, flushDevice PROVE PolicyInv'
    BY <2>8 DEF flushDevice, memory, PolicyInv
  <2>9. ASSUME crashes = 0, add \/ abort \/ UNCHANGED vars PROVE PolicyInv'
    BY <2>9 DEF add, abort, vars, memory, PolicyInv
  <2>10. ASSUME crashes = 0, recover \/ recoverFails PROVE FALSE
    BY <2>10 DEF recover, recoverFails, PolicyInv
  <2> QED BY <2>2, <2>3, <2>4, <2>5, <2>6, <2>7, <2>8, <2>9, <2>10 DEF Next
<1>3. TypeOK /\ PolicyInv => PolicyCounts
  BY JournalAssumption, SMT DEF TypeOK, PolicyInv, PolicyCounts
<1>4. IInv => TypeOK
  BY DEF IInv
<1> QED BY <1>1, <1>2, <1>3, <1>4, Invariance, PTL DEF Spec
=============================================================================
