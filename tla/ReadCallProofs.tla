---------------------------- MODULE ReadCallProofs ---------------------------
(***************************************************************************)
(* What readers of an open DB see: sequence numbers are used once, batches *)
(* are seen as a whole, and what was seen stays.  This module has the      *)
(* invariant and the steps of the callers; ReadPathProofs has the others   *)
(* and the theorems.                                                       *)
(***************************************************************************)
EXTENDS WriteCallProofs

-----------------------------------------------------------------------------
(* The invariant, beside WInv.                                             *)

\* All that a restart could find, and that with what is in memory.
Disk == Found(manifest, logs)
Everything == View \cup Disk

UpTo(S, n) == \A e \in S : e.seq <= n

\* The group in progress has the next numbers.
GroupNumbers ==
  /\ (\A w \in Writers : ~Grouped(w)) => group = NoGroup /\ todo = <<>>
  /\ \A w \in Writers : Grouped(w) => group.seq = lastSeq + 1

\* The number in a manifest covers its tables, and those an edit on its way will add.
TableNumbers ==
  /\ UpTo(manifest.tables, manifest.seq) /\ version.tables \subseteq manifest.tables
  /\ edit # None => UpTo(edit.tables, edit.seq) /\ edit.seq <= lastSeq

\* DB::Open adds what it finds in the logs, and the largest number it meets covers that.
OpenNumbers ==
  mode = "open" => /\ replay.ok => UpTo(replay.tables, replay.maxSeq)
                   /\ replay.tables \subseteq Disk
                   /\ edit # None => edit.tables \subseteq Disk
                   /\ edit = None => lastSeq = manifest.seq

\* Only entries of the group in progress are beyond last_sequence_.
UpNumbers ==
  mode = "up" =>
    /\ UpTo(version.tables \cup Frozen, lastSeq)
    /\ \A e \in mem \cup Disk : e.seq <= lastSeq \/ e \in EntriesOf(group)
    /\ (\A w \in Writers : pc[w] # "insert") => UpTo(mem, lastSeq)
    /\ acked \subseteq Ids(Visible)

\* The entries of a batch are next to each other, and where one of them is, both are.
Near(S) == \A e, f \in S : e.id = f.id => e.seq <= f.seq + 1
Paired(S) == \A e \in S : \E f \in S : f.id = e.id /\ f.seq # e.seq
BatchesWhole ==
  /\ Paired(manifest.tables) /\ (edit # None => Paired(edit.tables)) /\ Paired(version.tables)
  /\ Paired(Frozen) /\ Paired({e \in mem : e.seq <= lastSeq}) /\ Paired(replay.tables)

\* Each update is written by one call, and before its group is formed it is nowhere.
UpdatesFresh ==
  /\ updates \in Nat
  /\ \A e \in Everything : e.id <= updates
  /\ \A w \in Writers : call[w].id <= updates
  /\ \A v, w \in Writers : call[v].id = call[w].id /\ call[v].id # 0 => v = w
  /\ \A k \in 1..Len(queue) : k > Len(group.ids) => \A e \in Everything : e.id # call[queue[k]].id

\* No two entries have one number, and those of one update are next to each other.
OneNumber(S) == \A e, f \in S : e.seq = f.seq => e = f
NumbersUnique ==
  OneNumber(Everything \cup EntriesOf(group)) /\ Near(Everything \cup EntriesOf(group))

RInv == GroupNumbers /\ TableNumbers /\ OpenNumbers /\ UpNumbers /\ BatchesWhole /\ UpdatesFresh /\ NumbersUnique

-----------------------------------------------------------------------------
(* Records.                                                                *)

\* Batch j of a record has the two numbers from rec.seq + 2 * j - 2 on.
LEMMA RecordBatches ==
  ASSUME NEW rec \in Record
  PROVE  /\ \A e \in EntriesOf(rec) : \E j \in 1..Len(rec.ids) :
              e.id = rec.ids[j] /\ e.seq \in {rec.seq + 2 * j - 2, rec.seq + 2 * j - 1}
         /\ \A j \in 1..Len(rec.ids) : \A s \in {rec.seq + 2 * j - 2, rec.seq + 2 * j - 1} :
              [seq |-> s, id |-> rec.ids[j]] \in EntriesOf(rec)
         /\ rec.seq \in Nat /\ rec.ids \in Seq(1..MaxUpdates) /\ Len(rec.ids) \in Nat
<1>1. rec.seq \in Nat /\ rec.ids \in Seq(1..MaxUpdates) /\ Len(rec.ids) \in Nat
  BY DEF Record
<1>2. EntriesOf(rec) = {EntrySeq(rec)[k] : k \in 1..(2 * Len(rec.ids))}
  BY Zenon DEF EntriesOf, EntrySeq, Range
<1>3. \A k \in 1..(2 * Len(rec.ids)) :
        EntrySeq(rec)[k] = [seq |-> rec.seq + k - 1, id |-> rec.ids[(k + 1) \div 2]]
  BY Zenon DEF EntrySeq
<1>4. ASSUME NEW k \in 1..(2 * Len(rec.ids))
      PROVE  (k + 1) \div 2 \in 1..Len(rec.ids) /\ k \in {2 * ((k + 1) \div 2) - 1, 2 * ((k + 1) \div 2)}
  BY <1>1
<1>5. ASSUME NEW j \in 1..Len(rec.ids)
      PROVE  /\ 2 * j - 1 \in 1..(2 * Len(rec.ids)) /\ 2 * j \in 1..(2 * Len(rec.ids))
             /\ ((2 * j - 1) + 1) \div 2 = j /\ (2 * j + 1) \div 2 = j
  BY <1>1
<1>6. ASSUME NEW e \in EntriesOf(rec)
      PROVE  \E j \in 1..Len(rec.ids) : e.id = rec.ids[j] /\ e.seq \in {rec.seq + 2 * j - 2, rec.seq + 2 * j - 1}
  <2>1. PICK k \in 1..(2 * Len(rec.ids)) : e = EntrySeq(rec)[k]
    BY <1>2, Zenon
  <2>2. e.seq = rec.seq + k - 1 /\ e.id = rec.ids[(k + 1) \div 2]
    <3>1. e = [seq |-> rec.seq + k - 1, id |-> rec.ids[(k + 1) \div 2]]
      BY <1>3, <2>1, Zenon
    <3> QED BY <3>1, Zenon
  <2> DEFINE j == (k + 1) \div 2
  <2>3. j \in 1..Len(rec.ids) /\ k \in {2 * j - 1, 2 * j}
    BY <1>4, Zenon
  <2>4. e.id = rec.ids[j]
    BY <2>2, Zenon
  <2> HIDE DEF j
  <2>5. e.seq \in {rec.seq + 2 * j - 2, rec.seq + 2 * j - 1}
    <3>1. rec.seq \in Nat /\ j \in Nat /\ k \in Nat /\ e.seq = rec.seq + k - 1
      BY <1>1, <2>2, <2>3
    <3>2. CASE k = 2 * j - 1
      BY <3>1, <3>2
    <3>3. CASE k = 2 * j
      BY <3>1, <3>3, Zenon
    <3> QED BY <2>3, <3>2, <3>3, Zenon
  <2> QED BY <2>3, <2>4, <2>5, Zenon
<1>7. ASSUME NEW j \in 1..Len(rec.ids), NEW s \in {rec.seq + 2 * j - 2, rec.seq + 2 * j - 1}
      PROVE  [seq |-> s, id |-> rec.ids[j]] \in EntriesOf(rec)
  <2>1. EntrySeq(rec)[2 * j - 1] = [seq |-> rec.seq + (2 * j - 1) - 1, id |-> rec.ids[j]]
    BY <1>3, <1>5, Zenon
  <2>2. EntrySeq(rec)[2 * j] = [seq |-> rec.seq + 2 * j - 1, id |-> rec.ids[j]]
    BY <1>3, <1>5, Zenon
  <2>3. EntrySeq(rec)[2 * j - 1] \in EntriesOf(rec) /\ EntrySeq(rec)[2 * j] \in EntriesOf(rec)
    BY <1>2, <1>5, Zenon
  <2>4. rec.seq + (2 * j - 1) - 1 = rec.seq + 2 * j - 2
    BY <1>1
  <2> QED BY <2>1, <2>2, <2>3, <2>4, Zenon
<1> QED BY <1>1, <1>6, <1>7, Zenon

\* A record has no number twice and each of its batches whole.
LEMMA RecordSound ==
  ASSUME NEW rec \in Record
  PROVE  Paired(EntriesOf(rec)) /\ OneNumber(EntriesOf(rec))
<1>1. Paired(EntriesOf(rec))
  <2>1. ASSUME NEW e \in EntriesOf(rec) PROVE \E f \in EntriesOf(rec) : f.id = e.id /\ f.seq # e.seq
    <3>1. PICK j \in 1..Len(rec.ids) :
            e.id = rec.ids[j] /\ e.seq \in {rec.seq + 2 * j - 2, rec.seq + 2 * j - 1}
      BY RecordBatches, Zenon
    <3>2. PICK s \in {rec.seq + 2 * j - 2, rec.seq + 2 * j - 1} : s # e.seq
      BY RecordBatches
    <3>3. [seq |-> s, id |-> rec.ids[j]] \in EntriesOf(rec)
      BY RecordBatches, Zenon
    <3> QED BY <3>1, <3>2, <3>3, Zenon
  <2> QED BY <2>1, Zenon DEF Paired
<1>2. OneNumber(EntriesOf(rec))
  <2>1. ASSUME NEW e \in EntriesOf(rec), NEW f \in EntriesOf(rec), e.seq = f.seq PROVE e = f
    <3>1. PICK i \in 1..Len(rec.ids) :
            e.id = rec.ids[i] /\ e.seq \in {rec.seq + 2 * i - 2, rec.seq + 2 * i - 1}
      BY RecordBatches, Zenon
    <3>2. PICK j \in 1..Len(rec.ids) :
            f.id = rec.ids[j] /\ f.seq \in {rec.seq + 2 * j - 2, rec.seq + 2 * j - 1}
      BY RecordBatches, Zenon
    <3>3. i = j
      <4>1. rec.seq \in Nat /\ i \in Nat /\ j \in Nat
        BY RecordBatches
      <4>2. \A x \in {rec.seq + 2 * i - 2, rec.seq + 2 * i - 1} :
              x \in {rec.seq + 2 * j - 2, rec.seq + 2 * j - 1} => i = j
        BY <4>1
      <4> QED BY <2>1, <3>1, <3>2, <4>2, Zenon
    <3>4. e \in Entry /\ f \in Entry
      BY RecordEntries, Zenon
    <3> QED BY <2>1, <3>1, <3>2, <3>3, <3>4 DEF Entry
  <2> QED BY <2>1, Zenon DEF OneNumber
<1> QED BY <1>1, <1>2, Zenon

\* If its updates differ, the entries of one are next to each other.
LEMMA RecordNear ==
  ASSUME NEW rec \in Record, \A i, j \in 1..Len(rec.ids) : rec.ids[i] = rec.ids[j] => i = j
  PROVE  Near(EntriesOf(rec))
<1>1. ASSUME NEW e \in EntriesOf(rec), NEW f \in EntriesOf(rec), e.id = f.id PROVE e.seq <= f.seq + 1
  <2>1. PICK i \in 1..Len(rec.ids) :
          e.id = rec.ids[i] /\ e.seq \in {rec.seq + 2 * i - 2, rec.seq + 2 * i - 1}
    BY RecordBatches, Zenon
  <2>2. PICK j \in 1..Len(rec.ids) :
          f.id = rec.ids[j] /\ f.seq \in {rec.seq + 2 * j - 2, rec.seq + 2 * j - 1}
    BY RecordBatches, Zenon
  <2>3. i = j
    BY <1>1, <2>1, <2>2, Zenon
  <2> QED BY <2>1, <2>2, <2>3, RecordBatches
<1> QED BY <1>1, Zenon DEF Near

LEMMA PairedUnion ==
  ASSUME NEW A, NEW B, Paired(A), Paired(B)
  PROVE  Paired(A \cup B)
BY Zenon DEF Paired

\* So has a log.
LEMMA LogPaired ==
  ASSUME NEW recs \in Seq(Record)
  PROVE  Paired(LogEntries(recs))
<1>1. ASSUME NEW e \in LogEntries(recs) PROVE \E f \in LogEntries(recs) : f.id = e.id /\ f.seq # e.seq
  <2>1. PICK k \in 1..Len(recs) : e \in EntriesOf(recs[k])
    BY LogEntriesBy DEF LogEntries
  <2>2. recs[k] \in Record /\ EntriesOf(recs[k]) \subseteq LogEntries(recs)
    BY DEF LogEntries
  <2>3. \E f \in EntriesOf(recs[k]) : f.id = e.id /\ f.seq # e.seq
    BY <2>1, <2>2, RecordSound, Zenon DEF Paired
  <2> QED BY <2>2, <2>3, Zenon
<1> QED BY <1>1, Zenon DEF Paired

-----------------------------------------------------------------------------
(* What the store holds.                                                   *)

LEMMA DiskBy ==
  \A e : e \in Disk <=> e \in manifest.tables \/ \E n \in DOMAIN logs : n >= manifest.log /\ e \in Content(logs[n])
BY FoundBy, Zenon DEF Disk

LEMMA DiskNextBy ==
  \A e : e \in Disk' <=> e \in manifest'.tables \/ \E n \in DOMAIN logs' : n >= manifest'.log /\ e \in Content(logs'[n])
BY Zenon DEF Disk, Found, Content

LEMMA EntriesTyped ==
  ASSUME StoreTypeOK
  PROVE  Disk \subseteq Entry /\ View \subseteq Entry /\ Everything \subseteq Entry
<1>1. \A n \in DOMAIN logs : Content(logs[n]) \subseteq Entry
  BY LogBy, Zenon DEF StoreTypeOK
<1>2. manifest.tables \subseteq Entry /\ version.tables \subseteq Entry
  BY Zenon DEF StoreTypeOK, Edit
<1>3. Disk \subseteq Entry
  BY <1>1, <1>2, DiskBy, Zenon
<1>4. View \subseteq Entry
  BY <1>2, Zenon DEF View, StoreTypeOK
<1> QED BY <1>3, <1>4, Zenon DEF Everything

LEMMA NoGroupEntries == EntriesOf(NoGroup) = {} /\ Len(NoGroup.ids) = 0
BY DEF EntriesOf, EntrySeq, Range, NoGroup

\* An entry of the group is one of a call at the front of the queue.
LEMMA GroupCalls ==
  ASSUME QueueInv, GroupInv, GroupNumbers
  PROVE  /\ EntriesOf(group) \subseteq Entry /\ Len(group.ids) \in 0..Len(queue)
         /\ \A e \in EntriesOf(group) : \E k \in 1..Len(group.ids) : e.id = call[queue[k]].id
<1>0. Len(queue) \in Nat
  BY DEF QueueInv
<1>1. CASE \A w \in Writers : ~Grouped(w)
  BY <1>0, <1>1, NoGroupEntries DEF GroupNumbers
<1>2. ASSUME NEW w \in Writers, Grouped(w)
      PROVE  /\ EntriesOf(group) \subseteq Entry /\ Len(group.ids) \in 0..Len(queue)
             /\ \A e \in EntriesOf(group) : \E k \in 1..Len(group.ids) : e.id = call[queue[k]].id
  <2> DEFINE r == [ids |-> group.ids, seq |-> group.seq]
  <2>1. /\ r \in Record /\ EntriesOf(r) = EntriesOf(group) /\ EntriesOf(group) \subseteq Entry
        /\ Len(group.ids) \in 1..Len(queue)
    BY <1>2, GroupLeader, Zenon
  <2>2. r.ids = group.ids
    BY Zenon
  <2> HIDE DEF r
  <2>3. \A e \in EntriesOf(r) : \E j \in 1..Len(r.ids) : e.id = r.ids[j]
    BY <2>1, RecordBatches, Zenon
  <2>4. \A k \in 1..Len(group.ids) : group.ids[k] = call[queue[k]].id
    BY <1>2, Zenon DEF GroupInv
  <2>5. ASSUME NEW e \in EntriesOf(group) PROVE \E k \in 1..Len(group.ids) : e.id = call[queue[k]].id
    <3>1. PICK j \in 1..Len(r.ids) : e.id = r.ids[j]
      BY <2>1, <2>3, Zenon
    <3> QED BY <2>2, <2>4, <3>1, Zenon
  <2> QED BY <1>0, <2>1, <2>5
<1> QED BY <1>1, <1>2, Zenon

\* The entries of a group have the numbers after last_sequence_.
LEMMA GroupAbove ==
  ASSUME QueueInv, GroupInv, GroupNumbers, lastSeq \in Nat
  PROVE  /\ \A e \in EntriesOf(group) : e.seq > lastSeq
         /\ \A w \in Writers : Grouped(w) =>
              /\ LastOf(group) \in Nat /\ lastSeq <= LastOf(group)
              /\ \A e \in EntriesOf(group) : e.seq <= LastOf(group)
<1>1. CASE \A w \in Writers : ~Grouped(w)
  BY <1>1, NoGroupEntries, Zenon DEF GroupNumbers
<1>2. ASSUME NEW w \in Writers, Grouped(w)
      PROVE  /\ LastOf(group) \in Nat /\ lastSeq <= LastOf(group)
             /\ \A e \in EntriesOf(group) : e.seq > lastSeq /\ e.seq <= LastOf(group)
  <2>1. group \in [ids : Seq(1..MaxUpdates), seq : Nat, last : Writers] /\ Len(group.ids) \in 1..Len(queue)
    BY <1>2, Zenon DEF GroupInv
  <2>2. group.seq = lastSeq + 1
    BY <1>2, Zenon DEF GroupNumbers
  <2> DEFINE r == [ids |-> group.ids, seq |-> group.seq]
  <2>3. /\ r \in Record /\ EntriesOf(r) = EntriesOf(group) /\ LastOf(r) = LastOf(group)
    BY <2>1, GroupRecord, Zenon
  <2>4. r.seq = group.seq
    BY Zenon
  <2> HIDE DEF r
  <2>5. \A e \in EntriesOf(r) : e.seq \in r.seq .. LastOf(r)
    BY <2>3, RecordEntries, Zenon
  <2>6. LastOf(group) = lastSeq + 2 * Len(group.ids) /\ Len(group.ids) \in Nat /\ Len(group.ids) > 0
    BY <2>1, <2>2 DEF LastOf, QueueInv
  <2>7. \A e \in EntriesOf(group) : e.seq \in (lastSeq + 1) .. LastOf(group)
    BY <2>2, <2>3, <2>4, <2>5, Zenon
  <2> QED BY <2>6, <2>7
<1> QED BY <1>1, <1>2, Zenon

-----------------------------------------------------------------------------
(* Numbers are used once and updates are written once.                     *)

LEMMA SubSound ==
  ASSUME NEW S, NEW T, S \subseteq T, OneNumber(T), Near(T)
  PROVE  OneNumber(S) /\ Near(S)
BY Zenon DEF OneNumber, Near

\* The DB grows by entries of the group only, and no call joins the queue.
LEMMA ContentStep ==
  ASSUME WInv, RInv, Everything' \subseteq Everything \cup EntriesOf(group), updates' = updates,
         EntriesOf(group') \subseteq EntriesOf(group),
         \A v \in Writers : call'[v] \in {call[v], NoCall}, queue' \in Seq(Writers),
         \A k \in 1..Len(queue') : k > Len(group'.ids) =>
           \E j \in 1..Len(queue) : j > Len(group.ids) /\ queue'[k] = queue[j]
  PROVE  UpdatesFresh' /\ NumbersUnique'
<1>1. QueueInv /\ GroupInv /\ StoreTypeOK /\ GroupNumbers /\ UpdatesFresh /\ NumbersUnique /\ updates \in Nat
  BY Zenon DEF WInv, RInv, UpdatesFresh
<1>2. Everything \subseteq Entry /\ EntriesOf(group) \subseteq Entry
  BY <1>1, EntriesTyped, GroupCalls, Zenon
<1>3. /\ Len(group.ids) \in 0..Len(queue) /\ Len(queue) \in Nat /\ queue \in Seq(Writers)
      /\ \A e \in EntriesOf(group) : \E k \in 1..Len(group.ids) : e.id = call[queue[k]].id
  <2>1. Len(queue) \in Nat /\ queue \in Seq(Writers)
    BY <1>1 DEF QueueInv
  <2> QED BY <1>1, <2>1, GroupCalls, Zenon
<1>4. \A k \in 1..Len(queue) : queue[k] \in Writers
  BY <1>3
<1>5. NoCall.id = 0
  BY Zenon DEF NoCall
<1>6. NumbersUnique'
  <2>1. Everything' \cup EntriesOf(group') \subseteq Everything \cup EntriesOf(group)
    BY Zenon
  <2>2. OneNumber(Everything' \cup EntriesOf(group')) /\ Near(Everything' \cup EntriesOf(group'))
    BY <1>1, <2>1, SubSound, Zenon DEF NumbersUnique
  <2> QED BY <2>2, Zenon DEF NumbersUnique, OneNumber, Near
<1>7. \A e \in EntriesOf(group) : e.id <= updates
  BY <1>1, <1>3, <1>4 DEF UpdatesFresh
<1>8. \A e \in Everything' : e.id <= updates'
  BY <1>1, <1>7, Zenon DEF UpdatesFresh
<1>9. \A w \in Writers : call'[w].id <= updates'
  BY <1>1, <1>5 DEF UpdatesFresh
<1>10. \A v, w \in Writers : call'[v].id = call'[w].id /\ call'[v].id # 0 => v = w
  BY <1>1, <1>5 DEF UpdatesFresh
<1>11. ASSUME NEW k \in 1..Len(queue'), k > Len(group'.ids), NEW e \in Everything'
       PROVE  e.id # call'[queue'[k]].id
  <2>1. PICK j \in 1..Len(queue) : j > Len(group.ids) /\ queue'[k] = queue[j]
    BY <1>11, Zenon
  <2>2. e \in Entry /\ e.id # 0
    BY <1>2 DEF Entry
  <2>3. CASE call'[queue[j]] = NoCall
    BY <1>5, <2>1, <2>2, <2>3, Zenon
  <2>4. CASE call'[queue[j]] = call[queue[j]]
    <3>1. CASE e \in Everything
      BY <1>1, <2>1, <2>4, <3>1 DEF UpdatesFresh
    <3>2. CASE e \in EntriesOf(group)
      <4>1. PICK i \in 1..Len(group.ids) : e.id = call[queue[i]].id
        BY <1>3, <3>2, Zenon
      <4>2. i \in 1..Len(queue) /\ i # j
        BY <1>3, <2>1, <4>1
      <4>3. queue[i] # queue[j] /\ queue[i] \in Writers /\ queue[j] \in Writers
        BY <1>1, <1>4, <4>2 DEF QueueInv
      <4>4. call[queue[i]].id # call[queue[j]].id
        BY <1>1, <2>2, <4>1, <4>3, Zenon DEF UpdatesFresh
      <4> QED BY <2>1, <2>4, <4>1, <4>4, Zenon
    <3> QED BY <3>1, <3>2, Zenon
  <2> QED BY <1>4, <2>3, <2>4, Zenon
<1>12. UpdatesFresh'
  <2>1. updates' \in Nat
    BY <1>1, Zenon
  <2> QED BY <1>8, <1>9, <1>10, <1>11, <2>1, Zenon DEF UpdatesFresh
<1> QED BY <1>6, <1>12, Zenon

LEMMA ContentSame ==
  ASSUME WInv, RInv, Everything' \subseteq Everything \cup EntriesOf(group), updates' = updates,
         UNCHANGED <<queue, group>>, \A v \in Writers : call'[v] \in {call[v], NoCall}
  PROVE  UpdatesFresh' /\ NumbersUnique'
<1>1. queue' \in Seq(Writers) /\ EntriesOf(group') \subseteq EntriesOf(group)
  BY Zenon DEF WInv, QueueInv
<1>2. \A k \in 1..Len(queue') : k > Len(group'.ids) =>
        \E j \in 1..Len(queue) : j > Len(group.ids) /\ queue'[k] = queue[j]
  BY Zenon
<1> QED BY <1>1, <1>2, ContentStep, Zenon

-----------------------------------------------------------------------------
(* Calls that leave the queue.                                             *)

\* Those of the group, or the one in front.
CallsLeft ==
  /\ \A v \in Writers : pc'[v] \notin Busy /\ call'[v] \in {call[v], NoCall}
  /\ group' = NoGroup /\ todo' = <<>> /\ queue' \in Seq(Writers)
  /\ \A k \in 1..Len(queue') : \E j \in 1..Len(queue) : j > Len(group.ids) /\ queue'[k] = queue[j]
  /\ promised \subseteq promised'

LEMMA ContentLeft ==
  ASSUME WInv, RInv, Everything' \subseteq Everything \cup EntriesOf(group), updates' = updates, CallsLeft
  PROVE  UpdatesFresh' /\ NumbersUnique' /\ GroupNumbers'
<1>1. /\ queue' \in Seq(Writers) /\ group' = NoGroup /\ \A v \in Writers : call'[v] \in {call[v], NoCall}
      /\ \A k \in 1..Len(queue') : k > Len(group'.ids) =>
           \E j \in 1..Len(queue) : j > Len(group.ids) /\ queue'[k] = queue[j]
  BY Zenon DEF CallsLeft
<1>2. EntriesOf(group') \subseteq EntriesOf(group)
  BY <1>1, NoGroupEntries, Zenon
<1>3. UpdatesFresh' /\ NumbersUnique'
  BY <1>1, <1>2, ContentStep, Zenon
<1>4. GroupNumbers'
  BY Zenon DEF CallsLeft, GroupNumbers, Grouped, Busy
<1> QED BY <1>3, <1>4, Zenon

LEMMA Leaving ==
  ASSUME WInv, GroupNumbers, NEW w \in Writers, pc[w] \in Busy, NEW n \in 1..Len(queue), NEW ok \in BOOLEAN,
         NEW promise, Dequeue(w, queue[n], ok, promise), Len(group.ids) <= n
  PROVE  /\ CallsLeft
         /\ acked' = IF ok THEN acked \cup ({call[queue[k]].id : k \in 1..n} \ {0}) ELSE acked
<1>1. QueueInv /\ GroupInv /\ flushing \in [Writers -> SUBSET Nat]
  BY Zenon DEF WInv, ReportInv
<1>2. /\ QueueInv' /\ \A v \in Writers : pc'[v] \notin Busy
      /\ acked' = IF ok THEN acked \cup ({call[queue[k]].id : k \in 1..n} \ {0}) ELSE acked
      /\ promised' = IF ok THEN promised \cup promise ELSE promised
  <2>1. /\ QueueInv' /\ GroupInv'
        /\ \A v \in Writers : pc'[v] \notin Busy
        /\ \A v \in Writers : pc'[v] = "flush" => pc[v] = "flush" \/ (v = w /\ call[w].kind = "flush")
        /\ acked' = IF ok THEN acked \cup ({call[queue[k]].id : k \in 1..n} \ {0}) ELSE acked
        /\ promised' = IF ok THEN promised \cup promise ELSE promised
        /\ flushing' \in [Writers -> SUBSET Nat] /\ \A v \in Writers : flushing'[v] \subseteq flushing[v]
    BY <1>1, DequeueStep, Zenon
  <2> QED BY <2>1, Zenon
<1>3. Place(queue[n]) = n
  BY <1>1, PlaceOf, Zenon
<1>4. group' = NoGroup /\ todo' = <<>> /\ queue' = SubSeq(queue, n + 1, Len(queue))
  BY <1>3, Zenon DEF Dequeue
<1>5. \A v \in Writers : call'[v] \in {call[v], NoCall}
  <2>1. call' = call \/ call' = [call EXCEPT ![w] = NoCall]
    BY Zenon DEF Dequeue, Idle
  <2>2. call \in [Writers -> Calls]
    BY <1>1, Zenon DEF QueueInv
  <2> QED BY <2>1, <2>2, Zenon
<1>6. queue \in Seq(Writers) /\ Len(queue) \in Nat /\ Len(group.ids) \in Nat
  BY <1>1, GroupCalls DEF QueueInv
<1>7. ASSUME NEW k \in 1..Len(queue')
      PROVE  \E j \in 1..Len(queue) : j > Len(group.ids) /\ queue'[k] = queue[j]
  <2>1. Len(queue') = Len(queue) - n /\ \A i \in 1..(Len(queue) - n) : queue'[i] = queue[i + n]
    BY <1>4, <1>6, Dropped, Zenon
  <2>2. k \in 1..(Len(queue) - n) /\ k + n \in 1..Len(queue) /\ k + n > Len(group.ids)
    BY <1>6, <2>1
  <2> QED BY <2>1, <2>2, Zenon
<1>8. queue' \in Seq(Writers) /\ promised \subseteq promised'
  BY <1>2, Zenon DEF QueueInv
<1> QED BY <1>2, <1>4, <1>5, <1>7, <1>8, Zenon DEF CallsLeft

\* A call without a group leaves.
LEMMA AloneLeaves ==
  ASSUME WInv, GroupNumbers, NEW w \in Writers, pc[w] \in Busy, ~Grouped(w), NEW ok \in BOOLEAN, NEW promise,
         Dequeue(w, w, ok, promise), ok => call[w].kind # "write"
  PROVE  /\ CallsLeft /\ acked' = acked /\ group = NoGroup /\ todo = <<>>
         /\ \A v \in Writers : ~Grouped(v) /\ ~Grouped(v)' /\ pc[v] # "insert"
<1>1. QueueInv
  BY Zenon DEF WInv
<1>2. 1 \in 1..Len(queue) /\ w = queue[1] /\ (ok => call[w].id = 0)
  BY <1>1 DEF QueueInv
<1>3. \A v \in Writers : ~Grouped(v) /\ pc[v] # "insert"
  <2>1. \A v \in Writers : pc[v] \in Busy => v = w
    BY <1>1, OneLeader, Zenon
  <2>2. pc[w] # "insert"
    BY <1>1, Zenon DEF QueueInv, Grouped
  <2> QED BY <2>1, <2>2, Zenon DEF Grouped, Busy
<1>4. group = NoGroup /\ todo = <<>> /\ Len(group.ids) <= 1
  BY <1>3, NoGroupEntries DEF GroupNumbers
<1>5. /\ CallsLeft
      /\ acked' = IF ok THEN acked \cup ({call[queue[k]].id : k \in 1..1} \ {0}) ELSE acked
  BY <1>2, <1>4, Leaving, Zenon
<1>6. acked' = acked
  <2>1. ok => \A k \in 1..1 : call[queue[k]].id = 0
    BY <1>2
  <2> QED BY <1>5, <2>1, Zenon
<1>7. \A v \in Writers : ~Grouped(v)'
  BY <1>5, Zenon DEF CallsLeft, Grouped, Busy
<1> QED BY <1>3, <1>4, <1>5, <1>6, <1>7, Zenon

\* A group leaves.
LEMMA GroupGoes ==
  ASSUME WInv, GroupNumbers, NEW w \in Writers, Grouped(w), NEW ok \in BOOLEAN, NEW promise,
         Dequeue(w, group.last, ok, promise)
  PROVE  /\ CallsLeft /\ acked' \subseteq acked \cup Ids(EntriesOf(group))
         /\ ~ok => acked' = acked
<1> DEFINE n == Len(group.ids)
<1>1. QueueInv /\ GroupInv
  BY Zenon DEF WInv
<1>2. /\ n \in 1..Len(queue) /\ group.last = queue[n] /\ pc[w] \in Busy
      /\ \A k \in 1..n : \E e \in EntriesOf(group) : e.id = call[queue[k]].id
  BY <1>1, GroupLeader, Zenon
<1>3. /\ CallsLeft
      /\ acked' = IF ok THEN acked \cup ({call[queue[k]].id : k \in 1..n} \ {0}) ELSE acked
  <2>1. Dequeue(w, queue[n], ok, promise) /\ Len(group.ids) <= n
    <3>1. Len(group.ids) <= n
      BY <1>2
    <3> QED BY <1>2, <3>1, Zenon
  <2> HIDE DEF n
  <2> QED BY <1>2, <2>1, Leaving, Zenon
<1>4. {call[queue[k]].id : k \in 1..n} \subseteq Ids(EntriesOf(group))
  BY <1>2, Zenon DEF Ids
<1> HIDE DEF n
<1> QED BY <1>3, <1>4, Zenon

-----------------------------------------------------------------------------
(* Steps that leave the memtables alone.                                   *)

Numbered == TableNumbers /\ OpenNumbers /\ UpNumbers /\ BatchesWhole

\* What a step may do to that which readers and restarts find.
Moves ==
  \/ mode = "up" /\ mode' = "up" /\ Visible \subseteq Visible' /\ promised \subseteq promised'
  \/ mode' = "down" /\ Disk' \subseteq Disk \cup (IF mode = "up" THEN Visible ELSE {}) /\ promised' = promised
  \/ mode # "up" /\ mode' = "open" /\ Disk' = Disk /\ promised' = promised
  \/ mode = "open" /\ mode' = "up" /\ Visible' = Disk /\ promised' = promised

LEMMA StoreRests ==
  ASSUME WInv, RInv, mode = "up", mode' = "up",
         UNCHANGED <<mem, imm, lastSeq, version, edit, manifest, replay>>,
         Disk' \subseteq Disk \cup EntriesOf(group), EntriesOf(group) \subseteq EntriesOf(group'),
         acked' \subseteq acked,
         (\A v \in Writers : pc'[v] # "insert") => \A v \in Writers : pc[v] # "insert"
  PROVE  Numbered' /\ Everything' \subseteq Everything \cup EntriesOf(group) /\ Visible' = Visible
<1>1. TableNumbers /\ UpNumbers /\ BatchesWhole
  BY Zenon DEF RInv
<1>2. Frozen' = Frozen /\ View' = View /\ Visible' = Visible
  BY Zenon DEF Frozen, View, Visible
<1>3. TableNumbers'
  BY <1>1, Zenon DEF TableNumbers, UpTo
<1>4. OpenNumbers'
  BY Zenon DEF OpenNumbers
<1>5. BatchesWhole'
  BY <1>1, <1>2 DEF BatchesWhole, Paired
<1>6. \A e \in mem' \cup Disk' : e.seq <= lastSeq' \/ e \in EntriesOf(group')
  BY <1>1, Zenon DEF UpNumbers
<1>7. (\A v \in Writers : pc'[v] # "insert") => UpTo(mem', lastSeq')
  BY <1>1, Zenon DEF UpNumbers
<1>8. UpNumbers'
  BY <1>1, <1>2, <1>6, <1>7, Zenon DEF UpNumbers, UpTo
<1>9. Everything' \subseteq Everything \cup EntriesOf(group)
  BY <1>2, Zenon DEF Everything
<1> QED BY <1>2, <1>3, <1>4, <1>5, <1>8, <1>9, Zenon DEF Numbered

LEMMA DiskSame ==
  ASSUME UNCHANGED <<logs, manifest>>
  PROVE  Disk' = Disk
BY Zenon DEF Disk, Found

LEMMA GroupRests ==
  ASSUME GroupNumbers, UNCHANGED <<group, todo, lastSeq>>, \A v \in Writers : Grouped(v)' <=> Grouped(v)
  PROVE  GroupNumbers'
BY Zenon DEF GroupNumbers

LEMMA RInvBy ==
  ASSUME GroupNumbers', Numbered', UpdatesFresh', NumbersUnique'
  PROVE  RInv'
BY Zenon DEF RInv, Numbered

LEMMA EnqueueReads ==
  ASSUME WInv, RInv, NEW w \in Writers, Write(w) \/ SyncWAL(w) \/ FlushMemTable(w)
  PROVE  RInv' /\ Moves
<1>1. QueueInv /\ StoreTypeOK /\ GroupNumbers /\ UpdatesFresh /\ NumbersUnique /\ updates \in Nat
  BY Zenon DEF WInv, RInv, UpdatesFresh
<1>2. PICK c : Enqueue(w, c) /\ ((c.id = 0 /\ updates' = updates) \/ (c.id = updates + 1 /\ updates' = updates + 1))
  <2>1. CASE Write(w)
    <3>1. PICK t \in BOOLEAN : /\ Enqueue(w, [kind |-> "write", sync |-> t, id |-> updates + 1])
                              /\ updates' = updates + 1
      BY <2>1, Zenon DEF Write
    <3> DEFINE d == [kind |-> "write", sync |-> t, id |-> updates + 1]
    <3>2. d.id = updates + 1
      BY Zenon
    <3>3. Enqueue(w, d)
      BY <3>1, Zenon
    <3> HIDE DEF d
    <3> QED BY <3>1, <3>2, <3>3, Zenon
  <2>2. CASE SyncWAL(w) \/ FlushMemTable(w)
    <3>1. PICK k \in {"sync", "flush"} : Enqueue(w, [kind |-> k, sync |-> FALSE, id |-> 0]) /\ updates' = updates
      BY <2>2, Zenon DEF SyncWAL, FlushMemTable
    <3> DEFINE d == [kind |-> k, sync |-> FALSE, id |-> 0]
    <3>2. d.id = 0
      BY Zenon
    <3>3. Enqueue(w, d)
      BY <3>1, Zenon
    <3> HIDE DEF d
    <3> QED BY <3>1, <3>2, <3>3, Zenon
  <2> QED BY <2>1, <2>2, Zenon
<1>3. /\ mode = "up" /\ pc[w] = "idle" /\ call' = [call EXCEPT ![w] = c] /\ queue' = Append(queue, w)
      /\ (pc' = [pc EXCEPT ![w] = "lead"] \/ pc' = [pc EXCEPT ![w] = "wait"])
      /\ UNCHANGED <<mode, group, todo, mem, imm, lastSeq, version, edit, replay, logs, manifest, acked, promised>>
  BY <1>2, Zenon DEF Enqueue, dbVars, disk, history
<1>4. /\ pc'[w] \in {"lead", "wait"} /\ call'[w] = c
      /\ \A v \in Writers : v # w => pc'[v] = pc[v] /\ call'[v] = call[v]
  BY <1>1, <1>3 DEF QueueInv
<1>5. Disk' = Disk /\ View' = View /\ Everything' = Everything
  BY <1>3, DiskSame, Zenon DEF View, Frozen, Everything
<1>6. Numbered' /\ Visible' = Visible
  <2>1. (\A v \in Writers : pc'[v] # "insert") => \A v \in Writers : pc[v] # "insert"
    BY <1>3, <1>4, Zenon
  <2>2. Disk' \subseteq Disk \cup EntriesOf(group) /\ EntriesOf(group) \subseteq EntriesOf(group') /\ acked' \subseteq acked
    BY <1>3, <1>5, Zenon
  <2> QED BY <1>3, <2>1, <2>2, StoreRests, Zenon
<1>7. GroupNumbers'
  <2>1. \A v \in Writers : Grouped(v)' <=> Grouped(v)
    BY <1>3, <1>4, Zenon DEF Grouped
  <2> QED BY <1>1, <1>3, <2>1, GroupRests, Zenon
<1>8. NumbersUnique'
  BY <1>1, <1>3, <1>5, Zenon DEF NumbersUnique, OneNumber, Near
<1>9. UpdatesFresh'
  <2>1. updates' \in Nat /\ updates <= updates' /\ c.id <= updates'
    BY <1>1, <1>2
  <2>2. \A e \in Everything' : e.id <= updates' /\ e.id # c.id
    <3>1. \A e \in Everything : e \in Entry /\ e.id \in Nat /\ e.id # 0 /\ e.id <= updates
      BY <1>1, EntriesTyped DEF UpdatesFresh, Entry
    <3> QED BY <1>1, <1>2, <1>5, <3>1
  <2>3. \A v \in Writers : call[v].id \in Nat /\ call[v].id <= updates
    BY <1>1 DEF UpdatesFresh, QueueInv, Calls
  <2>4. \A v \in Writers : call'[v].id <= updates'
    BY <1>1, <1>4, <2>1, <2>3
  <2>5. ASSUME NEW u \in Writers, NEW v \in Writers, call'[u].id = call'[v].id, call'[u].id # 0 PROVE u = v
    <3>1. \A x \in Writers : c.id # 0 => call[x].id # c.id
      BY <1>1, <1>2, <2>3
    <3> QED BY <1>1, <1>4, <2>5, <3>1 DEF UpdatesFresh
  <2>6. ASSUME NEW k \in 1..Len(queue'), k > Len(group'.ids), NEW e \in Everything'
        PROVE  e.id # call'[queue'[k]].id
    <3>1. queue \in Seq(Writers) /\ Len(queue) \in Nat
      BY <1>1 DEF QueueInv
    <3>2. Len(queue') = Len(queue) + 1 /\ queue'[Len(queue) + 1] = w /\ \A i \in 1..Len(queue) : queue'[i] = queue[i]
      BY <1>3, <3>1
    <3>3. CASE k = Len(queue) + 1
      BY <1>4, <2>2, <3>2, <3>3, Zenon
    <3>4. CASE k \in 1..Len(queue)
      <4>1. queue[k] \in Writers /\ queue[k] # w /\ queue'[k] = queue[k]
        BY <1>1, <1>3, <3>1, <3>2, <3>4 DEF QueueInv, Busy
      <4>2. call'[queue'[k]] = call[queue[k]] /\ k > Len(group.ids) /\ e \in Everything
        BY <1>3, <1>4, <1>5, <2>6, <4>1, Zenon
      <4> QED BY <1>1, <3>4, <4>2, Zenon DEF UpdatesFresh
    <3> QED BY <3>1, <3>2, <3>3, <3>4
  <2> QED BY <2>1, <2>2, <2>4, <2>5, <2>6, Zenon DEF UpdatesFresh
<1>10. Moves
  BY <1>3, <1>6, Zenon DEF Moves
<1> QED BY <1>6, <1>7, <1>8, <1>9, <1>10, RInvBy, Zenon

\* A call moves on or returns, and the DB is as it was.
LEMMA CallReads ==
  ASSUME WInv, RInv, NEW w \in Writers, WakeDone(w) \/ WakeFront(w) \/ SyncStart(w) \/ FlushDone(w)
  PROVE  RInv' /\ Moves
<1>1. QueueInv /\ StoreInv /\ GroupNumbers
  BY Zenon DEF WInv, RInv
<1>2. /\ pc[w] \in {"wait", "lead", "flush"}
      /\ pc[w] = "lead" => call[w].kind = "sync"
      /\ \/ pc' = [pc EXCEPT ![w] = "idle"] /\ call' = [call EXCEPT ![w] = NoCall]
         \/ pc' = [pc EXCEPT ![w] = "lead"] /\ call' = call
         \/ pc' = [pc EXCEPT ![w] = "sync"] /\ call' = call /\ pc[w] = "lead"
      /\ UNCHANGED <<mode, queue, group, todo, mem, imm, lastSeq, version, edit, replay, logs, manifest, acked, updates>>
      /\ promised \subseteq promised'
  <2>1. CASE WakeDone(w)
    BY <2>1, SMTT(30) DEF WakeDone, Idle, dbVars, disk, history, counts
  <2>2. CASE WakeFront(w)
    BY <2>2, SMTT(30) DEF WakeFront, dbVars, disk, history, counts
  <2>3. CASE SyncStart(w)
    BY <2>3, SMTT(30) DEF SyncStart, Leads, dbVars, disk, history, counts
  <2>4. CASE FlushDone(w)
    BY <2>4, SMTT(30) DEF FlushDone, Idle, dbVars, disk, history, counts
  <2> QED BY <2>1, <2>2, <2>3, <2>4, Zenon
<1>3. mode = "up" /\ mode' = "up"
  <2>1. pc[w] # "idle"
    BY <1>2, Zenon
  <2> QED BY <1>1, <1>2, <2>1, CallsMeanUp, Zenon
<1>4. /\ pc'[w] \in {"idle", "lead", "sync"} /\ (pc'[w] = "sync" => call'[w].kind = "sync")
      /\ \A v \in Writers : v # w => pc'[v] = pc[v] /\ call'[v] = call[v]
      /\ \A v \in Writers : call'[v] \in {call[v], NoCall}
  BY <1>1, <1>2 DEF QueueInv
<1>5. \A v \in Writers : Grouped(v)' <=> Grouped(v)
  BY <1>2, <1>4, Zenon DEF Grouped
<1>6. Numbered' /\ Everything' \subseteq Everything \cup EntriesOf(group) /\ Visible' = Visible
  <2>1. (\A v \in Writers : pc'[v] # "insert") => \A v \in Writers : pc[v] # "insert"
    BY <1>2, <1>4, Zenon
  <2>2. Disk' = Disk
    BY <1>2, DiskSame, Zenon
  <2>3. Disk' \subseteq Disk \cup EntriesOf(group) /\ EntriesOf(group) \subseteq EntriesOf(group') /\ acked' \subseteq acked
    BY <1>2, <2>2, Zenon
  <2> QED BY <1>2, <1>3, <2>1, <2>3, StoreRests, Zenon
<1>7. GroupNumbers'
  BY <1>1, <1>2, <1>5, GroupRests, Zenon
<1>8. UpdatesFresh' /\ NumbersUnique'
  BY <1>2, <1>4, <1>6, ContentSame, Zenon
<1>9. Moves
  BY <1>2, <1>3, <1>6, Zenon DEF Moves
<1> QED BY <1>6, <1>7, <1>8, <1>9, RInvBy, Zenon

-----------------------------------------------------------------------------
(* Steps that change the logs.                                             *)

LEMMA DiskBound ==
  ASSUME manifest' = manifest, NEW X,
         \A n \in DOMAIN logs' : n >= manifest.log =>
           \/ n \in DOMAIN logs /\ Content(logs'[n]) \subseteq Content(logs[n]) \cup X
           \/ Content(logs'[n]) = {}
  PROVE  Disk' \subseteq Disk \cup X
<1>1. ASSUME NEW e \in Disk' PROVE e \in Disk \cup X
  <2>1. e \in manifest.tables \/ \E n \in DOMAIN logs' : n >= manifest.log /\ e \in Content(logs'[n])
    BY DiskNextBy, Zenon
  <2>2. ASSUME NEW n \in DOMAIN logs', n >= manifest.log, e \in Content(logs'[n]) PROVE e \in Disk \cup X
    <3>1. n \in DOMAIN logs /\ Content(logs'[n]) \subseteq Content(logs[n]) \cup X
      BY <2>2, Zenon
    <3>2. e \in X \/ e \in Content(logs[n])
      BY <2>2, <3>1, Zenon
    <3> QED BY <2>2, <3>1, <3>2, DiskBy, Zenon
  <2>3. e \in manifest.tables => e \in Disk
    BY DiskBy, Zenon
  <2> QED BY <2>1, <2>2, <2>3, Zenon
<1> QED BY <1>1, Zenon

\* Appends and syncs.
LEMMA DiskLog ==
  ASSUME StoreTypeOK, UpInv, wal, NEW l, NEW X, logs' = [logs EXCEPT ![logNo] = l], manifest' = manifest,
         Content(l) \subseteq Content(logs[logNo]) \cup X
  PROVE  Disk' \subseteq Disk \cup X
<1>1. DOMAIN logs' = DOMAIN logs /\ logNo \in DOMAIN logs /\ logs \in [DOMAIN logs -> Log]
  BY Zenon DEF UpInv, StoreTypeOK
<1>2. \A n \in DOMAIN logs : logs'[n] = IF n = logNo THEN l ELSE logs[n]
  BY <1>1, Zenon
<1>3. \A n \in DOMAIN logs' : Content(logs'[n]) \subseteq Content(logs[n]) \cup X
  BY <1>1, <1>2, Zenon
<1> QED BY <1>1, <1>3, DiskBound, Zenon

LEMMA SyncedContent ==
  ASSUME StoreTypeOK, UpInv, wal
  PROVE  Content([recs |-> logs[logNo].recs, synced |-> Len(logs[logNo].recs)]) = Content(logs[logNo])
BY Zenon DEF Content

\* A call without a group leaves, and the DB is as it was.
LEMMA LeaveReads ==
  ASSUME WInv, RInv, NEW w \in Writers,
         \/ RoomError(w) \/ SwitchFails(w) \/ SyncNothing(w)
         \/ wal /\ call[w].kind = "sync" /\ (SyncOk(w) \/ SyncFails(w))
  PROVE  RInv' /\ Moves
<1>1. QueueInv /\ StoreTypeOK /\ StoreInv /\ GroupNumbers
  BY Zenon DEF WInv, RInv
<1>2. /\ pc[w] = "lead" \/ (pc[w] = "sync" /\ call[w].kind = "sync")
      /\ \E ok \in BOOLEAN : \E promise : Dequeue(w, w, ok, promise) /\ (ok => call[w].kind # "write")
      /\ UNCHANGED <<mode, mem, imm, lastSeq, version, edit, replay, manifest, updates>>
      /\ logs' = logs \/ (wal /\ SyncLog)
  <2>1. CASE RoomError(w) \/ SwitchFails(w)
    BY <2>1, ZenonT(30) DEF RoomError, SwitchFails, Finish, dbVars, disk, counts
  <2>2. CASE SyncNothing(w)
    <3>1. call[w].kind # "write"
      BY <2>2, Zenon DEF SyncNothing
    <3> QED BY <2>2, <3>1, ZenonT(30) DEF SyncNothing, Leads, Finish, dbVars, disk, counts
  <2>3. CASE wal /\ call[w].kind = "sync" /\ (SyncOk(w) \/ SyncFails(w))
    <3>1. call[w].kind # "write" /\ TRUE \in BOOLEAN /\ FALSE \in BOOLEAN
      BY <2>3, Zenon
    <3>2. CASE SyncOk(w)
      BY <2>3, <3>1, <3>2, ZenonT(30) DEF SyncOk, Leads, Finish, dbVars, counts
    <3>3. CASE SyncFails(w)
      BY <2>3, <3>1, <3>3, ZenonT(30) DEF SyncFails, Leads, Finish, disk, counts
    <3> QED BY <2>3, <3>2, <3>3, Zenon
  <2> QED BY <2>1, <2>2, <2>3, Zenon
<1>3. pc[w] \in Busy /\ pc[w] # "idle" /\ ~Grouped(w)
  BY <1>2, Zenon DEF Busy, Grouped
<1>4. mode = "up" /\ mode' = "up" /\ UpInv
  BY <1>1, <1>2, <1>3, CallsMeanUp, Zenon
<1>5. /\ CallsLeft /\ acked' = acked /\ group = NoGroup /\ todo = <<>>
      /\ \A v \in Writers : ~Grouped(v) /\ ~Grouped(v)' /\ pc[v] # "insert"
  BY <1>1, <1>2, <1>3, AloneLeaves, Zenon
<1>6. Disk' \subseteq Disk \cup EntriesOf(group)
  <2>1. CASE logs' = logs
    BY <1>2, <2>1, DiskSame, Zenon
  <2>2. CASE wal /\ SyncLog
    <3> DEFINE l == [recs |-> logs[logNo].recs, synced |-> Len(logs[logNo].recs)]
    <3>1. Content(l) \subseteq Content(logs[logNo]) \cup EntriesOf(group)
      BY <1>1, <1>4, <2>2, SyncedContent, Zenon
    <3>2. logs' = [logs EXCEPT ![logNo] = l]
      BY <2>2, Zenon DEF SyncLog
    <3> HIDE DEF l
    <3> QED BY <1>1, <1>2, <1>4, <2>2, <3>1, <3>2, DiskLog, Zenon
  <2> QED BY <1>2, <2>1, <2>2, Zenon
<1>7. Numbered' /\ Everything' \subseteq Everything \cup EntriesOf(group) /\ Visible' = Visible
  <2>1. EntriesOf(group) \subseteq EntriesOf(group') /\ acked' \subseteq acked
    BY <1>5, Zenon DEF CallsLeft
  <2> QED BY <1>2, <1>4, <1>5, <1>6, <2>1, StoreRests, Zenon
<1>8. UpdatesFresh' /\ NumbersUnique' /\ GroupNumbers'
  BY <1>2, <1>5, <1>7, ContentLeft, Zenon
<1>9. Moves
  BY <1>4, <1>5, <1>7, Zenon DEF Moves, CallsLeft
<1> QED BY <1>7, <1>8, <1>9, RInvBy, Zenon

LEMMA AppendedContent ==
  ASSUME QueueInv, GroupInv, StoreTypeOK, UpInv, wal, NEW w \in Writers, Grouped(w), Logged, manifest' = manifest
  PROVE  Disk' \subseteq Disk \cup EntriesOf(group)
<1> DEFINE rec == [ids |-> group.ids, seq |-> group.seq]
           l == [recs |-> Append(logs[logNo].recs, rec), synced |-> logs[logNo].synced]
<1>1. rec \in Record /\ EntriesOf(rec) = EntriesOf(group)
  BY GroupLeader, Zenon
<1>2. logs[logNo] \in Log
  BY Zenon DEF StoreTypeOK, UpInv
<1>3. logs' = [logs EXCEPT ![logNo] = l]
  BY Zenon DEF Logged
<1>4. Content(l) = Content(logs[logNo]) \cup EntriesOf(group)
  <2> HIDE DEF rec
  <2> QED BY <1>1, <1>2, LogAppended, Zenon
<1> HIDE DEF l
<1>5. Content(l) \subseteq Content(logs[logNo]) \cup EntriesOf(group)
  BY <1>4, Zenon
<1> QED BY <1>3, <1>5, DiskLog, Zenon

\* The group is logged or synced.
LEMMA LoggedReads ==
  ASSUME WInv, RInv, NEW w \in Writers, wal, AddRecord(w) \/ (SyncOk(w) /\ call[w].kind # "sync"),
         "behind" \notin ReplayFaults
  PROVE  RInv' /\ Moves
<1>1. QueueInv /\ GroupInv /\ StoreTypeOK /\ StoreInv /\ GroupNumbers
  BY Zenon DEF WInv, RInv
<1>2. /\ pc[w] \in {"append", "sync"} /\ (pc[w] = "sync" => call[w].kind # "sync")
      /\ (pc' = [pc EXCEPT ![w] = "sync"] \/ pc' = [pc EXCEPT ![w] = "insert"])
      /\ UNCHANGED <<mode, call, queue, group, todo, mem, imm, lastSeq, version, edit, replay, manifest, acked,
                     promised, updates>>
      /\ Logged \/ SyncLog
  <2>1. CASE AddRecord(w)
    <3>1. /\ pc[w] = "append" /\ pc' = [pc EXCEPT ![w] = IF call[w].sync THEN "sync" ELSE "insert"]
          /\ UNCHANGED <<mode, call, queue, group, todo, mem, imm, lastSeq, version, edit, replay, manifest, acked,
                         promised, updates>>
          /\ Logged
      BY <2>1, Zenon DEF AddRecord, LogRecord, LoggedBehind, Leads, counts
    <3>2. pc' = [pc EXCEPT ![w] = "sync"] \/ pc' = [pc EXCEPT ![w] = "insert"]
      BY <3>1, Zenon
    <3>3. pc[w] \in {"append", "sync"} /\ pc[w] # "sync"
      BY <3>1, Zenon
    <3> QED BY <3>1, <3>2, <3>3, Zenon
  <2>2. CASE SyncOk(w) /\ call[w].kind # "sync"
    <3>1. /\ pc[w] = "sync" /\ SyncLog /\ pc' = [pc EXCEPT ![w] = "insert"]
          /\ UNCHANGED <<call, queue, group, todo, acked, promised>>
      BY <2>2, Zenon DEF SyncOk, Leads, history
    <3>2. UNCHANGED <<mode, mem, imm, lastSeq, version, edit, replay, manifest, updates>>
      BY <2>2, Zenon DEF SyncOk, dbVars, counts
    <3>3. pc[w] \in {"append", "sync"}
      BY <3>1, Zenon
    <3> QED BY <2>2, <3>1, <3>2, <3>3, Zenon
  <2> QED BY <2>1, <2>2, Zenon
<1>3. Grouped(w) /\ pc[w] # "idle"
  BY <1>1, <1>2, Zenon DEF QueueInv, Grouped
<1>4. mode = "up" /\ mode' = "up" /\ UpInv
  BY <1>1, <1>2, <1>3, CallsMeanUp, Zenon
<1>5. pc'[w] \in {"sync", "insert"} /\ \A v \in Writers : v # w => pc'[v] = pc[v]
  BY <1>1, <1>2 DEF QueueInv
<1>6. \A v \in Writers : (Grouped(v)' <=> Grouped(v)) /\ call'[v] \in {call[v], NoCall}
  BY <1>2, <1>3, <1>5, Zenon DEF Grouped
<1>7. Disk' \subseteq Disk \cup EntriesOf(group)
  <2>1. CASE Logged
    BY <1>1, <1>2, <1>3, <1>4, <2>1, AppendedContent, Zenon
  <2>2. CASE SyncLog
    <3> DEFINE l == [recs |-> logs[logNo].recs, synced |-> Len(logs[logNo].recs)]
    <3>1. Content(l) \subseteq Content(logs[logNo]) \cup EntriesOf(group)
      BY <1>1, <1>4, SyncedContent, Zenon
    <3>2. logs' = [logs EXCEPT ![logNo] = l]
      BY <2>2, Zenon DEF SyncLog
    <3> HIDE DEF l
    <3> QED BY <1>1, <1>2, <1>4, <3>1, <3>2, DiskLog, Zenon
  <2> QED BY <1>2, <2>1, <2>2, Zenon
<1>8. Numbered' /\ Everything' \subseteq Everything \cup EntriesOf(group) /\ Visible' = Visible
  <2>1. (\A v \in Writers : pc'[v] # "insert") => \A v \in Writers : pc[v] # "insert"
    BY <1>2, <1>5, Zenon
  <2>2. EntriesOf(group) \subseteq EntriesOf(group') /\ acked' \subseteq acked
    BY <1>2, Zenon
  <2> QED BY <1>2, <1>4, <1>7, <2>1, <2>2, StoreRests, Zenon
<1>9. GroupNumbers'
  BY <1>1, <1>2, <1>6, GroupRests, Zenon
<1>10. UpdatesFresh' /\ NumbersUnique'
  BY <1>2, <1>6, <1>8, ContentSame, Zenon
<1>11. Moves
  BY <1>2, <1>4, <1>8, Zenon DEF Moves
<1> QED BY <1>8, <1>9, <1>10, <1>11, RInvBy, Zenon

-----------------------------------------------------------------------------
(* The end of a group: last_sequence_ moves beyond it.                     *)

LEMMA GroupPaired ==
  ASSUME QueueInv, GroupInv, NEW w \in Writers, Grouped(w)
  PROVE  Paired(EntriesOf(group))
<1> DEFINE r == [ids |-> group.ids, seq |-> group.seq]
<1>1. r \in Record /\ EntriesOf(r) = EntriesOf(group)
  BY GroupLeader, Zenon
<1> HIDE DEF r
<1>2. Paired(EntriesOf(r))
  BY <1>1, RecordSound, Zenon
<1> QED BY <1>1, <1>2, Zenon

LEMMA GroupEnds ==
  ASSUME WInv, RInv, NEW w \in Writers, Grouped(w), mode = "up", mode' = "up",
         UNCHANGED <<mem, imm, version, edit, manifest, replay>>, lastSeq' = LastOf(group),
         Disk' \subseteq Disk \cup EntriesOf(group), CallsLeft,
         pc[w] = "insert" => EntriesOf(group) \subseteq mem,
         acked' = acked \/ (pc[w] = "insert" /\ acked' \subseteq acked \cup Ids(EntriesOf(group)))
  PROVE  Numbered' /\ Everything' \subseteq Everything \cup EntriesOf(group) /\ Visible \subseteq Visible'
<1>1. /\ QueueInv /\ GroupInv /\ StoreTypeOK /\ GroupNumbers /\ TableNumbers /\ UpNumbers /\ BatchesWhole
      /\ lastSeq \in Nat
  BY Zenon DEF WInv, RInv, StoreTypeOK
<1>2. /\ lastSeq' \in Nat /\ lastSeq <= lastSeq'
      /\ \A e \in EntriesOf(group) : e.seq > lastSeq /\ e.seq <= lastSeq'
  BY <1>1, GroupAbove, Zenon
<1>3. Frozen' = Frozen /\ View' = View
  BY Zenon DEF Frozen, View
<1>4. View \subseteq Entry /\ Disk \subseteq Entry /\ \A e \in Entry : e.seq \in Nat
  BY <1>1, EntriesTyped, Zenon DEF Entry
<1>a. \A n \in Nat : n <= lastSeq => n <= lastSeq'
  BY <1>1, <1>2
<1>5. Visible \subseteq Visible'
  BY <1>3, <1>4, <1>a, Zenon DEF Visible
<1>6. TableNumbers'
  <2>1. edit # None => edit.seq \in Nat
    BY <1>1, Zenon DEF StoreTypeOK, Edit
  <2> QED BY <1>1, <1>a, <2>1, Zenon DEF TableNumbers, UpTo
<1>7. OpenNumbers'
  BY Zenon DEF OpenNumbers
<1>8. \A e \in mem \cup Disk : e.seq <= lastSeq'
  <2>1. mem \subseteq View
    BY Zenon DEF View
  <2>2. \A e \in mem \cup Disk : e.seq \in Nat /\ (e.seq <= lastSeq \/ e \in EntriesOf(group))
    BY <1>1, <1>4, <2>1, Zenon DEF UpNumbers
  <2> QED BY <1>1, <1>2, <2>2
<1>9. UpNumbers'
  <2>1. UpTo(version'.tables \cup Frozen', lastSeq')
    <3>1. \A e \in version.tables \cup Frozen : e.seq \in Nat /\ e.seq <= lastSeq
      BY <1>1, <1>4, Zenon DEF UpNumbers, UpTo, View
    <3> QED BY <1>1, <1>2, <1>3, <3>1 DEF UpTo
  <2>2. \A e \in mem' \cup Disk' : e.seq <= lastSeq'
    BY <1>2, <1>8, Zenon
  <2>3. acked' \subseteq Ids(Visible')
    <3>1. acked \subseteq Ids(Visible')
      BY <1>1, <1>5, IdsGrow, Zenon DEF UpNumbers
    <3>2. CASE acked' = acked
      BY <3>1, <3>2, Zenon
    <3>3. CASE pc[w] = "insert" /\ acked' \subseteq acked \cup Ids(EntriesOf(group))
      <4>1. EntriesOf(group) \subseteq Visible'
        BY <1>2, <1>3, <3>3, Zenon DEF Visible, View
      <4>2. Ids(EntriesOf(group)) \subseteq Ids(Visible')
        BY <4>1, IdsGrow, Zenon
      <4> QED BY <3>1, <3>3, <4>2, Zenon
    <3> QED BY <3>2, <3>3, Zenon
  <2>4. UpTo(mem', lastSeq')
    BY <2>2, Zenon DEF UpTo
  <2> QED BY <2>1, <2>2, <2>3, <2>4, Zenon DEF UpNumbers
<1>10. Paired({e \in mem' : e.seq <= lastSeq'})
  <2>1. {e \in mem' : e.seq <= lastSeq'} = mem
    BY <1>8, Zenon
  <2>2. CASE pc[w] # "insert"
    <3>1. \A v \in Writers : pc[v] # "insert"
      <4>1. \A v \in Writers : pc[v] \in Busy => v = w
        BY <1>1, OneLeader, Zenon DEF Grouped, Busy
      <4> QED BY <2>2, <4>1, Zenon DEF Busy
    <3>2. {e \in mem : e.seq <= lastSeq} = mem
      BY <1>1, <3>1, Zenon DEF UpNumbers, UpTo
    <3> QED BY <1>1, <2>1, <3>2, Zenon DEF BatchesWhole
  <2>3. CASE pc[w] = "insert"
    <3> DEFINE M == {e \in mem : e.seq <= lastSeq}
    <3>1. mem = M \cup EntriesOf(group)
      BY <1>1, <2>3, Zenon DEF UpNumbers
    <3>2. Paired(M) /\ Paired(EntriesOf(group))
      BY <1>1, GroupPaired, Zenon DEF BatchesWhole
    <3> HIDE DEF M
    <3>3. Paired(M \cup EntriesOf(group))
      BY <3>2, PairedUnion, Zenon
    <3> QED BY <2>1, <3>1, <3>3, Zenon
  <2> QED BY <2>2, <2>3, Zenon
<1>11. BatchesWhole'
  <2>1. /\ Paired(manifest.tables) /\ (edit # None => Paired(edit.tables)) /\ Paired(version.tables)
        /\ Paired(Frozen) /\ Paired(replay.tables)
    BY <1>1, Zenon DEF BatchesWhole
  <2> QED BY <1>3, <1>10, <2>1, Zenon DEF BatchesWhole, Paired
<1>12. Everything' \subseteq Everything \cup EntriesOf(group)
  BY <1>3, Zenon DEF Everything
<1> QED BY <1>5, <1>6, <1>7, <1>9, <1>11, <1>12, Zenon DEF Numbered

\* The group is in the memtable, or it failed.
LEMMA GroupEndReads ==
  ASSUME WInv, RInv, NEW w \in Writers,
         AddRecordFails(w) \/ (SyncFails(w) /\ call[w].kind # "sync") \/ WriteDone(w)
  PROVE  RInv' /\ Moves
<1>1. QueueInv /\ GroupInv /\ StoreTypeOK /\ StoreInv /\ RecordInv /\ GroupNumbers
  BY Zenon DEF WInv, RInv
<1>2. /\ pc[w] \in {"append", "sync", "insert"} /\ (pc[w] = "sync" => call[w].kind = "write")
      /\ (pc[w] = "insert" => todo = <<>>) /\ lastSeq' = LastOf(group)
      /\ \E ok \in BOOLEAN : \E promise : Dequeue(w, group.last, ok, promise) /\ (ok => pc[w] = "insert")
      /\ UNCHANGED <<wal, mode, mem, imm, version, edit, replay, manifest, updates>>
      /\ (pc[w] = "append" /\ Logged) \/ logs' = logs
  <2>0. TRUE \in BOOLEAN /\ FALSE \in BOOLEAN
    BY Zenon
  <2>1. CASE AddRecordFails(w)
    <3>1. /\ pc[w] = "append" /\ (Logged \/ logs' = logs) /\ lastSeq' = LastOf(group)
          /\ Dequeue(w, group.last, FALSE, {})
          /\ UNCHANGED <<wal, mode, mem, imm, version, edit, replay, manifest, updates>>
      BY <2>1, Zenon DEF AddRecordFails, LogRecordFails, Leads, Finish, counts
    <3>2. pc[w] \in {"append", "sync", "insert"} /\ pc[w] # "sync" /\ pc[w] # "insert"
      BY <3>1, Zenon
    <3> QED BY <2>0, <3>1, <3>2, Zenon
  <2>2. CASE SyncFails(w) /\ call[w].kind # "sync"
    <3>1. pc[w] = "sync" /\ call[w].kind = "write"
      BY <1>1, <2>2, Zenon DEF SyncFails, Leads, QueueInv
    <3>2. /\ lastSeq' = LastOf(group) /\ Dequeue(w, group.last, FALSE, {}) /\ logs' = logs
          /\ UNCHANGED <<wal, mode, mem, imm, version, edit, replay, manifest, updates>>
      BY <2>2, <3>1, Zenon DEF SyncFails, Finish, disk, counts
    <3>3. pc[w] \in {"append", "sync", "insert"} /\ pc[w] # "insert"
      BY <3>1, Zenon
    <3> QED BY <2>0, <3>1, <3>2, <3>3, Zenon
  <2>3. CASE WriteDone(w)
    <3>1. /\ pc[w] = "insert" /\ todo = <<>> /\ lastSeq' = LastOf(group) /\ logs' = logs
          /\ Dequeue(w, group.last, TRUE, IF wal THEN Synced(w) ELSE {})
          /\ UNCHANGED <<wal, mode, mem, imm, version, edit, replay, manifest, updates>>
      BY <2>3, Zenon DEF WriteDone, Leads, Finish, disk, counts
    <3>2. pc[w] \in {"append", "sync", "insert"} /\ pc[w] # "sync"
      BY <3>1, Zenon
    <3> QED BY <2>0, <3>1, <3>2, Zenon
  <2> QED BY <2>1, <2>2, <2>3, Zenon
<1>3. Grouped(w) /\ pc[w] # "idle"
  BY <1>1, <1>2, Zenon DEF QueueInv, Grouped
<1>4. mode = "up" /\ mode' = "up" /\ UpInv
  BY <1>1, <1>2, <1>3, CallsMeanUp, Zenon
<1>5. /\ CallsLeft
      /\ acked' = acked \/ (pc[w] = "insert" /\ acked' \subseteq acked \cup Ids(EntriesOf(group)))
  <2>1. PICK ok \in BOOLEAN : \E promise : Dequeue(w, group.last, ok, promise) /\ (ok => pc[w] = "insert")
    BY <1>2, Zenon
  <2>2. CallsLeft /\ acked' \subseteq acked \cup Ids(EntriesOf(group)) /\ (~ok => acked' = acked)
    BY <1>1, <1>3, <2>1, GroupGoes, Zenon
  <2> QED BY <2>1, <2>2, Zenon
<1>6. Disk' \subseteq Disk \cup EntriesOf(group)
  <2>1. CASE logs' = logs
    BY <1>2, <2>1, DiskSame, Zenon
  <2>2. CASE pc[w] = "append" /\ Logged
    <3>1. wal
      BY <1>1, <1>3, <2>2, Zenon DEF RecordInv
    <3> QED BY <1>1, <1>2, <1>3, <1>4, <2>2, <3>1, AppendedContent, Zenon
  <2> QED BY <1>2, <2>1, <2>2, Zenon
<1>7. pc[w] = "insert" => EntriesOf(group) \subseteq mem
  <2>1. Range(<<>>) = {}
    BY DEF Range
  <2> QED BY <1>1, <1>2, <1>3, <2>1, Zenon DEF RecordInv
<1>8. Numbered' /\ Everything' \subseteq Everything \cup EntriesOf(group) /\ Visible \subseteq Visible'
  BY <1>2, <1>3, <1>4, <1>5, <1>6, <1>7, GroupEnds, Zenon
<1>9. UpdatesFresh' /\ NumbersUnique' /\ GroupNumbers'
  BY <1>2, <1>5, <1>8, ContentLeft, Zenon
<1>10. Moves
  BY <1>4, <1>5, <1>8, Zenon DEF Moves, CallsLeft
<1> QED BY <1>8, <1>9, <1>10, RInvBy, Zenon

LEMMA InsertIntoReads ==
  ASSUME WInv, RInv, NEW w \in Writers, InsertInto(w)
  PROVE  RInv' /\ Moves
<1> DEFINE e == Head(todo)
<1>1. QueueInv /\ GroupInv /\ StoreTypeOK /\ StoreInv /\ RecordInv /\ RInv /\ lastSeq \in Nat
  BY Zenon DEF WInv, StoreTypeOK
<1>2. GroupNumbers /\ TableNumbers /\ UpNumbers /\ BatchesWhole
  BY Zenon DEF RInv
<1>3. /\ pc[w] = "insert" /\ todo # <<>> /\ mem' = mem \cup {e}
      /\ UNCHANGED <<mode, pc, call, queue, group, imm, lastSeq, version, edit, replay, logs, manifest, acked, promised,
                     updates>>
  BY Zenon DEF InsertInto, Leads, history, disk, counts
<1>4. Grouped(w) /\ pc[w] # "idle"
  BY <1>1, <1>3, Zenon DEF QueueInv, Grouped
<1>5. mode = "up" /\ mode' = "up"
  BY <1>1, <1>3, <1>4, CallsMeanUp, Zenon
<1>6. e \in EntriesOf(group)
  BY <1>1, <1>3, <1>4, HeadTail, Zenon DEF RecordInv
<1> HIDE DEF e
<1>7. e.seq > lastSeq
  BY <1>1, <1>2, <1>6, GroupAbove, Zenon
<1>8. e.seq \in Nat
  BY <1>1, <1>2, <1>6, GroupCalls, Zenon DEF Entry
<1>9. /\ Disk' = Disk /\ Frozen' = Frozen /\ View' = View \cup {e} /\ Visible \subseteq Visible'
      /\ Everything' \subseteq Everything \cup EntriesOf(group)
  <2>1. Disk' = Disk /\ Frozen' = Frozen
    BY <1>3, DiskSame, Zenon DEF Frozen
  <2>2. View' = View \cup {e}
    BY <1>3, <2>1, Zenon DEF View
  <2> QED BY <1>3, <1>6, <2>1, <2>2, Zenon DEF Everything, Visible
<1>10. GroupNumbers'
  <2>1. \A v \in Writers : Grouped(v)' <=> Grouped(v)
    BY <1>3, Zenon DEF Grouped
  <2> QED BY <1>2, <1>3, <1>4, <2>1, Zenon DEF GroupNumbers
<1>11. TableNumbers' /\ OpenNumbers'
  BY <1>2, <1>3, <1>5, Zenon DEF TableNumbers, UpTo, OpenNumbers
<1>12. UpNumbers'
  <2>1. UpTo(version'.tables \cup Frozen', lastSeq')
    BY <1>2, <1>3, <1>5, <1>9, Zenon DEF UpNumbers, UpTo
  <2>2. \A x \in mem' \cup Disk' : x.seq <= lastSeq' \/ x \in EntriesOf(group')
    BY <1>2, <1>3, <1>5, <1>6, <1>9, Zenon DEF UpNumbers
  <2>3. acked' \subseteq Ids(Visible')
    <3>1. Ids(Visible) \subseteq Ids(Visible')
      BY <1>9, IdsGrow, Zenon
    <3> QED BY <1>2, <1>3, <1>5, <3>1, Zenon DEF UpNumbers
  <2>4. ~ \A v \in Writers : pc'[v] # "insert"
    BY <1>3, Zenon
  <2> QED BY <2>1, <2>2, <2>3, <2>4, Zenon DEF UpNumbers
<1>13. BatchesWhole'
  <2>1. {x \in mem' : x.seq <= lastSeq'} = {x \in mem : x.seq <= lastSeq}
    BY <1>1, <1>3, <1>7, <1>8
  <2>2. Paired({x \in mem' : x.seq <= lastSeq'})
    BY <1>2, <2>1, Zenon DEF BatchesWhole
  <2>3. /\ Paired(manifest.tables) /\ (edit # None => Paired(edit.tables)) /\ Paired(version.tables)
        /\ Paired(Frozen) /\ Paired(replay.tables)
    BY <1>2, Zenon DEF BatchesWhole
  <2> QED BY <1>3, <1>9, <2>2, <2>3, Zenon DEF BatchesWhole, Paired
<1>14. UpdatesFresh' /\ NumbersUnique'
  <2>1. \A v \in Writers : call'[v] \in {call[v], NoCall}
    BY <1>3, Zenon
  <2> QED BY <1>3, <1>9, <2>1, ContentSame, Zenon
<1>15. Moves
  BY <1>3, <1>5, <1>9, Zenon DEF Moves
<1>16. Numbered'
  BY <1>11, <1>12, <1>13, Zenon DEF Numbered
<1> QED BY <1>10, <1>14, <1>15, <1>16, RInvBy, Zenon

-----------------------------------------------------------------------------
(* A new group takes the next numbers.                                     *)

LEMMA UnionSound ==
  ASSUME NEW A, NEW B, OneNumber(A), Near(A), OneNumber(B), Near(B),
         \A a \in A, b \in B : a.seq # b.seq /\ a.id # b.id
  PROVE  OneNumber(A \cup B) /\ Near(A \cup B)
<1>1. OneNumber(A \cup B)
  BY Zenon DEF OneNumber
<1>2. Near(A \cup B)
  BY Zenon DEF Near
<1> QED BY <1>1, <1>2, Zenon

LEMMA ElementOf ==
  ASSUME NEW S, NEW q \in Seq(S), NEW i \in 1..Len(q)
  PROVE  q[i] \in S
OBVIOUS

LEMMA LengthOf ==
  ASSUME NEW S, NEW q \in Seq(S), NEW n \in Nat, DOMAIN q = 1..n
  PROVE  Len(q) = n
OBVIOUS

LEMMA NobodyElse ==
  ASSUME QueueInv, GroupNumbers, NEW w \in Writers, pc[w] = "lead"
  PROVE  /\ \A v \in Writers : ~Grouped(v) /\ pc[v] # "insert"
         /\ group = NoGroup /\ todo = <<>> /\ EntriesOf(group) = {} /\ Len(group.ids) = 0
<1>1. \A v \in Writers : pc[v] \in Busy => v = w
  BY OneLeader, Zenon DEF Busy
<1>2. \A v \in Writers : ~Grouped(v) /\ pc[v] # "insert"
  BY <1>1, Zenon DEF Busy, Grouped
<1> QED BY <1>2, NoGroupEntries, Zenon DEF GroupNumbers

\* What BuildBatchGroup takes from the front of the queue.
LEMMA FrontOf ==
  ASSUME NEW q \in Seq(Writers), NEW n \in 1..Len(q), NEW ids \in Seq(1..MaxUpdates),
         ids = [k \in 1..n |-> call[q[k]].id]
  PROVE  /\ Len(ids) = n
         /\ \A k \in 1..n : ids[k] = call[q[k]].id /\ k \in 1..Len(q) /\ q[k] \in Writers
<1>1. Len(q) \in Nat /\ n \in Nat /\ \A k \in 1..n : k \in 1..Len(q)
  OBVIOUS
<1>2. DOMAIN ids = 1..n /\ \A k \in 1..n : ids[k] = call[q[k]].id
  BY Zenon
<1>3. Len(ids) = n
  BY <1>1, <1>2, LengthOf, Zenon
<1>4. \A k \in 1..n : q[k] \in Writers
  BY <1>1, ElementOf, Zenon
<1> QED BY <1>1, <1>2, <1>3, <1>4, Zenon

\* A record of the first calls of the queue, with the numbers after lastSeq.
LEMMA JoinedRecord ==
  ASSUME QueueInv, UpdatesFresh, lastSeq \in Nat, Len(group.ids) = 0, OneNumber(Everything), Near(Everything),
         \A e \in Everything : e.seq \in Nat /\ e.seq <= lastSeq,
         NEW rec \in Record, rec.seq = lastSeq + 1,
         \A k \in 1..Len(rec.ids) : rec.ids[k] = call[queue[k]].id /\ k \in 1..Len(queue) /\ queue[k] \in Writers
  PROVE  OneNumber(Everything \cup EntriesOf(rec)) /\ Near(Everything \cup EntriesOf(rec))
<1>1. rec.ids \in Seq(1..MaxUpdates) /\ Len(rec.ids) \in Nat
  BY RecordBatches, Zenon
<1>2. OneNumber(EntriesOf(rec)) /\ Near(EntriesOf(rec))
  <2>1. ASSUME NEW i \in 1..Len(rec.ids), NEW j \in 1..Len(rec.ids), rec.ids[i] = rec.ids[j] PROVE i = j
    <3>1. /\ call[queue[i]].id = call[queue[j]].id /\ queue[i] \in Writers /\ queue[j] \in Writers
          /\ i \in 1..Len(queue) /\ j \in 1..Len(queue)
      BY <2>1, Zenon
    <3>2. call[queue[i]].id # 0
      <4>1. rec.ids[i] \in 1..MaxUpdates /\ rec.ids[i] = call[queue[i]].id
        BY <1>1, ElementOf, Zenon
      <4>2. 0 \notin 1..MaxUpdates
        OBVIOUS
      <4> QED BY <4>1, <4>2, Zenon
    <3>3. queue[i] = queue[j]
      BY <3>1, <3>2, Zenon DEF UpdatesFresh
    <3>4. \A k, l \in 1..Len(queue) : queue[k] = queue[l] => k = l
      BY Zenon DEF QueueInv
    <3> QED BY <3>1, <3>3, <3>4, Zenon
  <2>2. \A i, j \in 1..Len(rec.ids) : rec.ids[i] = rec.ids[j] => i = j
    BY <2>1, Zenon
  <2> QED BY <2>2, RecordSound, RecordNear, Zenon
<1>3. ASSUME NEW e \in Everything, NEW f \in EntriesOf(rec) PROVE e.seq # f.seq /\ e.id # f.id
  <2>1. PICK j \in 1..Len(rec.ids) :
          f.id = rec.ids[j] /\ f.seq \in {rec.seq + 2 * j - 2, rec.seq + 2 * j - 1}
    BY RecordBatches, Zenon
  <2>2. e.seq # f.seq
    <3>1. rec.seq = lastSeq + 1 /\ lastSeq \in Nat /\ j \in Nat /\ j > 0
      BY <1>1
    <3>2. \A s \in {rec.seq + 2 * j - 2, rec.seq + 2 * j - 1} : s \in Nat /\ s > lastSeq
      BY <3>1
    <3>3. e.seq \in Nat /\ e.seq <= lastSeq
      BY <1>1, <1>3, Zenon
    <3>4. f.seq \in Nat /\ f.seq > lastSeq
      BY <2>1, <3>2, Zenon
    <3> QED BY <3>1, <3>3, <3>4
  <2>3. j \in 1..Len(queue) /\ f.id = call[queue[j]].id
    BY <2>1, Zenon
  <2>4. j > Len(group.ids)
    BY <1>1
  <2>5. e.id # f.id
    BY <2>3, <2>4, Zenon DEF UpdatesFresh
  <2> QED BY <2>2, <2>5, Zenon
<1> QED BY <1>2, <1>3, UnionSound, ZenonT(30)

LEMMA BuildReads ==
  ASSUME WInv, RInv, NEW w \in Writers, pc[w] = "lead", call[w].kind = "write", BuildBatchGroup(w), mode = "up",
         UNCHANGED <<wal, lastSeq, updates>>, Everything' \subseteq Everything
  PROVE  /\ GroupNumbers' /\ UpdatesFresh' /\ NumbersUnique' /\ UNCHANGED <<acked, promised>>
         /\ \A v \in Writers : v # w => pc'[v] = pc[v]
<1>1. QueueInv /\ StoreTypeOK /\ lastSeq \in Nat /\ wal \in BOOLEAN
  BY Zenon DEF WInv, StoreTypeOK
<1>2. GroupNumbers /\ UpNumbers /\ UpdatesFresh /\ NumbersUnique
  BY Zenon DEF RInv
<1>3. EntriesOf(group) = {} /\ Len(group.ids) = 0
  BY <1>1, <1>2, NobodyElse, Zenon
<1>4. PICK n \in GroupSizes(w) :
        /\ group' = [ids |-> [k \in 1..n |-> call[queue[k]].id], seq |-> lastSeq + 1, last |-> queue[n]]
        /\ UNCHANGED <<call, queue, acked, promised>>
  BY Zenon DEF BuildBatchGroup, history
<1>5. /\ QueueInv' /\ GroupInv' /\ pc'[w] = (IF wal THEN "append" ELSE "insert")
      /\ \A v \in Writers : v # w => pc'[v] = pc[v]
  BY <1>1, BuildStep, Zenon
<1>6. Grouped(w)'
  BY <1>4, <1>5, Zenon DEF Grouped
<1>7. GroupNumbers'
  BY <1>4, <1>6, Zenon DEF GroupNumbers
<1> DEFINE r == [ids |-> group'.ids, seq |-> group'.seq]
<1>8. r \in Record /\ EntriesOf(r) = EntriesOf(group')
  <2>1. group' \in [ids : Seq(1..MaxUpdates), seq : Nat, last : Writers]
    BY <1>5, <1>6, Zenon DEF GroupInv
  <2> QED BY <2>1, GroupRecord, Zenon
<1>9. /\ r.seq = lastSeq + 1
      /\ \A k \in 1..Len(r.ids) : r.ids[k] = call[queue[k]].id /\ k \in 1..Len(queue) /\ queue[k] \in Writers
  <2>1. n \in 1..Len(queue) /\ queue \in Seq(Writers)
    BY <1>1 DEF GroupSizes, QueueInv
  <2>2. r.ids = [k \in 1..n |-> call[queue[k]].id] /\ r.seq = lastSeq + 1
    BY <1>4, Zenon
  <2>3. r.ids \in Seq(1..MaxUpdates)
    BY <1>8, Zenon DEF Record
  <2> HIDE DEF r
  <2>4. /\ Len(r.ids) = n
        /\ \A k \in 1..n : r.ids[k] = call[queue[k]].id /\ k \in 1..Len(queue) /\ queue[k] \in Writers
    BY <2>1, <2>2, <2>3, FrontOf, ZenonT(30)
  <2> QED BY <2>2, <2>4, Zenon
<1> HIDE DEF r
<1>10. \A e \in Everything : e.seq \in Nat /\ e.seq <= lastSeq
  <2>1. Everything \subseteq Entry
    BY <1>1, EntriesTyped, Zenon
  <2>2. \A e \in Everything : e.seq <= lastSeq
    BY <1>2, <1>3, Zenon DEF Everything, View, UpNumbers, UpTo
  <2> QED BY <2>1, <2>2, Zenon DEF Entry
<1>11. NumbersUnique'
  <2>1. OneNumber(Everything) /\ Near(Everything)
    BY <1>2, <1>3, Zenon DEF NumbersUnique
  <2>2. OneNumber(Everything \cup EntriesOf(r)) /\ Near(Everything \cup EntriesOf(r))
    BY <1>1, <1>2, <1>3, <1>8, <1>9, <1>10, <2>1, JoinedRecord, ZenonT(30)
  <2>3. Everything' \cup EntriesOf(group') \subseteq Everything \cup EntriesOf(r)
    BY <1>8, Zenon
  <2>4. OneNumber(Everything' \cup EntriesOf(group')) /\ Near(Everything' \cup EntriesOf(group'))
    BY <2>2, <2>3, SubSound, ZenonT(30)
  <2> QED BY <2>4, Zenon DEF NumbersUnique, OneNumber, Near
<1>12. UpdatesFresh'
  <2>1. \A k \in 1..Len(queue) : k > Len(group.ids)
    <3>1. Len(group.ids) = 0
      BY <1>3, Zenon
    <3> QED BY <3>1
  <2> QED BY <1>2, <1>4, <2>1, Zenon DEF UpdatesFresh
<1> QED BY <1>4, <1>5, <1>7, <1>11, <1>12, Zenon

LEMMA RoomReadyReads ==
  ASSUME WInv, RInv, NEW w \in Writers, RoomReady(w)
  PROVE  RInv' /\ Moves
<1>1. QueueInv /\ StoreInv /\ GroupNumbers
  BY Zenon DEF WInv, RInv
<1>2. /\ pc[w] = "lead" /\ call[w].kind = "write" /\ BuildBatchGroup(w)
      /\ UNCHANGED <<wal, mode, mem, imm, lastSeq, version, edit, replay, logs, manifest, updates>>
  BY Zenon DEF RoomReady, dbVars, disk, counts
<1>3. mode = "up" /\ mode' = "up"
  <2>1. pc[w] # "idle"
    BY <1>2, Zenon
  <2> QED BY <1>1, <1>2, <2>1, CallsMeanUp, Zenon
<1>4. /\ \A v \in Writers : pc[v] # "insert"
      /\ EntriesOf(group) = {}
  BY <1>1, <1>2, NobodyElse, Zenon
<1>5. Everything' \subseteq Everything /\ Disk' \subseteq Disk \cup EntriesOf(group)
  <2>1. Disk' = Disk
    BY <1>2, DiskSame, Zenon
  <2> QED BY <1>2, <2>1, Zenon DEF Everything, View, Frozen
<1>6. GroupNumbers' /\ UpdatesFresh' /\ NumbersUnique' /\ UNCHANGED <<acked, promised>>
  BY <1>2, <1>3, <1>5, BuildReads, Zenon
<1>7. Numbered' /\ Visible' = Visible
  <2>1. EntriesOf(group) \subseteq EntriesOf(group') /\ acked' \subseteq acked
    BY <1>4, <1>6, Zenon
  <2> QED BY <1>2, <1>3, <1>4, <1>5, <2>1, StoreRests, Zenon
<1>8. Moves
  BY <1>3, <1>6, <1>7, Zenon DEF Moves
<1> QED BY <1>6, <1>7, <1>8, RInvBy, Zenon

LEMMA DiskNewLog ==
  ASSUME NewLog, manifest' = manifest
  PROVE  Disk' \subseteq Disk
<1>1. CASE ~wal
  BY <1>1, DiskSame, Zenon DEF NewLog
<1>2. CASE wal
  <2>1. PICK n \in {logs[logNo].synced, Len(logs[logNo].recs)} :
          logs' = [k \in DOMAIN logs \cup {nextFile} |->
                     IF k = nextFile THEN EmptyLog
                     ELSE IF k = logNo THEN [recs |-> logs[k].recs, synced |-> n]
                     ELSE logs[k]]
    BY <1>2, Zenon DEF NewLog
  <2>2. ASSUME NEW k \in DOMAIN logs'
        PROVE  \/ k \in DOMAIN logs /\ Content(logs'[k]) \subseteq Content(logs[k]) \cup Disk
               \/ Content(logs'[k]) = {}
    <3>1. CASE k = nextFile
      <4>1. logs'[k] = EmptyLog
        BY <2>1, <3>1, Zenon
      <4> QED BY <4>1, NoLog, Zenon
    <3>2. CASE k # nextFile
      <4>1. k \in DOMAIN logs /\ logs'[k].recs = logs[k].recs
        BY <2>1, <3>2, Zenon
      <4> QED BY <4>1, Zenon DEF Content
    <3> QED BY <3>1, <3>2, Zenon
  <2>3. Disk' \subseteq Disk \cup Disk
    BY <2>2, DiskBound, Zenon
  <2> QED BY <2>3, Zenon
<1> QED BY <1>1, <1>2, Zenon

\* The memtable that is switched holds whole batches.
LEMMA SwitchReads ==
  ASSUME WInv, RInv, NEW w \in Writers, SwitchMemTable(w)
  PROVE  RInv' /\ Moves
<1>1. QueueInv /\ StoreTypeOK /\ StoreInv
  BY Zenon DEF WInv
<1>2. GroupNumbers /\ TableNumbers /\ UpNumbers /\ BatchesWhole
  BY Zenon DEF RInv
<1>3. /\ pc[w] = "lead" /\ call[w].kind # "sync" /\ imm = {} /\ NewLog /\ imm' = {mem} /\ mem' = {}
      /\ IF call[w].kind = "flush" THEN Finish(w, w, TRUE, {}) ELSE BuildBatchGroup(w)
      /\ UNCHANGED <<wal, mode, lastSeq, version, edit, replay, manifest, updates>>
  BY Zenon DEF SwitchMemTable, SwitchWhen, counts
<1>4. mode = "up" /\ mode' = "up"
  <2>1. pc[w] # "idle"
    BY <1>3, Zenon
  <2> QED BY <1>1, <1>3, <2>1, CallsMeanUp, Zenon
<1>5. (\A v \in Writers : pc[v] # "insert" /\ ~Grouped(v)) /\ EntriesOf(group) = {}
  BY <1>1, <1>2, <1>3, NobodyElse, Zenon
<1>6. Frozen = {} /\ Frozen' = mem /\ View' = View /\ Visible' = Visible
  BY <1>3, Zenon DEF Frozen, View, Visible
<1>7. Disk' \subseteq Disk /\ Everything' \subseteq Everything
  BY <1>3, <1>6, DiskNewLog, Zenon DEF Everything
<1>8. acked' = acked /\ promised \subseteq promised' /\ GroupNumbers' /\ UpdatesFresh' /\ NumbersUnique'
  <2>1. CASE call[w].kind = "flush"
    <3>1. pc[w] \in Busy /\ ~Grouped(w) /\ TRUE \in BOOLEAN /\ Dequeue(w, w, TRUE, {}) /\ call[w].kind # "write"
      BY <1>3, <2>1, Zenon DEF Busy, Grouped, Finish
    <3>2. CallsLeft /\ acked' = acked
      BY <1>2, <3>1, AloneLeaves, Zenon
    <3>3. Everything' \subseteq Everything \cup EntriesOf(group)
      BY <1>7, Zenon
    <3>4. UpdatesFresh' /\ NumbersUnique' /\ GroupNumbers'
      BY <1>3, <3>2, <3>3, ContentLeft, Zenon
    <3> QED BY <3>2, <3>4, Zenon DEF CallsLeft
  <2>2. CASE call[w].kind # "flush"
    <3>1. call[w].kind = "write" /\ BuildBatchGroup(w)
      BY <1>1, <1>3, <2>2 DEF QueueInv, Calls, Busy
    <3>2. GroupNumbers' /\ UpdatesFresh' /\ NumbersUnique' /\ UNCHANGED <<acked, promised>>
      BY <1>3, <1>4, <1>7, <3>1, BuildReads, Zenon
    <3> QED BY <3>2, Zenon
  <2> QED BY <2>1, <2>2, Zenon
<1>9. UpTo(mem, lastSeq) /\ UpTo(version.tables, lastSeq) /\ (\A e \in Disk : e.seq <= lastSeq)
  BY <1>2, <1>4, <1>5, Zenon DEF UpNumbers, UpTo
<1>10. TableNumbers' /\ OpenNumbers'
  BY <1>2, <1>3, <1>4, Zenon DEF TableNumbers, UpTo, OpenNumbers
<1>11. UpNumbers'
  <2>1. UpTo(version'.tables \cup Frozen', lastSeq') /\ UpTo(mem', lastSeq')
    BY <1>3, <1>6, <1>9, Zenon DEF UpTo
  <2>2. \A e \in mem' \cup Disk' : e.seq <= lastSeq'
    BY <1>3, <1>7, <1>9, Zenon
  <2>3. acked' \subseteq Ids(Visible')
    BY <1>2, <1>4, <1>6, <1>8, Zenon DEF UpNumbers
  <2> QED BY <2>1, <2>2, <2>3, Zenon DEF UpNumbers
<1>12. BatchesWhole'
  <2>1. {e \in mem : e.seq <= lastSeq} = mem /\ {e \in mem' : e.seq <= lastSeq'} = {}
    BY <1>3, <1>9, Zenon DEF UpTo
  <2>2. Paired(Frozen') /\ Paired({e \in mem' : e.seq <= lastSeq'})
    BY <1>2, <1>6, <2>1 DEF BatchesWhole, Paired
  <2>3. /\ Paired(manifest.tables) /\ (edit # None => Paired(edit.tables)) /\ Paired(version.tables)
        /\ Paired(replay.tables)
    BY <1>2, Zenon DEF BatchesWhole
  <2> QED BY <1>3, <2>2, <2>3, Zenon DEF BatchesWhole, Paired
<1>13. Moves
  BY <1>4, <1>6, <1>8, Zenon DEF Moves
<1>14. Numbered'
  BY <1>10, <1>11, <1>12, Zenon DEF Numbered
<1> QED BY <1>8, <1>13, <1>14, RInvBy, Zenon

\* All steps of the callers.
LEMMA WriterReads ==
  ASSUME WInv, RInv, NEW w \in Writers, pc[w] \in {"append", "sync"} => wal,
         Write(w) \/ SyncWAL(w) \/ FlushMemTable(w) \/ Step(w), "behind" \notin ReplayFaults
  PROVE  RInv' /\ Moves
<1>1. CASE Write(w) \/ SyncWAL(w) \/ FlushMemTable(w)
  BY <1>1, EnqueueReads, Zenon
<1>2. CASE WakeDone(w) \/ WakeFront(w) \/ SyncStart(w) \/ FlushDone(w)
  BY <1>2, CallReads, Zenon
<1>3. CASE RoomError(w) \/ SwitchFails(w) \/ SyncNothing(w)
  BY <1>3, LeaveReads, Zenon
<1>4. CASE RoomReady(w) \/ SwitchMemTable(w) \/ InsertInto(w)
  BY <1>4, RoomReadyReads, SwitchReads, InsertIntoReads, Zenon
<1>5. CASE AddRecord(w) \/ AddRecordFails(w) \/ WriteDone(w)
  <2>1. AddRecord(w) => wal
    BY Zenon DEF AddRecord, LogRecord, Leads
  <2> QED BY <1>5, <2>1, LoggedReads, GroupEndReads, Zenon
<1>6. CASE SyncOk(w) \/ SyncFails(w)
  <2>1. wal
    BY <1>6, Zenon DEF SyncOk, SyncFails, Leads
  <2> QED BY <1>6, <2>1, LoggedReads, GroupEndReads, LeaveReads, Zenon
<1> QED BY <1>1, <1>2, <1>3, <1>4, <1>5, <1>6, Zenon DEF Step
=============================================================================
