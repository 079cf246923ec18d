---------------------------- MODULE ReadersProofs ----------------------------
(***************************************************************************)
(* Readers and restarts: the steps of the dump, of a crash and of DB::Open *)
(* preserve the invariant of ReadCallProofs, and each step moves what      *)
(* readers see and what the disk holds as DurableWrites allows (Moves). So *)
(* readers find each acknowledged batch as a whole, sequence numbers are   *)
(* unique, and the write path implements DurableWrites.                    *)
(***************************************************************************)
EXTENDS ReadCallProofs, WritePathProofs

-----------------------------------------------------------------------------
(* The dump of the old memtable.                                           *)

\* The callers do not move and nothing is added.
LEMMA RestReads ==
  ASSUME WInv, RInv, UNCHANGED clientVars, updates' = updates, lastSeq' = lastSeq \/ mode # "up",
         Numbered', Everything' \subseteq Everything
  PROVE  RInv'
<1>1. StoreInv /\ GroupNumbers
  BY Zenon DEF WInv, RInv
<1>2. UNCHANGED <<pc, call, queue, group, todo>>
  BY Zenon DEF clientVars
<1>3. UpdatesFresh' /\ NumbersUnique'
  <2>1. Everything' \subseteq Everything \cup EntriesOf(group)
    BY Zenon
  <2>2. \A v \in Writers : call'[v] \in {call[v], NoCall}
    BY <1>2, Zenon
  <2> QED BY <1>2, <2>1, <2>2, ContentSame, Zenon
<1>4. GroupNumbers'
  <2>1. \A v \in Writers : Grouped(v)' <=> Grouped(v)
    BY <1>2, Zenon DEF Grouped
  <2>2. CASE lastSeq' = lastSeq
    BY <1>1, <1>2, <2>1, <2>2, GroupRests, Zenon
  <2>3. CASE mode # "up"
    <3>1. \A v \in Writers : ~Grouped(v)
      BY <1>1, <2>3, Zenon DEF StoreInv, Quiet, Grouped
    <3> QED BY <1>1, <1>2, <2>1, <3>1, Zenon DEF GroupNumbers
  <2> QED BY <2>2, <2>3, Zenon
<1> QED BY <1>3, <1>4, RInvBy, Zenon

LEMMA DumpStartReads ==
  ASSUME WInv, RInv, DumpStart \/ DumpFails
  PROVE  RInv' /\ Moves
<1>1. /\ mode = "up" /\ UNCHANGED clientVars
      /\ UNCHANGED <<mode, mem, imm, lastSeq, version, edit, replay, logs, manifest, acked, promised, updates>>
  <2>1. CASE DumpStart
    BY <2>1, Zenon DEF DumpStart, disk, history, counts
  <2>2. CASE DumpFails
    <3>1. /\ dump = "build" /\ UNCHANGED clientVars
          /\ UNCHANGED <<mode, mem, imm, lastSeq, version, edit, replay, logs, manifest, acked, promised, updates>>
      BY <2>2, Zenon DEF DumpFails, disk, history, counts
    <3> QED BY <3>1, DumpMeansUp, Zenon DEF WInv
  <2> QED BY <2>1, <2>2, Zenon
<1>2. Disk' = Disk /\ UNCHANGED <<pc, group>>
  BY <1>1, DiskSame, Zenon DEF clientVars
<1>3. /\ Disk' \subseteq Disk \cup EntriesOf(group) /\ EntriesOf(group) \subseteq EntriesOf(group')
      /\ acked' \subseteq acked /\ mode' = "up"
      /\ (\A v \in Writers : pc'[v] # "insert") => \A v \in Writers : pc[v] # "insert"
  BY <1>1, <1>2, Zenon
<1>4. Numbered' /\ Visible' = Visible
  BY <1>1, <1>3, StoreRests, Zenon
<1>5. Everything' \subseteq Everything
  BY <1>1, <1>2, Zenon DEF Everything, View, Frozen
<1>6. RInv'
  BY <1>1, <1>4, <1>5, RestReads, Zenon
<1> QED BY <1>1, <1>4, <1>6, Zenon DEF Moves

LEMMA DumpBuiltReads ==
  ASSUME WInv, RInv, DumpBuilt
  PROVE  RInv' /\ Moves
<1>1. /\ dump = "build" /\ UNCHANGED clientVars
      /\ UNCHANGED <<mode, mem, imm, lastSeq, version, replay, logs, manifest, acked, promised, updates>>
  BY Zenon DEF DumpBuilt, disk, history, counts
<1>2. edit'.seq = lastSeq /\ edit'.tables = version.tables \cup Frozen
  BY Zenon DEF DumpBuilt, EditWith
<1>3. mode = "up" /\ lastSeq \in Nat
  BY <1>1, DumpMeansUp, Zenon DEF WInv, StoreTypeOK
<1>4. Disk' = Disk /\ Frozen' = Frozen /\ View' = View /\ Visible' = Visible /\ UNCHANGED <<pc, group>>
  <2>1. Disk' = Disk
    BY <1>1, DiskSame, Zenon
  <2>2. UNCHANGED <<pc, group>>
    BY <1>1, Zenon DEF clientVars
  <2> QED BY <1>1, <2>1, <2>2, Zenon DEF Frozen, View, Visible
<1>5. TableNumbers /\ UpNumbers /\ BatchesWhole
  BY Zenon DEF RInv
<1>6. TableNumbers'
  <2>1. UpTo(edit'.tables, edit'.seq) /\ edit'.seq <= lastSeq'
    BY <1>1, <1>2, <1>3, <1>5 DEF UpNumbers
  <2> QED BY <1>1, <1>5, <2>1, Zenon DEF TableNumbers, UpTo
<1>7. OpenNumbers'
  BY <1>1, <1>3, Zenon DEF OpenNumbers
<1>8. UpNumbers'
  BY <1>1, <1>4, <1>5, Zenon DEF UpNumbers, UpTo
<1>9. BatchesWhole'
  <2>1. Paired(edit'.tables)
    BY <1>2, <1>5, PairedUnion, Zenon DEF BatchesWhole
  <2> QED BY <1>1, <1>4, <1>5, <2>1 DEF BatchesWhole, Paired
<1>10. Numbered' /\ Everything' \subseteq Everything
  BY <1>4, <1>6, <1>7, <1>8, <1>9, Zenon DEF Numbered, Everything
<1>11. RInv'
  BY <1>1, <1>10, RestReads, Zenon
<1> QED BY <1>1, <1>3, <1>4, <1>11, Zenon DEF Moves

\* The manifest on disk, and what is there with the logs that are left.
LEMMA ManifestDisk ==
  ASSUME WInv, RInv, manifest' \in MaybeWritten, DOMAIN logs' \subseteq DOMAIN logs,
         \A n \in DOMAIN logs' : Content(logs'[n]) \subseteq Content(logs[n])
  PROVE  /\ Disk' \subseteq Disk \cup (IF mode = "up" THEN InTables ELSE {})
         /\ UpTo(manifest'.tables, manifest'.seq) /\ Paired(manifest'.tables)
<1>1. StoreTypeOK /\ StoreInv /\ TableNumbers /\ OpenNumbers /\ BatchesWhole
  BY Zenon DEF WInv, RInv
<1>2. CASE manifest' = manifest
  <2>1. \A e : e \in Disk' => e \in Disk
    BY <1>2, DiskBy, DiskNextBy, Zenon
  <2> QED BY <1>1, <1>2, <2>1, Zenon DEF TableNumbers, BatchesWhole
<1>3. CASE manifest' = edit /\ edit # None
  <2>1. /\ \A n \in DOMAIN logs : n >= edit.log => n >= manifest.log
        /\ edit.tables \subseteq Disk \cup (IF mode = "up" THEN InTables ELSE {})
    <3>1. /\ DOMAIN logs \subseteq Nat /\ manifest.log \in Nat /\ edit.log \in Nat /\ logNo \in Nat
          /\ (wal \/ DOMAIN logs = {}) /\ mode \in {"down", "open", "up"}
      BY <1>1, <1>3, Zenon DEF StoreTypeOK, Edit
    <3>2. CASE mode = "up"
      <4>1. /\ edit.tables = InTables /\ (wal => edit.log = logNo /\ manifest.log <= logNo)
        BY <1>1, <1>3, <3>2, Zenon DEF StoreInv, UpInv, InTables
      <4> QED BY <3>1, <3>2, <4>1
    <3>3. CASE mode # "up"
      <4>1. mode = "open" /\ edit.log >= manifest.log /\ edit.tables \subseteq Disk
        BY <1>1, <1>3, <3>1, <3>3, Zenon DEF StoreInv, OpenInv, OpenNumbers
      <4> QED BY <3>1, <4>1
    <3> QED BY <3>2, <3>3, Zenon
  <2>2. \A e : e \in Disk' => e \in edit.tables \/ e \in Disk
    BY <1>3, <2>1, DiskBy, DiskNextBy, Zenon
  <2> QED BY <1>1, <1>3, <2>1, <2>2, Zenon DEF TableNumbers, BatchesWhole
<1> QED BY <1>2, <1>3, Zenon DEF MaybeWritten

\* The tables of an open DB hold what readers see.
LEMMA TablesVisible ==
  ASSUME RInv, mode = "up"
  PROVE  InTables \subseteq Visible /\ View = mem \cup InTables
BY Zenon DEF RInv, UpNumbers, UpTo, InTables, Visible, View

LEMMA DumpEndReads ==
  ASSUME WInv, RInv, DumpInstalled \/ DumpApplyFails
  PROVE  RInv' /\ Moves
<1>1. /\ dump = "apply" /\ (manifest' = manifest \/ manifest' = edit) /\ edit' = None /\ UNCHANGED clientVars
      /\ (DeleteObsoleteLogs(edit.log) \/ UNCHANGED logs)
      /\ UNCHANGED <<mode, mem, lastSeq, replay, acked, promised, updates>>
      /\ \/ UNCHANGED <<version, imm>>
         \/ manifest' = edit /\ version' = [log |-> edit.log, tables |-> edit.tables] /\ imm' = {}
  <2>1. CASE DumpInstalled
    BY <2>1, Zenon DEF DumpInstalled, InstallAnd, history, counts
  <2>2. CASE DumpApplyFails
    BY <2>2, Zenon DEF DumpApplyFails, history, counts
  <2> QED BY <2>1, <2>2, Zenon
<1>2. StoreTypeOK /\ StoreInv /\ TableNumbers /\ UpNumbers /\ BatchesWhole
  BY Zenon DEF WInv, RInv
<1>3. mode = "up" /\ edit # None /\ edit \in Edit /\ edit.tables = InTables
  <2>1. mode = "up" /\ UpInv
    <3>1. dump # "idle"
      BY <1>1, Zenon
    <3> QED BY <1>2, <3>1, DumpMeansUp, Zenon
  <2> QED BY <1>1, <1>2, <2>1, Zenon DEF UpInv, StoreTypeOK, InTables
<1>4. DOMAIN logs' \subseteq DOMAIN logs /\ \A n \in DOMAIN logs' : Content(logs'[n]) \subseteq Content(logs[n])
  <2>1. /\ DOMAIN logs' \subseteq DOMAIN logs /\ logs' \in [DOMAIN logs' -> Log]
        /\ DOMAIN logs' \subseteq Nat /\ (wal \/ DOMAIN logs' = {})
        /\ \A n \in DOMAIN logs' : logs'[n] = logs[n]
        /\ \A n \in DOMAIN logs : n >= edit.log => n \in DOMAIN logs'
    BY <1>1, <1>2, <1>3, LogsDeleted, Zenon
  <2> QED BY <2>1, Zenon
<1>5. Disk' \subseteq Disk \cup InTables /\ UpTo(manifest'.tables, manifest'.seq) /\ Paired(manifest'.tables)
  <2>1. manifest' \in MaybeWritten
    BY <1>1, <1>3, Zenon DEF MaybeWritten
  <2> QED BY <1>3, <1>4, <2>1, ManifestDisk, Zenon
<1>6. /\ InTables' = InTables /\ version'.tables \subseteq manifest'.tables
      /\ Paired(version'.tables) /\ Paired(Frozen')
  <2>1. CASE UNCHANGED <<version, imm>>
    <3>1. Frozen' = Frozen /\ InTables' = InTables /\ version.tables \subseteq InTables
      BY <2>1, Zenon DEF Frozen, InTables
    <3> QED BY <1>1, <1>2, <1>3, <2>1, <3>1, Zenon DEF TableNumbers, BatchesWhole
  <2>2. CASE manifest' = edit /\ version' = [log |-> edit.log, tables |-> edit.tables] /\ imm' = {}
    <3>1. Frozen' = {} /\ version'.tables = edit.tables
      BY <2>2, Zenon DEF Frozen
    <3>2. Paired(Frozen') /\ Paired(edit.tables)
      BY <1>2, <1>3, <3>1, Zenon DEF Paired, BatchesWhole
    <3> QED BY <1>3, <2>2, <3>1, <3>2, Zenon DEF InTables
  <2> QED BY <1>1, <2>1, <2>2, Zenon
<1>7. View' = View /\ Visible' = Visible /\ InTables \subseteq Visible /\ View = mem \cup InTables
  <2>1. InTables \subseteq Visible /\ View = mem \cup InTables
    BY <1>3, TablesVisible, Zenon
  <2>2. View' = mem' \cup InTables'
    BY Zenon DEF View, InTables
  <2> QED BY <1>1, <1>6, <2>1, <2>2, Zenon DEF Visible
<1>8. TableNumbers' /\ OpenNumbers'
  BY <1>1, <1>3, <1>5, <1>6, Zenon DEF TableNumbers, OpenNumbers, UpTo
<1>9. UpNumbers'
  <2>1. UNCHANGED <<pc, group>>
    BY <1>1, Zenon DEF clientVars
  <2>2. UpTo(InTables, lastSeq)
    BY <1>2, <1>3, Zenon DEF UpNumbers, InTables
  <2>3. \A e \in mem' \cup Disk' : e.seq <= lastSeq' \/ e \in EntriesOf(group')
    BY <1>1, <1>2, <1>3, <1>5, <2>1, <2>2, Zenon DEF UpNumbers, UpTo
  <2>4. version'.tables \cup Frozen' = InTables
    BY <1>6, Zenon DEF InTables
  <2> QED BY <1>1, <1>2, <1>3, <1>7, <2>1, <2>2, <2>3, <2>4, Zenon DEF UpNumbers, UpTo
<1>10. BatchesWhole'
  BY <1>1, <1>2, <1>5, <1>6 DEF BatchesWhole, Paired
<1>11. Numbered' /\ Everything' \subseteq Everything
  BY <1>5, <1>7, <1>8, <1>9, <1>10, Zenon DEF Numbered, Everything
<1>12. RInv'
  BY <1>1, <1>11, RestReads, Zenon
<1> QED BY <1>1, <1>3, <1>7, <1>12, Zenon DEF Moves
-----------------------------------------------------------------------------
(* Crashes, closes and failed opens.                                       *)

LEMMA GoneReads ==
  ASSUME WInv, RInv, Gone, manifest' \in MaybeWritten, promised' = promised, DOMAIN logs' = DOMAIN logs,
         \A n \in DOMAIN logs : Content(logs'[n]) \subseteq Content(logs[n])
  PROVE  RInv' /\ Moves
<1>1. /\ mode' = "down" /\ mem' = {} /\ imm' = {} /\ version' = [log |-> 0, tables |-> {}] /\ edit' = None
      /\ replay' = NoReplay /\ updates' = updates /\ queue' = <<>>
      /\ group' = NoGroup /\ todo' = <<>> /\ pc' = [w \in Writers |-> "idle"] /\ call' = [w \in Writers |-> NoCall]
  BY Zenon DEF Gone
<1>2. /\ Disk' \subseteq Disk \cup (IF mode = "up" THEN InTables ELSE {})
      /\ UpTo(manifest'.tables, manifest'.seq) /\ Paired(manifest'.tables)
  <2>1. DOMAIN logs' \subseteq DOMAIN logs /\ \A n \in DOMAIN logs' : Content(logs'[n]) \subseteq Content(logs[n])
    BY Zenon
  <2> QED BY <2>1, ManifestDisk, Zenon
<1>3. Frozen' = {} /\ version'.tables = {} /\ View' = {} /\ replay'.tables = {}
  BY <1>1, Zenon DEF Frozen, View, NoReplay
<1>4. mode = "up" => InTables \subseteq Visible /\ Visible \subseteq View
  BY TablesVisible, Zenon DEF Visible
<1>5. Everything' \subseteq Everything \cup EntriesOf(group)
  <2>1. InTables \subseteq View
    BY Zenon DEF View, InTables
  <2> QED BY <1>2, <1>3, <2>1, Zenon DEF Everything
<1>6. GroupNumbers'
  <2>1. \A w \in Writers : pc'[w] = "idle"
    BY <1>1, Zenon
  <2> QED BY <1>1, <2>1, Zenon DEF GroupNumbers, Grouped
<1>7. UpdatesFresh' /\ NumbersUnique'
  <2>1. /\ EntriesOf(group') \subseteq EntriesOf(group) /\ queue' \in Seq(Writers) /\ Len(queue') = 0
        /\ \A v \in Writers : call'[v] \in {call[v], NoCall}
    BY <1>1, NoGroupEntries
  <2>2. \A k \in 1..Len(queue') : k > Len(group'.ids) =>
          \E j \in 1..Len(queue) : j > Len(group.ids) /\ queue'[k] = queue[j]
    BY <2>1
  <2> QED BY <1>1, <1>5, <2>1, <2>2, ContentStep, Zenon
<1>8. TableNumbers' /\ OpenNumbers' /\ UpNumbers'
  BY <1>1, <1>2, <1>3, Zenon DEF TableNumbers, OpenNumbers, UpNumbers, UpTo
<1>9. BatchesWhole'
  BY <1>1, <1>2, <1>3, Zenon DEF BatchesWhole, Paired
<1>10. Moves
  BY <1>1, <1>2, <1>4, Zenon DEF Moves
<1> QED BY <1>6, <1>7, <1>8, <1>9, <1>10, RInvBy, Zenon DEF Numbered

LEMMA CrashReads ==
  ASSUME WInv, RInv, ProcessCrash \/ MachineCrash \/ Close \/ OpenFails, unread = {}
  PROVE  RInv' /\ Moves
<1>0. StoreTypeOK /\ StoreInv /\ logs \in [DOMAIN logs -> Log] /\ manifest \in MaybeWritten /\ \A S : S \subseteq S
  BY Zenon DEF WInv, StoreTypeOK, MaybeWritten
<1>1. CASE ProcessCrash \/ OpenFails
  <2>1. Gone /\ manifest' \in MaybeWritten /\ logs' = logs /\ promised' = promised
    BY <1>0, <1>1, AllReadable, Zenon DEF ProcessCrash, OpenFails, disk
  <2> QED BY <1>0, <2>1, GoneReads, Zenon
<1>2. CASE MachineCrash
  <2>1. PICK keep \in [DOMAIN logs -> 0..MaxUpdates] :
          /\ \A n \in DOMAIN logs : keep[n] \in logs[n].synced..Len(logs[n].recs)
          /\ logs' = [n \in DOMAIN logs |->
                        [recs |-> SubSeq(logs[n].recs, 1, keep[n]), synced |-> keep[n]]]
    BY <1>2, Zenon DEF MachineCrash
  <2>2. Gone /\ manifest' \in MaybeWritten /\ promised' = promised
    BY <1>2, AllReadable, Zenon DEF MachineCrash
  <2>3. ASSUME NEW n \in DOMAIN logs PROVE Content(logs'[n]) \subseteq Content(logs[n])
    <3>1. logs[n] \in Log /\ keep[n] \in logs[n].synced..Len(logs[n].recs)
      BY <1>0, <2>1, Zenon
    <3>2. logs'[n] = [recs |-> SubSeq(logs[n].recs, 1, keep[n]), synced |-> keep[n]]
      BY <2>1, Zenon
    <3>3. logs[n].recs \in Seq(Record) /\ keep[n] \in 0..Len(logs[n].recs) /\ logs'[n].recs = SubSeq(logs[n].recs, 1, keep[n])
      BY <3>1, <3>2 DEF Log
    <3>4. \A k \in 1..keep[n] : k \in 1..Len(logs[n].recs)
      BY <3>3
    <3>5. \A e : e \in LogEntries(SubSeq(logs[n].recs, 1, keep[n])) => e \in LogEntries(logs[n].recs)
      BY <3>3, <3>4, LogEntriesBy, Zenon
    <3> QED BY <3>3, <3>5, Zenon DEF Content
  <2>4. DOMAIN logs' = DOMAIN logs
    BY <2>1, Zenon
  <2> QED BY <2>2, <2>3, <2>4, GoneReads, Zenon
<1>3. CASE Close
  <2>1. /\ Gone /\ manifest' = manifest /\ mode = "up" /\ promised' = promised
        /\ UNCHANGED logs \/ (wal /\ SyncLog)
    BY <1>3, AllReadable, Zenon DEF Close
  <2>2. CASE UNCHANGED logs
    BY <1>0, <2>1, <2>2, GoneReads, Zenon
  <2>3. CASE wal /\ SyncLog
    <3> DEFINE l == [recs |-> logs[logNo].recs, synced |-> Len(logs[logNo].recs)]
    <3>1. logs' = [logs EXCEPT ![logNo] = l]
      BY <2>3, Zenon DEF SyncLog
    <3>2. logNo \in DOMAIN logs
      BY <1>0, <2>1, <2>3, Zenon DEF StoreInv, UpInv
    <3>3. Content(l) = Content(logs[logNo])
      BY Zenon DEF Content
    <3> HIDE DEF l
    <3>4. DOMAIN logs' = DOMAIN logs /\ \A n \in DOMAIN logs : Content(logs'[n]) \subseteq Content(logs[n])
      BY <1>0, <3>1, <3>2, <3>3, Zenon
    <3> QED BY <1>0, <2>1, <3>4, GoneReads, Zenon
  <2> QED BY <2>1, <2>2, <2>3, Zenon
<1> QED BY <1>1, <1>2, <1>3, Zenon

-----------------------------------------------------------------------------
(* DB::Open.                                                               *)

\* While the DB is being opened the disk has what it had: what is left to show.
LEMMA OpeningReads ==
  ASSUME WInv, RInv, UNCHANGED clientVars, UNCHANGED <<mem, imm, manifest, promised, updates>>,
         mode # "up", mode' = "open", Disk' = Disk, version'.tables = manifest.tables,
         edit' # None => UpTo(edit'.tables, edit'.seq) /\ edit'.seq <= lastSeq' /\ Paired(edit'.tables),
         OpenNumbers', Paired(replay'.tables)
  PROVE  RInv' /\ Moves
<1>1. StoreInv /\ TableNumbers /\ BatchesWhole
  BY Zenon DEF WInv, RInv
<1>2. mem' = {} /\ imm' = {} /\ Frozen' = {}
  BY <1>1, Zenon DEF StoreInv, Quiet, Frozen
<1>3. TableNumbers' /\ UpNumbers'
  BY <1>1, Zenon DEF TableNumbers, UpNumbers, UpTo
<1>4. BatchesWhole'
  BY <1>1, <1>2 DEF BatchesWhole, Paired
<1>5. Everything' \subseteq Everything
  <2>1. View' = manifest.tables
    BY <1>2, Zenon DEF View
  <2>2. manifest.tables \subseteq Disk
    BY DiskBy, Zenon
  <2> QED BY <2>1, <2>2, Zenon DEF Everything
<1>6. RInv'
  BY <1>3, <1>4, <1>5, RestReads, Zenon DEF Numbered
<1> QED BY <1>6, Zenon DEF Moves

LEMMA OpenStartReads ==
  ASSUME WInv, RInv, OpenStart
  PROVE  RInv' /\ Moves
<1>1. /\ mode = "down" /\ mode' = "open" /\ version' = [log |-> manifest.log, tables |-> manifest.tables]
      /\ lastSeq' = manifest.seq /\ replay' = [NoReplay EXCEPT !.left = LogsToReplay]
      /\ UNCHANGED clientVars /\ UNCHANGED <<mem, imm, edit, logs, manifest, promised, updates>>
  BY Zenon DEF OpenStart, disk, history, counts
<1>2. edit' = None /\ Disk' = Disk /\ version'.tables = manifest.tables
  BY <1>1, DiskSame, Zenon DEF WInv, StoreInv
<1>3. replay'.tables = {} /\ Paired(replay'.tables)
  BY <1>1, Zenon DEF NoReplay, Paired
<1>4. OpenNumbers'
  BY <1>1, <1>2, <1>3, Zenon DEF OpenNumbers, UpTo
<1>5. mode # "up"
  BY <1>1, Zenon
<1> QED BY <1>1, <1>2, <1>3, <1>4, <1>5, OpeningReads, Zenon

\* A log is read, or a part of it.
LEMMA ReplayReads ==
  ASSUME WInv, RInv, mode = "open", UNCHANGED clientVars, NEW n \in replay.left,
         UNCHANGED <<mode, mem, imm, lastSeq, version, edit, logs, manifest, promised, updates>>,
         NEW recs \in Seq(Record), LogEntries(recs) \subseteq Content(logs[n]),
         replay'.tables = replay.tables \cup LogEntries(recs),
         replay'.ok => UpTo(replay'.tables, replay'.maxSeq)
  PROVE  RInv' /\ Moves
<1>1. StoreInv /\ OpenNumbers /\ BatchesWhole
  BY Zenon DEF WInv, RInv
<1>2. OpenInv /\ n \in DOMAIN logs /\ n >= manifest.log /\ edit = None
  BY <1>1, Zenon DEF StoreInv, OpenInv
<1>3. Disk' = Disk /\ version'.tables = manifest.tables
  BY <1>2, DiskSame, Zenon DEF OpenInv
<1>4. LogEntries(recs) \subseteq Disk
  BY <1>2, DiskBy, Zenon
<1>5. OpenNumbers'
  BY <1>1, <1>2, <1>3, <1>4, Zenon DEF OpenNumbers
<1>6. Paired(replay'.tables)
  BY <1>1, LogPaired, PairedUnion, Zenon DEF BatchesWhole
<1>7. mode # "up" /\ mode' = "open"
  BY Zenon
<1> QED BY <1>2, <1>3, <1>5, <1>6, <1>7, OpeningReads, Zenon

LEMMA OpenLogReads ==
  ASSUME WInv, RInv, OpenLog
  PROVE  RInv' /\ Moves
<1>1. PICK n \in DOMAIN logs :
        /\ Oldest(n)
        /\ \E seq \in {replay.maxSeq} \cup {LastOf(rec) : rec \in Range(logs[n].recs)} :
             /\ \A other \in {replay.maxSeq} \cup {LastOf(rec) : rec \in Range(logs[n].recs)} : other <= seq
             /\ replay' = [left   |-> replay.left \ {n},
                           tables |-> replay.tables \cup LogEntries(logs[n].recs),
                           maxSeq |-> seq, ok |-> TRUE, failed |-> replay.failed]
  BY Zenon DEF OpenLog, RecoverLogFile
<1>2. /\ mode = "open" /\ UNCHANGED clientVars
      /\ UNCHANGED <<mode, mem, imm, lastSeq, version, edit, logs, manifest, promised, updates>>
  BY Zenon DEF OpenLog, disk, history, counts
<1>3. StoreTypeOK /\ StoreInv /\ OpenNumbers
  BY Zenon DEF WInv, RInv
<1>4. /\ n \in replay.left /\ logs[n] \in Log /\ replay.maxSeq \in Nat
      /\ replay.ok \in BOOLEAN /\ replay.tables \subseteq Entry
  BY <1>1, <1>3, Zenon DEF Oldest, StoreTypeOK
<1>5. PICK seq \in {replay.maxSeq} \cup {LastOf(rec) : rec \in Range(logs[n].recs)} :
        /\ \A other \in {replay.maxSeq} \cup {LastOf(rec) : rec \in Range(logs[n].recs)} : other <= seq
        /\ replay' = [left   |-> replay.left \ {n},
                      tables |-> replay.tables \cup LogEntries(logs[n].recs),
                      maxSeq |-> seq, ok |-> TRUE, failed |-> replay.failed]
  BY <1>1, Zenon
<1>6. logs[n].recs \in Seq(Record) /\ LogEntries(logs[n].recs) = Content(logs[n])
  BY <1>4, LogBy, Zenon DEF Content
<1>7. replay'.tables = replay.tables \cup LogEntries(logs[n].recs) /\ replay'.maxSeq = seq
  BY <1>5, Zenon
<1>8. \A rec \in Range(logs[n].recs) : rec \in Record /\ LastOf(rec) \in Int /\ LastOf(rec) <= seq
  <2>1. \A T : \A s \in Seq(T) : \A x \in Range(s) : x \in T
    BY DEF Range
  <2>2. \A rec \in Record : LastOf(rec) \in Int
    BY DEF Record, LastOf
  <2> QED BY <1>5, <1>6, <2>1, <2>2, Zenon
<1>9. seq \in Int /\ replay.maxSeq <= seq
  BY <1>4, <1>5, <1>8
<1>10. UpTo(replay.tables, seq)
  <2>1. replay.ok
    BY <1>2, <1>3, <1>4, Zenon DEF StoreInv, OpenInv
  <2>2. UpTo(replay.tables, replay.maxSeq)
    BY <1>2, <1>3, <2>1, Zenon DEF OpenNumbers
  <2> QED BY <1>4, <1>9, <2>2 DEF UpTo, Entry
<1>11. UpTo(LogEntries(logs[n].recs), seq)
  <2>1. ASSUME NEW e \in LogEntries(logs[n].recs) PROVE e.seq <= seq
    <3>1. PICK rec \in Range(logs[n].recs) : e \in EntriesOf(rec)
      BY <1>6, Zenon DEF LogEntries, Range
    <3>2. e.seq \in rec.seq .. LastOf(rec) /\ rec.seq \in Nat /\ LastOf(rec) \in Int /\ LastOf(rec) <= seq
      BY <1>8, <3>1, RecordEntries, Zenon DEF Record
    <3> QED BY <1>9, <3>2
  <2> QED BY <2>1, Zenon DEF UpTo
<1>12. replay'.ok => UpTo(replay'.tables, replay'.maxSeq)
  BY <1>7, <1>10, <1>11, Zenon DEF UpTo
<1>13. LogEntries(logs[n].recs) \subseteq Content(logs[n])
  BY <1>6, Zenon
<1> QED BY <1>2, <1>4, <1>6, <1>7, <1>12, <1>13, ReplayReads, Zenon

LEMMA OpenLogFailsReads ==
  ASSUME WInv, RInv, OpenLogFails
  PROVE  RInv' /\ Moves
<1>1. PICK n \in DOMAIN logs :
        /\ Oldest(n)
        /\ \E read \in 0..Len(logs[n].recs), kept \in 0..Len(logs[n].recs) :
             replay' = [left   |-> replay.left \ {n},
                        tables |-> replay.tables \cup LogEntries(SubSeq(logs[n].recs, 1, kept)),
                        maxSeq |-> IF read = 0 THEN replay.maxSeq
                                   ELSE Larger(replay.maxSeq, LastOf(logs[n].recs[read])),
                        ok     |-> FALSE, failed |-> TRUE]
  BY Zenon DEF OpenLogFails
<1>2. /\ mode = "open" /\ UNCHANGED clientVars
      /\ UNCHANGED <<mode, mem, imm, lastSeq, version, edit, logs, manifest, promised, updates>>
  BY Zenon DEF OpenLogFails, disk, history, counts
<1>3. n \in replay.left /\ logs[n] \in Log /\ logs[n].recs \in Seq(Record) /\ Content(logs[n]) = LogEntries(logs[n].recs)
  BY <1>1, LogBy, Zenon DEF Oldest, WInv, StoreTypeOK, Content
<1>4. PICK read \in 0..Len(logs[n].recs), kept \in 0..Len(logs[n].recs) :
        replay' = [left   |-> replay.left \ {n},
                   tables |-> replay.tables \cup LogEntries(SubSeq(logs[n].recs, 1, kept)),
                   maxSeq |-> IF read = 0 THEN replay.maxSeq
                              ELSE Larger(replay.maxSeq, LastOf(logs[n].recs[read])),
                   ok     |-> FALSE, failed |-> TRUE]
  BY <1>1, Zenon
<1>5. /\ replay'.tables = replay.tables \cup LogEntries(SubSeq(logs[n].recs, 1, kept))
      /\ replay'.ok => UpTo(replay'.tables, replay'.maxSeq)
  BY <1>4, Zenon
<1>6. SubSeq(logs[n].recs, 1, kept) \in Seq(Record) /\ \A k \in 1..kept : k \in 1..Len(logs[n].recs)
  <2>1. \A s \in Seq(Record) : \A k \in 0..Len(s) : SubSeq(s, 1, k) \in Seq(Record) /\ \A i \in 1..k : i \in 1..Len(s)
    OBVIOUS
  <2> QED BY <1>3, <2>1, Zenon
<1>7. LogEntries(SubSeq(logs[n].recs, 1, kept)) \subseteq Content(logs[n])
  <2>1. \A e : e \in LogEntries(SubSeq(logs[n].recs, 1, kept)) => e \in LogEntries(logs[n].recs)
    BY <1>3, <1>6, LogEntriesBy, Zenon
  <2> QED BY <1>3, <2>1, Zenon
<1> QED BY <1>2, <1>3, <1>5, <1>6, <1>7, ReplayReads, Zenon

LEMMA OpenNewLogReads ==
  ASSUME WInv, RInv, OpenNewLog
  PROVE  RInv' /\ Moves
<1>1. /\ mode = "open" /\ replay.left = {} /\ edit = None /\ replay.ok /\ lastSeq' = Larger(lastSeq, replay.maxSeq)
      /\ \/ wal /\ logs' = [n \in DOMAIN logs \cup {nextFile} |-> IF n = nextFile THEN EmptyLog ELSE logs[n]]
         \/ UNCHANGED logs
      /\ UNCHANGED clientVars
      /\ UNCHANGED <<mode, mem, imm, version, replay, manifest, promised, updates>>
  BY Zenon DEF OpenNewLog, Replayed, history, counts
<1>2. edit'.seq = lastSeq' /\ edit'.tables = version.tables \cup replay.tables
  <2>1. edit' = [log |-> IF wal THEN logNo' ELSE version.log, next |-> nextFile',
                 seq |-> lastSeq', tables |-> version.tables \cup replay.tables]
    BY Zenon DEF OpenNewLog
  <2> QED BY <2>1, Zenon
<1>3. StoreTypeOK /\ StoreInv /\ TableNumbers /\ OpenNumbers /\ BatchesWhole
  BY Zenon DEF WInv, RInv
<1>4. /\ OpenInv /\ version.tables = manifest.tables /\ \A n \in DOMAIN logs : n < nextFile
  BY <1>1, <1>3 DEF StoreInv, OpenInv
<1>5. /\ lastSeq \in Nat /\ replay.maxSeq \in Nat /\ nextFile \in Nat /\ DOMAIN logs \subseteq Nat
      /\ manifest.tables \subseteq Entry /\ replay.tables \subseteq Entry /\ lastSeq = manifest.seq
  BY <1>1, <1>3, Zenon DEF StoreTypeOK, Edit, OpenNumbers
<1>6. lastSeq' \in Nat /\ lastSeq <= lastSeq' /\ replay.maxSeq <= lastSeq'
  BY <1>1, <1>5 DEF Larger
<1>7. Disk' = Disk
  <2>1. CASE UNCHANGED logs
    BY <1>1, <2>1, DiskSame, Zenon
  <2>2. CASE logs' = [n \in DOMAIN logs \cup {nextFile} |-> IF n = nextFile THEN EmptyLog ELSE logs[n]]
    <3>1. /\ DOMAIN logs' = DOMAIN logs \cup {nextFile} /\ logs'[nextFile] = EmptyLog
          /\ \A n \in DOMAIN logs : n # nextFile /\ logs'[n] = logs[n]
      BY <1>4, <1>5, <2>2
    <3>2. \A e : e \notin Content(logs'[nextFile])
      BY <3>1, NoLog, Zenon
    <3>3. \A e : e \in Disk' <=> e \in Disk
      BY <1>1, <3>1, <3>2, DiskBy, DiskNextBy, Zenon
    <3> QED BY <3>3, Zenon
  <2> QED BY <1>1, <2>1, <2>2, Zenon
<1>8. UpTo(edit'.tables, edit'.seq) /\ edit'.seq <= lastSeq' /\ Paired(edit'.tables)
  <2>1. UpTo(manifest.tables, lastSeq') /\ UpTo(replay.tables, lastSeq')
    BY <1>1, <1>3, <1>5, <1>6 DEF TableNumbers, OpenNumbers, UpTo, Entry
  <2>2. Paired(edit'.tables)
    BY <1>2, <1>3, PairedUnion, Zenon DEF BatchesWhole
  <2> QED BY <1>2, <1>4, <1>6, <2>1, <2>2 DEF UpTo
<1>9. edit' # None
  <2>1. WInv'
    BY OpenNewLogSafe, Zenon
  <2>2. edit' = [log |-> IF wal THEN logNo' ELSE version.log, next |-> nextFile',
                 seq |-> lastSeq', tables |-> version.tables \cup replay.tables]
    BY Zenon DEF OpenNewLog
  <2>3. (IF wal THEN logNo' ELSE version.log) \in Nat /\ nextFile' \in Nat
    BY <1>3, <2>1, Zenon DEF WInv, StoreTypeOK
  <2>4. edit' \in [log : Nat, next : Nat, seq : Nat, tables : SUBSET Entry]
    BY <1>4, <1>5, <1>6, <2>2, <2>3, Zenon
  <2> QED BY <2>4, NoneAssumption, Zenon
<1>10. OpenNumbers'
  <2>1. edit'.tables \subseteq Disk
    <3>1. manifest.tables \subseteq Disk
      BY DiskBy, Zenon
    <3> QED BY <1>1, <1>2, <1>3, <1>4, <3>1, Zenon DEF OpenNumbers
  <2> QED BY <1>1, <1>3, <1>7, <1>9, <2>1, Zenon DEF OpenNumbers
<1>11. Paired(replay'.tables) /\ mode # "up" /\ mode' = "open" /\ version'.tables = manifest.tables
  BY <1>1, <1>3, <1>4, Zenon DEF BatchesWhole
<1> QED BY <1>1, <1>7, <1>8, <1>10, <1>11, OpeningReads, Zenon

LEMMA OpenInstalledReads ==
  ASSUME WInv, RInv, OpenInstalled, unread = {}
  PROVE  RInv' /\ Moves
<1>1. /\ mode = "open" /\ edit # None /\ mode' = "up" /\ manifest' = edit /\ edit' = None /\ replay' = NoReplay
      /\ version' = [log |-> edit.log, tables |-> edit.tables] /\ DeleteObsoleteLogs(edit.log)
      /\ UNCHANGED clientVars /\ UNCHANGED <<mem, imm, lastSeq, acked, promised, updates>>
  BY AllReadable, Zenon DEF OpenInstalled, counts
<1>2. StoreTypeOK /\ StoreInv /\ ReportInv /\ TableNumbers /\ OpenNumbers /\ BatchesWhole
  BY Zenon DEF WInv, RInv
<1>3. /\ Disk \subseteq edit.tables /\ edit.tables \subseteq Disk /\ edit \in Edit
      /\ UpTo(edit.tables, edit.seq) /\ edit.seq <= lastSeq /\ Paired(edit.tables) /\ lastSeq \in Nat
  BY <1>1, <1>2, Zenon DEF StoreInv, OpenInv, Disk, OpenNumbers, TableNumbers, BatchesWhole, StoreTypeOK
<1>4. Disk' \subseteq Disk
  <2>1. /\ DOMAIN logs' \subseteq DOMAIN logs /\ logs' \in [DOMAIN logs' -> Log]
        /\ DOMAIN logs' \subseteq Nat /\ (wal \/ DOMAIN logs' = {})
        /\ \A n \in DOMAIN logs' : logs'[n] = logs[n]
        /\ \A n \in DOMAIN logs : n >= edit.log => n \in DOMAIN logs'
    BY <1>1, <1>2, <1>3, LogsDeleted, Zenon
  <2>2. DOMAIN logs' \subseteq DOMAIN logs /\ \A n \in DOMAIN logs' : Content(logs'[n]) \subseteq Content(logs[n])
    BY <2>1, Zenon
  <2>3. manifest' \in MaybeWritten /\ mode # "up"
    BY <1>1, Zenon DEF MaybeWritten
  <2> QED BY <2>2, <2>3, ManifestDisk, Zenon
<1>5. /\ mem' = {} /\ Frozen' = {} /\ version'.tables = edit.tables /\ View' = edit.tables
      /\ UNCHANGED <<pc, group>> /\ replay'.tables = {}
  <2>1. mem' = {} /\ imm' = {}
    BY <1>1, <1>2, Zenon DEF StoreInv, Quiet
  <2>2. UNCHANGED <<pc, group>>
    BY <1>1, Zenon DEF clientVars
  <2> QED BY <1>1, <2>1, <2>2, Zenon DEF Frozen, View, NoReplay
<1>6. UpTo(edit.tables, lastSeq)
  BY <1>3 DEF UpTo, Edit, Entry
<1>7. Visible' = edit.tables
  BY <1>1, <1>5, <1>6, Zenon DEF Visible, UpTo
<1>8. acked \subseteq Ids(Visible')
  <2>1. acked \subseteq Ids(Disk)
    BY <1>1, <1>2, Zenon DEF ReportInv, Disk
  <2>2. Ids(Disk) \subseteq Ids(edit.tables)
    BY <1>3, IdsGrow, Zenon
  <2> QED BY <1>7, <2>1, <2>2, Zenon
<1>9. TableNumbers' /\ OpenNumbers'
  BY <1>1, <1>3, <1>5, Zenon DEF TableNumbers, OpenNumbers, UpTo
<1>10. UpNumbers'
  <2>1. UpTo(Disk', lastSeq)
    BY <1>3, <1>4, <1>6, Zenon DEF UpTo
  <2>2. acked' \subseteq Ids(Visible)'
    BY <1>1, <1>8, Zenon DEF Ids
  <2> QED BY <1>1, <1>5, <1>6, <2>1, <2>2, Zenon DEF UpNumbers, UpTo
<1>11. BatchesWhole'
  BY <1>1, <1>3, <1>5, Zenon DEF BatchesWhole, Paired
<1>12. Numbered' /\ Everything' \subseteq Everything
  BY <1>3, <1>4, <1>5, <1>9, <1>10, <1>11, Zenon DEF Numbered, Everything
<1>13. RInv'
  BY <1>1, <1>12, RestReads, Zenon
<1>14. Visible' = Disk
  BY <1>3, <1>7, Zenon
<1> QED BY <1>1, <1>13, <1>14, Zenon DEF Moves

LEMMA OtherReads ==
  ASSUME WInv, RInv, unread = {}, "ignored" \notin ReplayFaults,
         Dump \/ Open \/ OpenFails \/ ProcessCrash \/ MachineCrash \/ Close
  PROVE  RInv' /\ Moves
<1>1. CASE Dump
  BY <1>1, DumpStartReads, DumpBuiltReads, DumpEndReads, Zenon DEF Dump
<1>2. CASE Open
  <2>1. ~OpenLogIgnores
    BY Zenon DEF OpenLogIgnores
  <2> QED BY <1>2, <2>1, OpenStartReads, OpenLogReads, OpenLogFailsReads, OpenNewLogReads, OpenInstalledReads, Zenon
          DEF Open
<1>3. CASE OpenFails \/ ProcessCrash \/ MachineCrash \/ Close
  BY <1>3, CrashReads, Zenon
<1> QED BY <1>1, <1>2, <1>3, Zenon

-----------------------------------------------------------------------------
(* The invariant holds.                                                    *)

LEMMA RInvInit == WriteInit => RInv
<1> SUFFICES ASSUME WriteInit PROVE RInv
  BY Zenon
<1>1. /\ mode = "down" /\ pc = [w \in Writers |-> "idle"] /\ call = [w \in Writers |-> NoCall] /\ queue = <<>>
      /\ group = NoGroup /\ todo = <<>> /\ mem = {} /\ imm = {} /\ version = [log |-> 0, tables |-> {}]
      /\ edit = None /\ replay = NoReplay /\ logs = <<>> /\ updates = 0
      /\ manifest = [log |-> 0, next |-> 4, seq |-> 0, tables |-> {}]
  BY Zenon DEF WriteInit
<1>2. manifest.tables = {} /\ version.tables = {} /\ replay.tables = {} /\ DOMAIN logs = {} /\ Frozen = {}
  BY <1>1 DEF NoReplay, Frozen
<1>3. Disk = {} /\ Everything = {}
  <2>1. \A e : e \notin Disk
    BY <1>2, DiskBy, Zenon
  <2> QED BY <1>1, <1>2, <2>1, Zenon DEF Everything, View
<1>4. GroupNumbers
  <2>1. \A w \in Writers : pc[w] = "idle"
    BY <1>1, Zenon
  <2> QED BY <1>1, <2>1, Zenon DEF GroupNumbers, Grouped
<1>5. TableNumbers /\ OpenNumbers /\ UpNumbers
  BY <1>1, <1>2, Zenon DEF TableNumbers, OpenNumbers, UpNumbers, UpTo
<1>6. BatchesWhole
  BY <1>1, <1>2, Zenon DEF BatchesWhole, Paired
<1>7. UpdatesFresh
  <2>1. \A w \in Writers : call[w].id = 0
    BY <1>1, Zenon DEF NoCall
  <2>2. Len(queue) = 0
    BY <1>1, Zenon
  <2> QED BY <1>1, <1>3, <2>1, <2>2 DEF UpdatesFresh
<1>8. NumbersUnique
  <2>1. EntriesOf(group) = {}
    BY <1>1, NoGroupEntries, Zenon
  <2> QED BY <1>3, <2>1, Zenon DEF NumbersUnique, OneNumber, Near
<1> QED BY <1>4, <1>5, <1>6, <1>7, <1>8, Zenon DEF RInv

\* A step of the write path, and what it does to that which readers and restarts find.
LEMMA RInvNext ==
  ASSUME Inv, RInv, WriteNext, ReplayFaults \subseteq {"last"}
  PROVE  RInv' /\ Moves
<1>0. "behind" \notin ReplayFaults /\ "ignored" \notin ReplayFaults
  OBVIOUS
<1>1. WInv /\ LogInUse /\ unread = {}
  BY Zenon DEF Inv
<1>2. ASSUME NEW w \in Writers, Write(w) \/ SyncWAL(w) \/ FlushMemTable(w) \/ Step(w)
      PROVE  RInv' /\ Moves
  BY <1>0, <1>1, <1>2, WriterReads, Zenon DEF LogInUse
<1>3. CASE Dump \/ Open \/ OpenFails \/ ProcessCrash \/ MachineCrash \/ Close
  BY <1>0, <1>1, <1>3, OtherReads, Zenon
<1> QED BY <1>2, <1>3, Zenon DEF WriteNext

LEMMA RInvStutters ==
  ASSUME Inv, RInv, UNCHANGED writeVars
  PROVE  RInv'
<1>1. /\ UNCHANGED clientVars /\ UNCHANGED <<mode, replay, updates, acked, logs, manifest>>
      /\ UNCHANGED <<mem, imm, lastSeq, version, edit>>
  BY Zenon DEF writeVars, dbVars, disk, history, counts
<1>2. UNCHANGED <<pc, group>>
  BY <1>1, Zenon DEF clientVars
<1>3. Disk' = Disk /\ Frozen' = Frozen /\ View' = View /\ Visible' = Visible
  <2>1. Disk' = Disk
    BY <1>1, DiskSame, Zenon
  <2> QED BY <1>1, <2>1, Zenon DEF Frozen, View, Visible
<1>4. TableNumbers'
  BY <1>1, Zenon DEF RInv, TableNumbers
<1>5. OpenNumbers'
  BY <1>1, <1>3, Zenon DEF RInv, OpenNumbers
<1>6. UpNumbers'
  BY <1>1, <1>2, <1>3, Zenon DEF RInv, UpNumbers
<1>7. BatchesWhole'
  BY <1>1, <1>3, Zenon DEF RInv, BatchesWhole
<1>8. WInv /\ Everything' \subseteq Everything
  BY <1>3, Zenon DEF Inv, Everything
<1> QED BY <1>1, <1>4, <1>5, <1>6, <1>7, <1>8, RestReads, Zenon DEF Numbered

-----------------------------------------------------------------------------
(* The invariant, all of it.                                               *)

AllInv == Inv /\ RInv /\ RestInv

LEMMA AllInit == WriteInit => AllInv
<1> SUFFICES ASSUME WriteInit PROVE AllInv
  BY Zenon
<1>1. bgError = FALSE /\ torn = FALSE /\ asleep = {} /\ replay = NoReplay
  BY Zenon DEF WriteInit
<1>2. RestInv
  BY <1>1, Zenon DEF RestInv, NoReplay
<1> QED BY <1>2, InvInit, RInvInit, Zenon DEF AllInv

LEMMA AllNext ==
  ASSUME ReplayFaults \subseteq {"last"}, AllInv, [WriteNext]_writeVars
  PROVE  AllInv' /\ (Moves \/ UNCHANGED writeVars)
<1>1. Inv /\ RInv /\ RestInv /\ WInv
  BY Zenon DEF AllInv, Inv
<1>2. Inv'
  BY <1>1, InvNext, Zenon
<1>3. CASE WriteNext
  <2>1. RInv' /\ Moves
    BY <1>1, <1>3, RInvNext, Zenon
  <2>2. RestInv'
    BY <1>1, <1>3, WriterRest, OtherRest, Zenon DEF WriteNext
  <2> QED BY <1>2, <2>1, <2>2, Zenon DEF AllInv
<1>4. CASE UNCHANGED writeVars
  <2>1. RInv'
    BY <1>1, <1>4, RInvStutters, Zenon
  <2>2. UNCHANGED <<bgError, torn, queue, asleep, mode, replay>>
    BY <1>4, Zenon DEF writeVars, clientVars, dbVars
  <2>3. RestInv'
    BY <1>1, <2>2, Zenon DEF RestInv
  <2> QED BY <1>2, <1>4, <2>1, <2>3, Zenon DEF AllInv
<1> QED BY <1>3, <1>4, Zenon

LEMMA TypesHold ==
  ASSUME AllInv
  PROVE  WriteTypeOK
<1>1. QueueInv /\ GroupInv /\ StoreTypeOK /\ StoreInv /\ RecordInv /\ ReportInv /\ GroupNumbers /\ RestInv
  BY Zenon DEF AllInv, Inv, WInv, RInv
<1>2. /\ pc \in [Writers -> {"idle", "wait", "lead", "append", "sync", "insert", "flush"}]
      /\ \A w \in Writers : call[w].id \in 0..MaxUpdates
      /\ queue \in Seq(Writers) /\ result \in [Writers -> {None, "ok", "error"}]
  <2>1. PCs = {"idle", "wait", "lead", "append", "sync", "insert", "flush"}
    BY Zenon DEF PCs, Busy
  <2> QED BY <1>1, <2>1, Zenon DEF QueueInv, Calls
<1>3. group.ids \in Seq(1..MaxUpdates) /\ todo \in Seq(Entry)
  <2>1. CASE \A w \in Writers : ~Grouped(w)
    <3>1. group = NoGroup /\ todo = <<>>
      BY <1>1, <2>1, Zenon DEF GroupNumbers
    <3> QED BY <3>1 DEF NoGroup
  <2>2. ASSUME NEW w \in Writers, Grouped(w)
        PROVE  group.ids \in Seq(1..MaxUpdates) /\ todo \in Seq(Entry)
    <3>1. group \in [ids : Seq(1..MaxUpdates), seq : Nat, last : Writers] /\ todo \in Seq(EntriesOf(group))
      BY <1>1, <2>2, Zenon DEF GroupInv, RecordInv
    <3>2. EntriesOf(group) \subseteq Entry
      BY <1>1, GroupCalls, Zenon
    <3>3. \A S, T : S \subseteq T => Seq(S) \subseteq Seq(T)
      OBVIOUS
    <3>4. todo \in Seq(Entry)
      BY <3>1, <3>2, <3>3, Zenon
    <3> QED BY <3>1, <3>4, Zenon
  <2> QED BY <2>1, <2>2, Zenon
<1>4. View \subseteq Entry /\ manifest.tables \subseteq Entry
  BY <1>1, EntriesTyped, Zenon DEF StoreTypeOK, Edit
<1>5. replay.left \subseteq DOMAIN logs
  BY <1>1, Zenon DEF StoreInv, OpenInv, RestInv
<1>6. \A n \in DOMAIN logs : logs[n].recs \in Seq(Record) /\ logs[n].synced \in 0..Len(logs[n].recs)
  BY <1>1, LogBy, Zenon DEF StoreTypeOK
<1>7. /\ wal \in BOOLEAN /\ mode \in {"down", "open", "up"} /\ {bgError, torn} \subseteq BOOLEAN
      /\ asleep \subseteq Range(queue)
      /\ {lastSeq, nextFile, logNo} \subseteq Nat /\ dump \in {"idle", "build", "apply"} /\ promised \subseteq acked
  BY <1>1, Zenon DEF StoreTypeOK, RestInv, ReportInv
<1> QED BY <1>2, <1>3, <1>4, <1>5, <1>6, <1>7, Zenon DEF WriteTypeOK

-----------------------------------------------------------------------------
(* Readers.                                                                *)

LEMMA BatchesSeen ==
  ASSUME AllInv, mode = "up", NEW i \in Ids(Visible)
  PROVE  \E e, f \in Visible : e # f /\ {g \in Visible : g.id = i} = {e, f}
<1>1. UpNumbers /\ BatchesWhole /\ NumbersUnique /\ Visible \subseteq Entry
  BY EntriesTyped, Zenon DEF AllInv, Inv, WInv, RInv, Visible
<1>2. OneNumber(Visible) /\ Near(Visible)
  <2>1. Visible \subseteq Everything \cup EntriesOf(group)
    BY Zenon DEF Visible, Everything
  <2> QED BY <1>1, <2>1, SubSound, Zenon DEF NumbersUnique
<1>3. Paired(Visible)
  <2>1. /\ Paired({e \in mem : e.seq <= lastSeq}) /\ Paired(Frozen) /\ Paired(version.tables)
        /\ UpTo(version.tables \cup Frozen, lastSeq)
    BY <1>1, Zenon DEF UpNumbers, BatchesWhole
  <2>2. Visible = {e \in mem : e.seq <= lastSeq} \cup (Frozen \cup version.tables)
    BY <2>1, Zenon DEF Visible, View, UpTo
  <2> DEFINE m == {e \in mem : e.seq <= lastSeq}
  <2>3. Paired(m)
    BY <2>1, Zenon
  <2>4. Visible = m \cup (Frozen \cup version.tables)
    BY <2>2, Zenon
  <2> HIDE DEF m
  <2> QED BY <2>1, <2>3, <2>4, PairedUnion, Zenon
<1>4. PICK e \in Visible : e.id = i
  BY Zenon DEF Ids
<1>5. PICK f \in Visible : f.id = i /\ f.seq # e.seq
  BY <1>3, <1>4, Zenon DEF Paired
<1>6. ASSUME NEW g \in Visible, g.id = i PROVE g = e \/ g = f
  <2>1. e.seq \in Nat /\ f.seq \in Nat /\ g.seq \in Nat
    BY <1>1, Zenon DEF Entry
  <2>2. /\ e.seq <= f.seq + 1 /\ f.seq <= e.seq + 1 /\ g.seq <= e.seq + 1 /\ e.seq <= g.seq + 1
        /\ g.seq <= f.seq + 1 /\ f.seq <= g.seq + 1
    BY <1>2, <1>4, <1>5, <1>6, Zenon DEF Near
  <2>3. g.seq = e.seq \/ g.seq = f.seq
    BY <1>5, <2>1, <2>2
  <2> QED BY <1>2, <2>3, Zenon DEF OneNumber
<1>7. {g \in Visible : g.id = i} = {e, f} /\ e # f
  BY <1>4, <1>5, <1>6, Zenon
<1> QED BY <1>7, Zenon

LEMMA ReadersHold == AllInv => ReadersSound
<1> SUFFICES ASSUME AllInv PROVE ReadersSound
  BY Zenon
<1>1. WriteTypeOK
  BY TypesHold, Zenon
<1>2. SnapshotRead
  <2>1. mode = "up" => acked \subseteq Ids(Visible)
    BY Zenon DEF AllInv, RInv, UpNumbers
  <2> QED BY <2>1, BatchesSeen, Zenon DEF SnapshotRead
<1>3. SequenceUnique
  <2>1. Surviving = Disk
    BY Zenon DEF Surviving, LiveLogs, Disk, Found, Content
  <2>2. OneNumber(View \cup Disk \cup EntriesOf(group))
    BY Zenon DEF AllInv, RInv, NumbersUnique, Everything
  <2> QED BY <2>1, <2>2, Zenon DEF SequenceUnique, OneNumber
<1> QED BY <1>1, <1>2, <1>3, Zenon DEF ReadersSound

\* In every behaviour with at most the replay of the last log failing, in which a record that
\* was appended without an error is found again (db_impl.cc: Write, BuildBatchGroup,
\* MakeRoomForWrite, CompactMemTable, Recover, RecoverLogFile): a reader of an open DB finds every update that was acknowledged and of each batch both entries, and
\* no sequence number is used twice, neither by a group in progress nor after a failed or
\* lost write or a crash.
THEOREM ReadersAlwaysSound ==
  ASSUME ReplayFaults \subseteq {"last"}
  PROVE  WriteSpec => []ReadersSound
<1>1. AllInv /\ [WriteNext]_writeVars => AllInv'
  BY AllNext, Zenon
<1> QED BY <1>1, AllInit, ReadersHold, PTL DEF WriteSpec

-----------------------------------------------------------------------------
(* The write path implements DurableWrites.                                *)

LEMMA RecordIds ==
  ASSUME NEW rec \in Record
  PROVE  Range(rec.ids) = Ids(EntriesOf(rec))
<1>1. Range(rec.ids) = {rec.ids[j] : j \in 1..Len(rec.ids)}
  BY RecordBatches DEF Range
<1>2. \A i : i \in Ids(EntriesOf(rec)) => i \in Range(rec.ids)
  BY <1>1, RecordBatches, Zenon DEF Ids
<1>3. ASSUME NEW j \in 1..Len(rec.ids) PROVE rec.ids[j] \in Ids(EntriesOf(rec))
  <2>1. \E e \in EntriesOf(rec) : e.id = rec.ids[j]
    BY RecordEntries, Zenon
  <2> QED BY <2>1, Zenon DEF Ids
<1> QED BY <1>1, <1>2, <1>3, Zenon

LEMMA LogIds ==
  ASSUME NEW l \in Log
  PROVE  UNION {Range(l.recs[k].ids) : k \in DOMAIN l.recs} = Ids(Content(l))
<1>1. l.recs \in Seq(Record) /\ DOMAIN l.recs = 1..Len(l.recs)
  BY LogBy
<1>2. \A k \in 1..Len(l.recs) : Range(l.recs[k].ids) = Ids(EntriesOf(l.recs[k]))
  BY <1>1, ElementOf, RecordIds, Zenon
<1>3. \A i : i \in Ids(Content(l)) <=> \E k \in 1..Len(l.recs) : i \in Ids(EntriesOf(l.recs[k]))
  BY LogBy, Zenon DEF Ids
<1> QED BY <1>1, <1>2, <1>3, Zenon

LEMMA SurvivorsBy ==
  ASSUME StoreTypeOK
  PROVE  Survivors = Ids(Disk) /\ Survivors \subseteq 1..MaxUpdates
<1>1. \A n \in DOMAIN logs :
        UNION {Range(logs[n].recs[k].ids) : k \in DOMAIN logs[n].recs} = Ids(Content(logs[n]))
  BY LogIds, Zenon DEF StoreTypeOK
<1>2. Survivors = Ids(manifest.tables) \cup UNION {Ids(Content(logs[n])) : n \in LiveLogs}
  <2>1. \A n \in LiveLogs : n \in DOMAIN logs
    BY Zenon DEF LiveLogs
  <2> QED BY <1>1, <2>1 DEF Survivors
<1>3. \A i : i \in Survivors <=> i \in Ids(Disk)
  <2>1. \A i : i \in Ids(Disk) <=> i \in Ids(manifest.tables) \/ \E n \in LiveLogs : i \in Ids(Content(logs[n]))
    BY DiskBy, Zenon DEF Ids, LiveLogs
  <2> QED BY <1>2, <2>1, Zenon
<1>4. Survivors = Ids(Disk)
  BY <1>3, Zenon
<1>5. Ids(Disk) \subseteq 1..MaxUpdates
  BY EntriesTyped, Zenon DEF Ids, Entry
<1> QED BY <1>4, <1>5, Zenon

\* The abstract state of a state of the write path.
DurableState ==
  /\ Survivors = Ids(Disk) /\ Survivors \subseteq 1..MaxUpdates /\ Seen \subseteq 1..MaxUpdates
  /\ promised \subseteq Seen /\ mode \in {"down", "open", "up"}
  /\ mode = "up" => Seen = Ids(Visible)
  /\ mode # "up" => Seen = Survivors

LEMMA DurableStates == AllInv => DurableState
<1> SUFFICES ASSUME AllInv PROVE DurableState
  BY Zenon
<1>1. WInv /\ RInv /\ StoreTypeOK /\ ReportInv /\ logs \in [DOMAIN logs -> Log]
  BY Zenon DEF AllInv, Inv, WInv, StoreTypeOK
<1>2. Survivors = Ids(Disk) /\ Survivors \subseteq 1..MaxUpdates
  BY <1>1, SurvivorsBy, Zenon
<1>3. mode = "up" => Seen = Ids(Visible) /\ promised \subseteq Ids(Visible) /\ Ids(Visible) \subseteq 1..MaxUpdates
  <2>1. Visible \subseteq Entry
    BY <1>1, EntriesTyped, Zenon DEF Visible
  <2>2. Ids(Visible) \subseteq 1..MaxUpdates
    BY <2>1, Zenon DEF Ids, Entry
  <2>3. mode = "up" => promised \subseteq Ids(Visible)
    BY <1>1, Zenon DEF ReportInv, RInv, UpNumbers
  <2> QED BY <2>2, <2>3, Zenon DEF Seen
<1>4. mode # "up" => Seen = Survivors
  BY Zenon DEF Seen
<1>5. promised \subseteq Survivors
  <2>1. Saved(manifest, logs) \subseteq Disk
    BY <1>1, SavedFound, Zenon DEF Disk
  <2>2. Ids(Saved(manifest, logs)) \subseteq Ids(Disk)
    BY <2>1, IdsGrow, Zenon
  <2> QED BY <1>1, <1>2, <2>2, Zenon DEF ReportInv
<1> QED BY <1>1, <1>2, <1>3, <1>4, <1>5, Zenon DEF DurableState, StoreTypeOK

\* Each step is one of DurableWrites, or leaves its state alone.
LEMMA DurableStep ==
  ASSUME DurableState, DurableState', Moves, unread = {}, unread' = {}
  PROVE  Durable!Next
<1>1. \A S, T : S \subseteq T => Ids(S) \subseteq Ids(T)
  BY IdsGrow, Zenon
<1>2. Durable!TypesNext
  BY Zenon DEF DurableState, Durable!TypesNext
<1>3. CASE mode = "up" /\ mode' = "up" /\ Visible \subseteq Visible' /\ promised \subseteq promised'
  <2>1. Seen = Ids(Visible) /\ Seen' = Ids(Visible')
    BY <1>3, Zenon DEF DurableState, Ids
  <2>2. Seen \subseteq Seen'
    BY <1>1, <1>3, <2>1, Zenon
  <2>3. Durable!Progress
    BY <1>2, <1>3, <2>2, Zenon DEF Durable!Progress
  <2> QED BY <2>3, Zenon DEF Durable!Next
<1>4. CASE mode' = "down" /\ Disk' \subseteq Disk \cup (IF mode = "up" THEN Visible ELSE {}) /\ promised' = promised
  <2>1. Seen' = Ids(Disk') /\ Survivors = Ids(Disk) /\ mode' # "up"
    BY <1>4, Zenon DEF DurableState, Ids
  <2>2. Ids(Disk') \subseteq Ids(Disk) \cup (IF mode = "up" THEN Ids(Visible) ELSE {})
    BY <1>4, Zenon DEF Ids
  <2>3. Seen' \subseteq Seen \cup (Survivors \ Seen)
    BY <2>1, <2>2, Zenon DEF DurableState
  <2>4. Durable!Down
    BY <1>2, <1>4, <2>1, <2>3, Zenon DEF Durable!Down
  <2> QED BY <2>4, Zenon DEF Durable!Next
<1>5. CASE mode # "up" /\ mode' = "open" /\ Disk' = Disk /\ promised' = promised
  <2>1. Seen' = Seen /\ mode' # "up"
    BY <1>5, Zenon DEF DurableState, Ids
  <2>2. Durable!Down
    BY <1>2, <1>5, <2>1, Zenon DEF Durable!Down
  <2> QED BY <2>2, Zenon DEF Durable!Next
<1>6. CASE mode = "open" /\ mode' = "up" /\ Visible' = Disk /\ promised' = promised
  <2>1. Seen' = Seen /\ mode # "up"
    BY <1>6, Zenon DEF DurableState, Ids
  <2>2. Durable!Reopen
    BY <1>2, <1>6, <2>1, Zenon DEF Durable!Reopen
  <2> QED BY <2>2, Zenon DEF Durable!Next
<1> QED BY <1>3, <1>4, <1>5, <1>6, Zenon DEF Moves

\* The write path with its log, its dumps, its crashes and DB::Open (db_impl.cc, with at most
\* the replay of the last log failing, and every record that was appended without an error
\* found again) implements DurableWrites: what readers of the open DB see stays for as long
\* as it is open, going down brings up nothing but updates that were logged, an open DB shows
\* all that was there before, and no update that was reported as saved is ever gone.
THEOREM WritesImplementDurableWrites ==
  ASSUME ReplayFaults \subseteq {"last"}
  PROVE  WriteSpec => ImplementsDurableWrites
<1> DEFINE abstract == <<mode = "up", Seen, Survivors \ Seen, promised, unread>>
<1>1. AllInv /\ [WriteNext]_writeVars => AllInv'
  BY AllNext, Zenon
<1>2. WriteInit => Durable!Init
  <2> SUFFICES ASSUME WriteInit PROVE Durable!Init
    BY Zenon
  <2>1. DurableState
    BY AllInit, DurableStates, Zenon
  <2>2. mode = "down" /\ promised = {} /\ unread = {} /\ manifest.tables = {} /\ DOMAIN logs = {}
    BY DEF WriteInit
  <2>3. Disk = {}
    <3>1. \A e : e \notin Disk
      BY <2>2, DiskBy, Zenon
    <3> QED BY <3>1, Zenon
  <2>4. Survivors = {} /\ Seen = {}
    BY <2>1, <2>2, <2>3, Zenon DEF DurableState, Ids
  <2>5. (mode = "up") = FALSE
    BY <2>2
  <2> QED BY <2>2, <2>4, <2>5, Zenon DEF Durable!Init
<1>3. AllInv /\ AllInv' /\ [WriteNext]_writeVars => [Durable!Next]_abstract
  <2> SUFFICES ASSUME AllInv, AllInv', [WriteNext]_writeVars
               PROVE  [Durable!Next]_abstract
    BY Zenon
  <2>1. DurableState /\ DurableState'
    BY DurableStates, PTL
  <2>2. (Moves \/ UNCHANGED writeVars) /\ unread = {} /\ unread' = {}
    BY AllNext, Zenon DEF AllInv, Inv
  <2>3. CASE Moves
    BY <2>1, <2>2, <2>3, DurableStep, Zenon
  <2>4. CASE UNCHANGED writeVars
    <3>1. UNCHANGED <<mode, mem, imm, lastSeq, version, logs, manifest, promised, unread>>
      BY <2>4, Zenon DEF writeVars, dbVars, disk, history
    <3>2. UNCHANGED <<Survivors, Visible>>
      BY <3>1 DEF Survivors, LiveLogs, Visible, View, Frozen
    <3> QED BY <3>1, <3>2, Zenon DEF Seen
  <2> QED BY <2>2, <2>3, <2>4, Zenon
<1> QED BY <1>1, <1>2, <1>3, AllInit, PTL DEF WriteSpec, ImplementsDurableWrites, Durable!Spec
=============================================================================
