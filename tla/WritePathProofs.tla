--------------------------- MODULE WritePathProofs ---------------------------
(***************************************************************************)
(* Writes survive: the steps of the dump, of a crash and of DB::Open, and  *)
(* the theorem.  The faults are any but one: the replay of a log that is   *)
(* not the last one to be replayed does not fail.  Last, the facts on who  *)
(* sleeps that ReadersProofs builds on.                                    *)
(***************************************************************************)
EXTENDS WriteCallProofs

-----------------------------------------------------------------------------
(* The dump of the old memtable.                                           *)

\* The callers do not move.
LEMMA CallersRest ==
  ASSUME QueueInv, GroupInv, UNCHANGED clientVars
  PROVE  /\ QueueInv' /\ GroupInv' /\ UNCHANGED <<pc, call, flushing, group, todo>>
         /\ \A v \in Writers : Grouped(v)' => Grouped(v) /\ pc'[v] = pc[v] /\ call'[v] = call[v]
<1>1. UNCHANGED <<pc, call, queue, result, group, todo, flushing>>
  BY Zenon DEF clientVars
<1>2. QueueInv'
  BY <1>1 DEF QueueInv
<1>3. GroupInv'
  BY <1>1, Zenon DEF GroupInv, Grouped
<1> QED BY <1>1, <1>2, <1>3, Zenon DEF Grouped

\* A step of the dump: what is left to show.
LEMMA DumpStep ==
  ASSUME WInv, UNCHANGED clientVars, UNCHANGED <<wal, mode, mem, logNo, acked, promised>>, mode = "up",
         StoreTypeOK', UpInv', wal => logs'[logNo'] = logs[logNo],
         InTables \subseteq InTables',
         Saved(manifest, logs) \subseteq Saved(manifest, logs)' \/ Safe \subseteq Saved(manifest, logs)'
  PROVE  WInv'
<1>0. QueueInv /\ GroupInv /\ StoreTypeOK /\ StoreInv /\ RecordInv /\ ReportInv
  BY Zenon DEF WInv
<1>1. /\ QueueInv' /\ GroupInv' /\ UNCHANGED <<pc, call, flushing, group, todo>>
      /\ \A v \in Writers : Grouped(v)' => Grouped(v) /\ pc'[v] = pc[v] /\ call'[v] = call[v]
  BY <1>0, CallersRest, Zenon
<1>2. RecordInv'
  BY <1>0, <1>1, RecordKept, Zenon
<1>3. View \subseteq View' /\ Safe \subseteq Safe' /\ mode' = "up"
  <2>1. View = mem \cup InTables /\ View' = mem \cup InTables'
    BY Zenon DEF View, InTables
  <2>2. /\ Safe = InTables \cup (IF wal THEN Kept(logs[logNo]) ELSE {})
        /\ Safe' = InTables' \cup (IF wal THEN Kept(logs'[logNo']) ELSE {})
    BY Zenon DEF Safe, InTables
  <2>3. View \subseteq View'
    BY <2>1, Zenon
  <2>4. CASE wal
    <3>1. Kept(logs'[logNo']) = Kept(logs[logNo])
      BY <2>4, Zenon
    <3> QED BY <2>2, <2>3, <2>4, <3>1, Zenon
  <2>5. CASE ~wal
    BY <2>2, <2>3, <2>5, Zenon
  <2> QED BY <2>4, <2>5, Zenon
<1>4. /\ flushing' \in [Writers -> SUBSET Nat] /\ \A v \in Writers : flushing'[v] \subseteq flushing[v]
      /\ \A v \in Writers : pc'[v] = "flush" => pc[v] = "flush"
  BY <1>0, <1>1, Zenon DEF ReportInv
<1>5. ReportInv'
  BY <1>0, <1>3, <1>4, ReportGrows, Zenon
<1> QED BY <1>1, <1>2, <1>3, <1>5, Zenon DEF WInv, StoreInv

LEMMA DumpMeansUp ==
  ASSUME StoreInv, dump # "idle"
  PROVE  mode = "up" /\ UpInv
BY Zenon DEF StoreInv, Quiet

LEMMA DumpStartSafe ==
  ASSUME WInv, DumpStart \/ DumpFails
  PROVE  WInv'
<1>0. StoreTypeOK /\ StoreInv
  BY Zenon DEF WInv
<1>1. /\ mode = "up" /\ UpInv /\ dump # "apply"
      /\ dump' \in {"idle", "build"} /\ (dump' = "build" => imm # {}) /\ nextFile' \in {nextFile, nextFile + 1}
      /\ UNCHANGED clientVars
      /\ UNCHANGED <<wal, mode, mem, imm, lastSeq, logNo, version, edit, replay, logs, manifest, acked, promised>>
  <2>1. CASE DumpStart
    BY <1>0, <2>1, Zenon DEF DumpStart, StoreInv, disk, history
  <2>2. CASE DumpFails
    <3>1. dump = "build" /\ dump' = "idle" /\ nextFile' = nextFile /\ UNCHANGED clientVars
          /\ UNCHANGED <<wal, mode, mem, imm, lastSeq, logNo, version, edit, replay, logs, manifest, acked, promised>>
      BY <2>2, Zenon DEF DumpFails, disk, history
    <3> QED BY <1>0, <3>1, DumpMeansUp, Zenon
  <2> QED BY <2>1, <2>2, Zenon
<1>2. nextFile \in Nat /\ nextFile' \in Nat /\ nextFile <= nextFile'
  BY <1>0, <1>1 DEF StoreTypeOK
<1>3. StoreTypeOK'
  BY <1>0, <1>1, <1>2, Zenon DEF StoreTypeOK, Frozen
<1>4. UpInv'
  <2>1. /\ \A n \in DOMAIN logs : n < nextFile'
        /\ version.log < nextFile' /\ (wal => logNo < nextFile')
    BY <1>0, <1>1, <1>2 DEF UpInv, StoreTypeOK
  <2>2. edit = None
    BY <1>1, Zenon DEF UpInv
  <2>3. Frozen' = Frozen
    BY <1>1, Zenon DEF Frozen
  <2> QED BY <1>1, <2>1, <2>2, <2>3, Zenon DEF UpInv
<1>5. InTables \subseteq InTables' /\ Saved(manifest, logs) \subseteq Saved(manifest, logs)'
  BY <1>1, SameStore, Zenon
<1> QED BY <1>1, <1>3, <1>4, <1>5, DumpStep, Zenon

LEMMA DumpBuiltSafe ==
  ASSUME WInv, DumpBuilt
  PROVE  WInv'
<1>0. StoreTypeOK /\ StoreInv
  BY Zenon DEF WInv
<1> DEFINE log == IF wal THEN logNo ELSE version.log
<1>1. /\ dump = "build" /\ dump' = "apply" /\ UNCHANGED clientVars
      /\ edit' = [log |-> log, next |-> nextFile, seq |-> lastSeq, tables |-> version.tables \cup Frozen]
      /\ UNCHANGED <<wal, mode, mem, imm, lastSeq, nextFile, logNo, version, replay, logs, manifest, acked, promised>>
  BY Zenon DEF DumpBuilt, EditWith, disk, history
<1>2. mode = "up" /\ UpInv
  BY <1>0, <1>1, DumpMeansUp, Zenon
<1>3. log \in Nat /\ log < nextFile /\ nextFile \in Nat /\ lastSeq \in Nat /\ version.tables \cup Frozen \subseteq Entry
  BY <1>0, <1>2, Zenon DEF StoreTypeOK, UpInv
<1> HIDE DEF log
<1>4. /\ edit' \in Edit /\ edit'.log = log /\ edit'.tables = version.tables \cup Frozen
      /\ edit' \in [log : Nat, next : Nat, seq : Nat, tables : SUBSET Entry]
  BY <1>1, <1>3, Zenon DEF Edit
<1>5. edit' # None
  BY <1>4, NoneAssumption, Zenon
<1>6. StoreTypeOK'
  <2>1. Frozen' = Frozen
    BY <1>1, Zenon DEF Frozen
  <2> QED BY <1>0, <1>1, <1>4, <2>1, Zenon DEF StoreTypeOK
<1>7. UpInv'
  <2>1. Frozen' = Frozen
    BY <1>1, Zenon DEF Frozen
  <2>2. wal => log = logNo
    BY Zenon DEF log
  <2>3. imm # {}
    BY <1>1, <1>2, Zenon DEF UpInv
  <2> QED BY <1>1, <1>2, <1>3, <1>4, <1>5, <2>1, <2>2, <2>3, Zenon DEF UpInv
<1>8. InTables \subseteq InTables' /\ Saved(manifest, logs) \subseteq Saved(manifest, logs)'
  BY <1>1, SameStore, Zenon
<1> QED BY <1>1, <1>2, <1>6, <1>7, <1>8, DumpStep, Zenon

\* The edit on its way: with the logs from the one it names on, it has all that is in memory.
LEMMA EditHasAll ==
  ASSUME StoreTypeOK, UpInv, dump = "apply", NEW ls,
         wal => logNo \in DOMAIN ls /\ ls[logNo] = logs[logNo]
  PROVE  /\ edit \in Edit /\ Safe \subseteq Saved(edit, ls) /\ Frozen \subseteq edit.tables
         /\ version.tables \subseteq edit.tables /\ edit.tables = InTables
         /\ wal => View \subseteq Found(edit, ls)
<1>1. /\ edit.tables = version.tables \cup Frozen /\ edit \in Edit /\ (wal => edit.log = logNo)
      /\ (wal => mem \subseteq Content(logs[logNo])) /\ logNo \in Nat
  BY Zenon DEF UpInv, StoreTypeOK
<1>2. /\ edit.tables \subseteq Saved(edit, ls) /\ edit.tables \subseteq Found(edit, ls)
  BY FoundBy, Zenon
<1>3. wal => Kept(logs[logNo]) \subseteq Saved(edit, ls) /\ Content(logs[logNo]) \subseteq Found(edit, ls)
  <2>1. logNo >= logNo
    BY <1>1
  <2> QED BY <1>1, <2>1, FoundBy, Zenon
<1>4. Safe \subseteq Saved(edit, ls)
  BY <1>1, <1>2, <1>3, Zenon DEF Safe
<1>5. wal => View \subseteq Found(edit, ls)
  BY <1>1, <1>2, <1>3, Zenon DEF View
<1>6. edit.tables = InTables
  BY <1>1, Zenon DEF InTables
<1> QED BY <1>1, <1>4, <1>5, <1>6, Zenon

\* Only logs before the one the edit names are removed.
LEMMA LogsDeleted ==
  ASSUME StoreTypeOK, DeleteObsoleteLogs(edit.log) \/ UNCHANGED logs, edit \in Edit
  PROVE  /\ DOMAIN logs' \subseteq DOMAIN logs /\ logs' \in [DOMAIN logs' -> Log]
         /\ DOMAIN logs' \subseteq Nat /\ (wal \/ DOMAIN logs' = {})
         /\ \A n \in DOMAIN logs' : logs'[n] = logs[n]
         /\ \A n \in DOMAIN logs : n >= edit.log => n \in DOMAIN logs'
<1>1. /\ DOMAIN logs \subseteq Nat /\ logs \in [DOMAIN logs -> Log] /\ (wal \/ DOMAIN logs = {}) /\ edit.log \in Nat
  BY Zenon DEF StoreTypeOK, Edit
<1>2. CASE UNCHANGED logs
  BY <1>1, <1>2, Zenon
<1>3. CASE DeleteObsoleteLogs(edit.log)
  <2>1. PICK gone \in SUBSET {n \in DOMAIN logs : n < edit.log} :
          logs' = [n \in DOMAIN logs \ gone |-> logs[n]]
    BY <1>3, Zenon DEF DeleteObsoleteLogs
  <2>2. DOMAIN logs' = DOMAIN logs \ gone /\ \A n \in DOMAIN logs \ gone : logs'[n] = logs[n]
    BY <2>1
  <2>3. logs' \in [DOMAIN logs' -> Log]
    BY <1>1, <2>1, <2>2
  <2>4. \A n \in DOMAIN logs : n >= edit.log => n \notin gone
    BY <1>1
  <2> QED BY <1>1, <2>2, <2>3, <2>4, Zenon
<1> QED BY <1>2, <1>3, Zenon

LEMMA DumpInstalledSafe ==
  ASSUME WInv, DumpInstalled
  PROVE  WInv'
<1>0. StoreTypeOK /\ StoreInv
  BY Zenon DEF WInv
<1>1. /\ dump = "apply" /\ manifest' = edit /\ version' = [log |-> edit.log, tables |-> edit.tables]
      /\ imm' = {} /\ edit' = None /\ dump' = "idle" /\ (DeleteObsoleteLogs(edit.log) \/ UNCHANGED logs)
      /\ UNCHANGED clientVars
      /\ UNCHANGED <<wal, mode, mem, lastSeq, nextFile, logNo, replay, acked, promised>>
  BY Zenon DEF DumpInstalled, InstallAnd
<1>2. mode = "up" /\ UpInv
  <2>1. dump # "idle"
    BY <1>1, Zenon
  <2> QED BY <1>0, <2>1, DumpMeansUp, Zenon
<1>3. edit \in Edit /\ (wal => edit.log = logNo /\ logNo \in DOMAIN logs) /\ logNo \in Nat
  BY <1>0, <1>1, <1>2, Zenon DEF UpInv, StoreTypeOK
<1>4. /\ DOMAIN logs' \subseteq DOMAIN logs /\ logs' \in [DOMAIN logs' -> Log]
      /\ DOMAIN logs' \subseteq Nat /\ (wal \/ DOMAIN logs' = {})
      /\ \A n \in DOMAIN logs' : logs'[n] = logs[n]
      /\ \A n \in DOMAIN logs : n >= edit.log => n \in DOMAIN logs'
  BY <1>0, <1>1, <1>3, LogsDeleted, Zenon
<1>5. wal => logNo \in DOMAIN logs' /\ logs'[logNo] = logs[logNo]
  <2>1. logNo >= logNo
    BY <1>3
  <2> QED BY <1>3, <1>4, <2>1, Zenon
<1>6. /\ Safe \subseteq Saved(edit, logs') /\ edit.tables = InTables
  BY <1>0, <1>1, <1>2, <1>5, EditHasAll, Zenon
<1>7. Frozen' = {} /\ version'.log = edit.log /\ version'.tables = edit.tables
  BY <1>1, Zenon DEF Frozen
<1>8. StoreTypeOK'
  <2>1. version' \in [log : Nat, tables : SUBSET Entry]
    BY <1>1, <1>3, Zenon DEF Edit
  <2>2. Frozen' \subseteq Entry
    BY <1>7, Zenon
  <2> QED BY <1>0, <1>1, <1>3, <1>4, <2>1, <2>2, Zenon DEF StoreTypeOK
<1>9. UpInv'
  <2>1. edit.log < nextFile /\ \A n \in DOMAIN logs' : n < nextFile
    BY <1>1, <1>2, <1>4, Zenon DEF UpInv
  <2>2. wal => /\ logNo \in DOMAIN logs' /\ edit.log <= logNo /\ logNo < nextFile
               /\ mem \subseteq Content(logs'[logNo])
    BY <1>2, <1>3, <1>5 DEF UpInv
  <2>3. \A S : {} \subseteq S /\ S \subseteq S
    BY Zenon
  <2> QED BY <1>1, <1>7, <2>1, <2>2, <2>3, Zenon DEF UpInv
<1>10. InTables \subseteq InTables' /\ Safe \subseteq Saved(manifest, logs)'
  BY <1>1, <1>6, <1>7, Zenon DEF InTables
<1>11. wal => logs'[logNo'] = logs[logNo]
  BY <1>1, <1>5, Zenon
<1> QED BY <1>1, <1>2, <1>8, <1>9, <1>10, <1>11, DumpStep, Zenon

LEMMA DumpApplyFailsSafe ==
  ASSUME WInv, DumpApplyFails
  PROVE  WInv'
<1>0. StoreTypeOK /\ StoreInv
  BY Zenon DEF WInv
<1>1. /\ dump = "apply" /\ (manifest' = manifest \/ manifest' = edit) /\ edit' = None /\ dump' = "idle"
      /\ UNCHANGED clientVars
      /\ UNCHANGED <<wal, mode, mem, imm, lastSeq, nextFile, logNo, version, replay, logs, acked, promised>>
  BY Zenon DEF DumpApplyFails, history
<1>2. mode = "up" /\ UpInv
  <2>1. dump # "idle"
    BY <1>1, Zenon
  <2> QED BY <1>0, <2>1, DumpMeansUp, Zenon
<1>3. edit \in Edit /\ (wal => edit.log = logNo /\ logNo \in DOMAIN logs) /\ logNo \in Nat
  BY <1>0, <1>1, <1>2, Zenon DEF UpInv, StoreTypeOK
<1>4. /\ Safe \subseteq Saved(edit, logs) /\ Frozen \subseteq edit.tables /\ version.tables \subseteq edit.tables
  BY <1>0, <1>1, <1>2, <1>3, EditHasAll, Zenon
<1>5. Frozen' = Frozen /\ InTables' = InTables
  BY <1>1, Zenon DEF Frozen, InTables
<1>6. StoreTypeOK'
  <2>1. manifest' \in Edit
    BY <1>0, <1>1, <1>3, Zenon DEF StoreTypeOK
  <2> QED BY <1>0, <1>1, <1>5, <2>1, Zenon DEF StoreTypeOK
<1>7. UpInv'
  <2>1. CASE manifest' = manifest
    BY <1>1, <1>2, <1>5, <2>1, Zenon DEF UpInv
  <2>2. CASE manifest' = edit
    <3>1. Frozen \subseteq Found(edit, logs)
      BY <1>4, FoundBy, Zenon
    <3>2. wal => edit.log <= logNo
      BY <1>3
    <3> QED BY <1>1, <1>2, <1>4, <1>5, <2>2, <3>1, <3>2, Zenon DEF UpInv
  <2> QED BY <1>1, <2>1, <2>2, Zenon
<1>8. InTables \subseteq InTables'
      /\ (Saved(manifest, logs) \subseteq Saved(manifest, logs)' \/ Safe \subseteq Saved(manifest, logs)')
  BY <1>1, <1>4, <1>5, Zenon
<1> QED BY <1>1, <1>2, <1>6, <1>7, <1>8, DumpStep, Zenon

-----------------------------------------------------------------------------
(* Crashes, closes and failed opens.                                       *)

LEMMA SavedFound ==
  ASSUME NEW m, NEW ls, ls \in [DOMAIN ls -> Log]
  PROVE  Saved(m, ls) \subseteq Found(m, ls)
<1>1. \A n \in DOMAIN ls : Kept(ls[n]) \subseteq Content(ls[n])
  BY LogBy, Zenon
<1>2. \A e : e \in Saved(m, ls) => e \in Found(m, ls)
  BY <1>1, FoundBy, Zenon
<1> QED BY <1>2, Zenon

\* Whichever manifest is on disk, it has with the logs what was reported.
LEMMA ManifestHasAll ==
  ASSUME WInv, NEW m \in MaybeWritten
  PROVE  /\ m \in Edit /\ promised \subseteq Ids(Saved(m, logs))
         /\ wal \/ mode # "up" => acked \subseteq Ids(Found(m, logs))
<1>0. QueueInv /\ GroupInv /\ StoreTypeOK /\ StoreInv /\ RecordInv /\ ReportInv
  BY Zenon DEF WInv
<1>1. /\ promised \subseteq acked /\ promised \subseteq Ids(Saved(manifest, logs))
      /\ mode # "up" => acked \subseteq Ids(Found(manifest, logs))
      /\ mode = "up" => acked \subseteq Ids(View) /\ promised \subseteq Ids(Safe)
  BY <1>0, Zenon DEF ReportInv
<1>2. manifest \in Edit /\ (edit # None => edit \in Edit) /\ logNo \in Nat
  BY <1>0, Zenon DEF StoreTypeOK
<1>3. CASE m = manifest
  <2>1. ASSUME wal, mode = "up"
        PROVE  View \subseteq Found(manifest, logs)
    <3>1. /\ version.tables \subseteq manifest.tables /\ logNo \in DOMAIN logs /\ manifest.log <= logNo
          /\ mem \subseteq Content(logs[logNo]) /\ Frozen \subseteq Found(manifest, logs)
      BY <1>0, <2>1, Zenon DEF StoreInv, UpInv
    <3>2. logNo >= manifest.log
      BY <1>2, <3>1, Zenon DEF Edit
    <3>3. Content(logs[logNo]) \subseteq Found(manifest, logs) /\ manifest.tables \subseteq Found(manifest, logs)
      BY <3>1, <3>2, FoundBy, Zenon
    <3> QED BY <3>1, <3>3, Zenon DEF View
  <2>2. wal /\ mode = "up" => Ids(View) \subseteq Ids(Found(manifest, logs))
    BY <2>1, IdsGrow, Zenon
  <2>3. wal \/ mode # "up" => acked \subseteq Ids(Found(manifest, logs))
    BY <1>1, <2>2, Zenon
  <2> QED BY <1>1, <1>2, <1>3, <2>3, Zenon
<1>4. CASE m = edit /\ edit # None
  <2>1. CASE mode = "up"
    <3>1. UpInv /\ dump = "apply" /\ (wal => logNo \in DOMAIN logs /\ logs[logNo] = logs[logNo])
      BY <1>0, <1>4, <2>1, Zenon DEF StoreInv, UpInv
    <3>2. Safe \subseteq Saved(edit, logs) /\ (wal => View \subseteq Found(edit, logs))
      BY <1>0, <3>1, EditHasAll, Zenon
    <3>3. Ids(Safe) \subseteq Ids(Saved(edit, logs)) /\ (wal => Ids(View) \subseteq Ids(Found(edit, logs)))
      BY <3>2, IdsGrow, Zenon
    <3> QED BY <1>1, <1>2, <1>4, <2>1, <3>3, Zenon
  <2>2. CASE mode # "up"
    <3>1. mode = "open" /\ Found(manifest, logs) \subseteq edit.tables
      BY <1>0, <1>4, <2>2, Zenon DEF StoreInv, OpenInv, StoreTypeOK
    <3>2. Found(manifest, logs) \subseteq Found(edit, logs) /\ Found(manifest, logs) \subseteq Saved(edit, logs)
      BY <3>1, FoundBy, Zenon
    <3>3. /\ Ids(Found(manifest, logs)) \subseteq Ids(Found(edit, logs))
          /\ Ids(Found(manifest, logs)) \subseteq Ids(Saved(edit, logs))
      BY <3>2, IdsGrow, Zenon
    <3> QED BY <1>1, <1>2, <1>4, <2>2, <3>3, Zenon
  <2> QED BY <2>1, <2>2, Zenon
<1> QED BY <1>3, <1>4, Zenon DEF MaybeWritten

\* The state that a crash leaves behind.
LEMMA GoneStep ==
  ASSUME WInv, Gone, manifest' \in Edit, promised' = promised,
         DOMAIN logs' \subseteq Nat, logs' \in [DOMAIN logs' -> Log], wal \/ DOMAIN logs' = {},
         promised \subseteq acked', acked' \subseteq acked,
         promised \subseteq Ids(Saved(manifest, logs)'), acked' \subseteq Ids(Found(manifest, logs)')
  PROVE  WInv'
<1>0. StoreTypeOK /\ ReportInv
  BY Zenon DEF WInv
<1>1. /\ mode' = "down" /\ mem' = {} /\ imm' = {} /\ lastSeq' = 0 /\ nextFile' = 0 /\ logNo' = 0
      /\ version' = [log |-> 0, tables |-> {}] /\ edit' = None /\ dump' = "idle" /\ bgError' = FALSE
      /\ replay' = NoReplay /\ wal' = wal /\ queue' = <<>>
      /\ flushing' = [w \in Writers |-> {}] /\ pc' = [w \in Writers |-> "idle"]
      /\ result' = [w \in Writers |-> None]
  BY Zenon DEF Gone
<1>2. QueueInv' /\ GroupInv'
  <2>1. NoCalls'
    BY Zenon DEF Gone, NoCalls
  <2> QED BY <2>1, QuietQueueNext, Zenon
<1>3. StoreTypeOK'
  <2>1. NoReplay \in [left : SUBSET Nat, tables : SUBSET Entry, maxSeq : Nat, ok : BOOLEAN, failed : BOOLEAN]
    BY Zenon DEF NoReplay
  <2>2. version' \in [log : Nat, tables : SUBSET Entry] /\ Frozen' = {} /\ wal' \in BOOLEAN
    BY <1>0, <1>1, Zenon DEF Frozen, StoreTypeOK
  <2> QED BY <1>1, <2>1, <2>2, Zenon DEF StoreTypeOK
<1>4. \A w \in Writers : pc'[w] = "idle" /\ result'[w] = None /\ flushing'[w] = {}
  BY <1>1, Zenon
<1>5. StoreInv'
  BY <1>1, <1>4, Zenon DEF StoreInv, Quiet
<1>6. RecordInv'
  BY <1>4, Zenon DEF RecordInv, Grouped
<1>7. ReportInv'
  <2>1. acked' \subseteq Nat /\ flushing' \in [Writers -> SUBSET Nat]
    BY <1>0, <1>1, Zenon DEF ReportInv
  <2>2. mode' # "up"
    BY <1>1, Zenon
  <2> QED BY <1>1, <2>1, <2>2, Zenon DEF ReportInv
<1> QED BY <1>2, <1>3, <1>5, <1>6, <1>7, Zenon DEF WInv

\* After a crash the logs have at least what was on storage.
LEMMA CrashStep ==
  ASSUME WInv, Gone, manifest' \in MaybeWritten, promised' = promised,
         DOMAIN logs' = DOMAIN logs, logs' \in [DOMAIN logs -> Log],
         \A n \in DOMAIN logs : Kept(logs[n]) \subseteq Kept(logs'[n]),
         \/ acked' = acked \cap Ids(Surviving')
         \/ acked' = acked /\ (wal \/ mode # "up") /\ \A n \in DOMAIN logs : Content(logs[n]) \subseteq Content(logs'[n])
  PROVE  WInv'
<1>0. StoreTypeOK /\ ReportInv
  BY Zenon DEF WInv
<1>1. /\ manifest' \in Edit /\ promised \subseteq Ids(Saved(manifest', logs))
      /\ (wal \/ mode # "up") => acked \subseteq Ids(Found(manifest', logs))
  BY ManifestHasAll, Zenon
<1>2. Saved(manifest', logs) \subseteq Saved(manifest', logs')
  <2>1. \A e : e \in Saved(manifest', logs) => e \in Saved(manifest', logs')
    BY FoundBy, Zenon
  <2> QED BY <2>1, Zenon
<1>3. promised \subseteq Ids(Saved(manifest', logs'))
  <2>1. Ids(Saved(manifest', logs)) \subseteq Ids(Saved(manifest', logs'))
    BY <1>2, IdsGrow, Zenon
  <2> QED BY <1>1, <2>1, Zenon
<1>4. promised \subseteq Ids(Found(manifest', logs')) /\ promised \subseteq acked
  <2>1. Saved(manifest', logs') \subseteq Found(manifest', logs')
    BY SavedFound, Zenon
  <2>2. Ids(Saved(manifest', logs')) \subseteq Ids(Found(manifest', logs'))
    BY <2>1, IdsGrow, Zenon
  <2> QED BY <1>0, <1>3, <2>2, Zenon DEF ReportInv
<1>5. promised \subseteq acked' /\ acked' \subseteq acked /\ acked' \subseteq Ids(Found(manifest', logs'))
  <2>1. CASE acked' = acked \cap Ids(Surviving')
    <3>1. Surviving' = Found(manifest', logs')
      BY Zenon DEF Surviving, LiveLogs, Found, Content
    <3> QED BY <1>4, <2>1, <3>1, Zenon
  <2>2. CASE /\ acked' = acked /\ (wal \/ mode # "up")
             /\ \A n \in DOMAIN logs : Content(logs[n]) \subseteq Content(logs'[n])
    <3>1. Found(manifest', logs) \subseteq Found(manifest', logs')
      <4>1. \A e : e \in Found(manifest', logs) => e \in Found(manifest', logs')
        BY <2>2, FoundBy, Zenon
      <4> QED BY <4>1, Zenon
    <3>2. Ids(Found(manifest', logs)) \subseteq Ids(Found(manifest', logs'))
      BY <3>1, IdsGrow, Zenon
    <3> QED BY <1>1, <1>4, <2>2, <3>2, Zenon
  <2> QED BY <2>1, <2>2, Zenon
<1>6. DOMAIN logs' \subseteq Nat /\ logs' \in [DOMAIN logs' -> Log] /\ (wal \/ DOMAIN logs' = {})
  BY <1>0, Zenon DEF StoreTypeOK
<1> QED BY <1>1, <1>3, <1>5, <1>6, GoneStep, Zenon

\* When every record is found, all that was reported can be read.
LEMMA AllReadable ==
  ASSUME unread = {}, NEW ids
  PROVE  Readable(ids) = ids /\ \A S : ids \ (unread \ S) = ids
<1>1. \A S : ids \ (unread \ S) = ids
  BY Zenon
<1> QED BY <1>1, Zenon DEF Readable

LEMMA CrashSafe ==
  ASSUME WInv, ProcessCrash \/ MachineCrash \/ Close \/ OpenFails, unread = {}
  PROVE  WInv'
<1>0. StoreTypeOK /\ StoreInv /\ ReportInv
  BY Zenon DEF WInv
<1>1. logs \in [DOMAIN logs -> Log] /\ (wal \/ ~wal) /\ wal \in BOOLEAN
  BY <1>0, Zenon DEF StoreTypeOK
<1>2. manifest \in MaybeWritten /\ \A S : S \subseteq S
  BY Zenon DEF MaybeWritten
<1>3. CASE ProcessCrash
  <2>1. /\ Gone /\ manifest' \in MaybeWritten /\ logs' = logs /\ promised' = promised
        /\ acked' = IF wal THEN acked ELSE acked \cap Ids(Surviving')
    BY <1>3, AllReadable, Zenon DEF ProcessCrash
  <2> QED BY <1>1, <1>2, <2>1, CrashStep, Zenon
<1>4. CASE MachineCrash
  <2>1. PICK keep \in [DOMAIN logs -> 0..MaxUpdates] :
          /\ \A n \in DOMAIN logs : keep[n] \in logs[n].synced..Len(logs[n].recs)
          /\ logs' = [n \in DOMAIN logs |->
                        [recs |-> SubSeq(logs[n].recs, 1, keep[n]), synced |-> keep[n]]]
    BY <1>4, Zenon DEF MachineCrash
  <2>2. Gone /\ manifest' \in MaybeWritten /\ acked' = acked \cap Ids(Surviving') /\ promised' = promised
    BY <1>4, AllReadable, Zenon DEF MachineCrash
  <2>3. ASSUME NEW n \in DOMAIN logs
        PROVE  logs'[n] \in Log /\ Kept(logs[n]) \subseteq Kept(logs'[n])
    <3>1. logs[n] \in Log /\ keep[n] \in logs[n].synced..Len(logs[n].recs)
      BY <1>1, <2>1, Zenon
    <3>2. logs'[n] = [recs |-> SubSeq(logs[n].recs, 1, keep[n]), synced |-> keep[n]]
      BY <2>1, Zenon
    <3> QED BY <3>1, <3>2, LogCut, Zenon
  <2>4. DOMAIN logs' = DOMAIN logs /\ logs' \in [DOMAIN logs -> Log]
    BY <2>1, <2>3, Zenon
  <2> QED BY <2>2, <2>3, <2>4, CrashStep, Zenon
<1>5. CASE Close
  <2>1. /\ Gone /\ manifest' = manifest /\ (UNCHANGED logs \/ (wal /\ SyncLog)) /\ mode = "up"
        /\ acked' = (IF wal THEN acked ELSE acked \cap Ids(Surviving')) /\ promised' = promised
    BY <1>5, AllReadable, Zenon DEF Close
  <2>2. CASE UNCHANGED logs
    BY <1>1, <1>2, <2>1, <2>2, CrashStep, Zenon
  <2>3. CASE wal /\ SyncLog
    <3> DEFINE l == [recs |-> logs[logNo].recs, synced |-> Len(logs[logNo].recs)]
    <3>1. logs' = [logs EXCEPT ![logNo] = l]
      BY <2>3, Zenon DEF SyncLog
    <3>2. logNo \in DOMAIN logs /\ logs[logNo] \in Log
      BY <1>0, <1>1, <2>1, <2>3, Zenon DEF StoreInv, UpInv
    <3>3. l \in Log /\ Content(l) = Content(logs[logNo]) /\ Kept(logs[logNo]) \subseteq Kept(l)
      BY <3>2, LogSynced, Zenon
    <3> HIDE DEF l
    <3>4. /\ DOMAIN logs' = DOMAIN logs /\ logs'[logNo] = l
          /\ \A n \in DOMAIN logs : n # logNo => logs'[n] = logs[n]
      BY <1>1, <3>1, <3>2, Zenon
    <3>5. logs' \in [DOMAIN logs -> Log]
      BY <1>1, <3>1, <3>3, <3>4, Zenon
    <3>6. \A n \in DOMAIN logs : Kept(logs[n]) \subseteq Kept(logs'[n]) /\ Content(logs[n]) \subseteq Content(logs'[n])
      BY <1>2, <3>3, <3>4, Zenon
    <3> QED BY <1>1, <1>2, <2>1, <2>3, <3>4, <3>5, <3>6, CrashStep, Zenon
  <2> QED BY <2>1, <2>2, <2>3, Zenon
<1>6. CASE OpenFails
  <2>1. Gone /\ manifest' = manifest /\ logs' = logs /\ acked' = acked /\ promised' = promised /\ mode # "up"
    BY <1>6, Zenon DEF OpenFails, Replayed, disk
  <2> QED BY <1>1, <1>2, <2>1, CrashStep, Zenon
<1> QED BY <1>3, <1>4, <1>5, <1>6, Zenon

-----------------------------------------------------------------------------
(* DB::Open.                                                               *)

\* While the DB is being opened nothing is lost: what is left to show.
LEMMA OpenStep ==
  ASSUME WInv, UNCHANGED clientVars, UNCHANGED <<wal, mem, imm, dump, bgError, manifest, acked, promised>>,
         mode # "up", mode' = "open", StoreTypeOK', OpenInv',
         \A n \in DOMAIN logs : n >= manifest.log =>
           n \in DOMAIN logs' /\ Content(logs[n]) \subseteq Content(logs'[n]) /\ Kept(logs[n]) \subseteq Kept(logs'[n])
  PROVE  WInv'
<1>0. QueueInv /\ GroupInv /\ StoreTypeOK /\ StoreInv /\ RecordInv /\ ReportInv
  BY Zenon DEF WInv
<1>1. QueueInv' /\ GroupInv' /\ UNCHANGED <<pc, call, queue, result, flushing>>
  BY <1>0, CallersRest, Zenon DEF clientVars
<1>2. Quiet /\ Quiet' /\ \A w \in Writers : pc'[w] = "idle"
  BY <1>0, <1>1, Zenon DEF StoreInv, Quiet
<1>3. StoreInv'
  <2>1. mode' # "up" /\ mode' # "down"
    BY Zenon
  <2> QED BY <1>2, <2>1, Zenon DEF StoreInv
<1>4. RecordInv'
  BY <1>2, Zenon DEF RecordInv, Grouped
<1>5. ReportInv'
  <2>1. /\ Found(manifest, logs) \subseteq Found(manifest, logs') /\ Saved(manifest, logs) \subseteq Saved(manifest, logs')
    BY FoundGrows, Zenon
  <2>2. /\ Ids(Found(manifest, logs)) \subseteq Ids(Found(manifest, logs'))
        /\ Ids(Saved(manifest, logs)) \subseteq Ids(Saved(manifest, logs'))
    BY <2>1, IdsGrow, Zenon
  <2>3. /\ acked \subseteq Nat /\ flushing \in [Writers -> SUBSET Nat] /\ promised \subseteq acked
        /\ promised \subseteq Ids(Saved(manifest, logs)) /\ acked \subseteq Ids(Found(manifest, logs))
    BY <1>0, Zenon DEF ReportInv
  <2>4. promised \subseteq Ids(Saved(manifest, logs')) /\ acked \subseteq Ids(Found(manifest, logs')) /\ mode' # "up"
    BY <2>2, <2>3, Zenon
  <2> QED BY <1>1, <2>3, <2>4, Zenon DEF ReportInv
<1> QED BY <1>1, <1>3, <1>4, <1>5, Zenon DEF WInv

ReplayType == [left : SUBSET Nat, tables : SUBSET Entry, maxSeq : Nat, ok : BOOLEAN, failed : BOOLEAN]

LEMMA OpenStartSafe ==
  ASSUME WInv, OpenStart
  PROVE  WInv'
<1>0. StoreTypeOK /\ StoreInv
  BY Zenon DEF WInv
<1>1. /\ mode = "down" /\ mode' = "open" /\ version' = [log |-> manifest.log, tables |-> manifest.tables]
      /\ nextFile' = manifest.next + 1 /\ lastSeq' = manifest.seq
      /\ replay' = [NoReplay EXCEPT !.left = LogsToReplay]
      /\ UNCHANGED clientVars
      /\ UNCHANGED <<wal, mem, imm, logNo, edit, dump, bgError, logs, manifest, acked, promised>>
  BY Zenon DEF OpenStart, disk, history
<1>2. /\ manifest \in Edit /\ DOMAIN logs \subseteq Nat /\ logs \in [DOMAIN logs -> Log] /\ edit = None
  BY <1>0, <1>1, Zenon DEF StoreTypeOK, StoreInv
<1>3. /\ manifest.log \in Nat /\ manifest.next \in Nat /\ manifest.log < manifest.next /\ manifest.seq \in Nat
      /\ manifest.tables \subseteq Entry
  BY <1>2, Zenon DEF Edit
<1>4. /\ replay' \in ReplayType /\ replay'.ok /\ replay'.left = {n \in DOMAIN logs : n >= manifest.log}
  <2>1. LogsToReplay \in SUBSET Nat /\ LogsToReplay = {n \in DOMAIN logs : n >= manifest.log}
    BY <1>2, Zenon DEF LogsToReplay
  <2>2. NoReplay \in ReplayType /\ NoReplay.ok
    BY Zenon DEF NoReplay, ReplayType
  <2> HIDE DEF NoReplay
  <2>3. replay' \in ReplayType /\ replay'.ok = NoReplay.ok /\ replay'.left = LogsToReplay
    BY <1>1, <2>1, <2>2, Zenon DEF ReplayType
  <2> QED BY <2>1, <2>2, <2>3, Zenon
<1>5. StoreTypeOK'
  <2>1. version' \in [log : Nat, tables : SUBSET Entry] /\ Frozen' = Frozen /\ nextFile' \in Nat
    BY <1>1, <1>3 DEF Frozen
  <2> QED BY <1>0, <1>1, <1>3, <1>4, <2>1, Zenon DEF StoreTypeOK, ReplayType
<1>6. OpenInv'
  <2>1. manifest.next < nextFile' /\ \A n \in DOMAIN logs : n \notin replay'.left => n < nextFile'
    BY <1>1, <1>2, <1>3, <1>4
  <2>2. \A n \in DOMAIN logs : ~(n >= manifest.log /\ n \notin replay'.left)
    BY <1>4, Zenon
  <2> QED BY <1>1, <1>2, <1>4, <2>1, <2>2, Zenon DEF OpenInv
<1>7. \A n \in DOMAIN logs : n >= manifest.log =>
        n \in DOMAIN logs' /\ Content(logs[n]) \subseteq Content(logs'[n]) /\ Kept(logs[n]) \subseteq Kept(logs'[n])
  BY <1>1, Zenon
<1>8. mode # "up"
  BY <1>1, Zenon
<1> QED BY <1>1, <1>5, <1>6, <1>7, <1>8, OpenStep, Zenon

\* One more log is replayed: all of it, or the replay is over.
LEMMA ReplayStep ==
  ASSUME WInv, mode = "open", UNCHANGED clientVars, NEW n \in DOMAIN logs, n \in replay.left,
         UNCHANGED <<wal, mode, mem, imm, lastSeq, logNo, version, edit, dump, bgError, logs, manifest,
                     acked, promised>>,
         nextFile' \in Nat, nextFile <= nextFile', n < nextFile',
         replay' \in ReplayType, replay'.left = replay.left \ {n}, replay.tables \subseteq replay'.tables,
         \/ replay'.ok /\ Content(logs[n]) \subseteq replay'.tables
         \/ ~replay'.ok /\ replay.left = {n}
  PROVE  WInv'
<1>0. StoreTypeOK /\ StoreInv
  BY Zenon DEF WInv
<1>1. OpenInv /\ mode # "up" /\ mode' = "open"
  BY <1>0, Zenon DEF StoreInv
<1>2. StoreTypeOK'
  BY <1>0, Zenon DEF StoreTypeOK, ReplayType, Frozen
<1>3. manifest \in Edit /\ nextFile \in Nat /\ DOMAIN logs \subseteq Nat /\ manifest.next \in Nat
  BY <1>0, Zenon DEF StoreTypeOK, Edit
<1>4. OpenInv'
  <2>1. edit = None /\ replay.ok
    BY <1>0, <1>1, Zenon DEF OpenInv, StoreTypeOK, ReplayType
  <2>2. version = [log |-> manifest.log, tables |-> manifest.tables] /\ manifest.next < nextFile'
    BY <1>1, <1>3 DEF OpenInv
  <2>3. /\ replay'.left \subseteq {k \in DOMAIN logs : k >= manifest.log}
        /\ \A k \in DOMAIN logs : k \notin replay'.left => k < nextFile'
    BY <1>1, <1>3 DEF OpenInv
  <2>4. ~replay'.ok => replay'.left = {}
    BY Zenon
  <2>5. ASSUME replay'.ok, NEW k \in DOMAIN logs, k >= manifest.log, k \notin replay'.left
        PROVE  Content(logs[k]) \subseteq replay'.tables
    <3>1. CASE k = n
      BY <2>5, <3>1, Zenon
    <3>2. CASE k # n
      <4>1. Content(logs[k]) \subseteq replay.tables
        BY <1>1, <2>1, <2>5, <3>2, Zenon DEF OpenInv
      <4> QED BY <4>1, Zenon
    <3> QED BY <3>1, <3>2, Zenon
  <2> QED BY <2>1, <2>2, <2>3, <2>4, <2>5, Zenon DEF OpenInv
<1>5. \A k \in DOMAIN logs : k >= manifest.log =>
        k \in DOMAIN logs' /\ Content(logs[k]) \subseteq Content(logs'[k]) /\ Kept(logs[k]) \subseteq Kept(logs'[k])
  BY Zenon
<1> QED BY <1>1, <1>2, <1>4, <1>5, OpenStep, Zenon

LEMMA FileNumberUsed ==
  ASSUME NEW next \in Nat, NEW more \in 0..1, NEW n \in Nat
  PROVE  LET used == MarkFileNumberUsed(next + more, n)
         IN  used \in Nat /\ next <= used /\ n < used
BY DEF MarkFileNumberUsed

LEMMA OpenLogSafe ==
  ASSUME WInv, OpenLog
  PROVE  WInv'
<1>0. StoreTypeOK /\ StoreInv
  BY Zenon DEF WInv
<1>1. PICK n \in DOMAIN logs :
        /\ Oldest(n)
        /\ \E seq \in {replay.maxSeq} \cup {LastOf(rec) : rec \in Range(logs[n].recs)} :
             /\ \A other \in {replay.maxSeq} \cup {LastOf(rec) : rec \in Range(logs[n].recs)} : other <= seq
             /\ replay' = [left   |-> replay.left \ {n},
                           tables |-> replay.tables \cup LogEntries(logs[n].recs),
                           maxSeq |-> seq, ok |-> TRUE, failed |-> replay.failed]
        /\ nextFile' = MarkFileNumberUsed(nextFile + TablesOf(logs[n].recs), n)
  BY Zenon DEF OpenLog, RecoverLogFile
<1>2. /\ mode = "open" /\ UNCHANGED clientVars
      /\ UNCHANGED <<wal, mode, mem, imm, lastSeq, logNo, version, edit, dump, bgError, logs, manifest,
                     acked, promised>>
  BY Zenon DEF OpenLog, disk, history
<1>3. /\ n \in replay.left /\ n \in Nat /\ logs[n] \in Log /\ replay \in ReplayType /\ nextFile \in Nat
  BY <1>0, <1>1, Zenon DEF Oldest, StoreTypeOK, ReplayType
<1>4. PICK seq \in {replay.maxSeq} \cup {LastOf(rec) : rec \in Range(logs[n].recs)} :
        /\ \A other \in {replay.maxSeq} \cup {LastOf(rec) : rec \in Range(logs[n].recs)} : other <= seq
        /\ replay' = [left   |-> replay.left \ {n},
                      tables |-> replay.tables \cup LogEntries(logs[n].recs),
                      maxSeq |-> seq, ok |-> TRUE, failed |-> replay.failed]
  BY <1>1, Zenon
<1>5. seq \in Nat
  <2>1. \A rec \in Range(logs[n].recs) : LastOf(rec) \in Int
    <3>1. logs[n].recs \in Seq(Record)
      BY <1>3, LogBy, Zenon
    <3>2. \A T : \A s \in Seq(T) : \A x \in Range(s) : x \in T
      BY DEF Range
    <3>3. \A rec \in Record : LastOf(rec) \in Int
      BY DEF Record, LastOf
    <3> QED BY <3>1, <3>2, <3>3, Zenon
  <2>2. replay.maxSeq \in Nat /\ replay.maxSeq <= seq
    BY <1>3, <1>4, Zenon DEF ReplayType
  <2>3. seq \in Int
    BY <1>4, <2>1, <2>2
  <2> QED BY <2>2, <2>3
<1>6. LogEntries(logs[n].recs) = Content(logs[n]) /\ Content(logs[n]) \subseteq Entry
  BY <1>3, LogBy, Zenon DEF Content
<1>7. /\ replay' \in ReplayType /\ replay'.left = replay.left \ {n} /\ replay.tables \subseteq replay'.tables
      /\ replay'.ok /\ Content(logs[n]) \subseteq replay'.tables
  BY <1>3, <1>4, <1>5, <1>6, Zenon DEF ReplayType
<1>8. nextFile' \in Nat /\ nextFile <= nextFile' /\ n < nextFile'
  <2>1. TablesOf(logs[n].recs) \in 0..1
    BY DEF TablesOf
  <2> QED BY <1>1, <1>3, <2>1, FileNumberUsed, Zenon
<1> QED BY <1>2, <1>3, <1>7, <1>8, ReplayStep, Zenon

LEMMA OpenLogFailsSafe ==
  ASSUME WInv, OpenLogFails, ReplayFaults \subseteq {"last"}
  PROVE  WInv'
<1>0. StoreTypeOK /\ StoreInv
  BY Zenon DEF WInv
<1>1. PICK n \in DOMAIN logs :
        /\ Oldest(n)
        /\ (IF replay.left = {n} THEN "last" ELSE "earlier") \in ReplayFaults
        /\ \E read \in 0..Len(logs[n].recs), kept \in 0..Len(logs[n].recs) :
             /\ nextFile' = MarkFileNumberUsed(nextFile + TablesOf(SubSeq(logs[n].recs, 1, read)), n)
             /\ replay' = [left   |-> replay.left \ {n},
                           tables |-> replay.tables \cup LogEntries(SubSeq(logs[n].recs, 1, kept)),
                           maxSeq |-> IF read = 0 THEN replay.maxSeq
                                      ELSE Larger(replay.maxSeq, LastOf(logs[n].recs[read])),
                           ok     |-> FALSE, failed |-> TRUE]
  BY Zenon DEF OpenLogFails
<1>2. /\ mode = "open" /\ UNCHANGED clientVars
      /\ UNCHANGED <<wal, mode, mem, imm, lastSeq, logNo, version, edit, dump, bgError, logs, manifest,
                     acked, promised>>
  BY Zenon DEF OpenLogFails, disk, history
<1>3. /\ n \in replay.left /\ n \in Nat /\ logs[n] \in Log /\ replay \in ReplayType /\ nextFile \in Nat
      /\ replay.left = {n}
  <2>1. replay.left = {n}
    BY <1>1
  <2> QED BY <1>0, <1>1, <2>1, Zenon DEF Oldest, StoreTypeOK, ReplayType
<1>4. PICK read \in 0..Len(logs[n].recs), kept \in 0..Len(logs[n].recs) :
        /\ nextFile' = MarkFileNumberUsed(nextFile + TablesOf(SubSeq(logs[n].recs, 1, read)), n)
        /\ replay' = [left   |-> replay.left \ {n},
                      tables |-> replay.tables \cup LogEntries(SubSeq(logs[n].recs, 1, kept)),
                      maxSeq |-> IF read = 0 THEN replay.maxSeq
                                 ELSE Larger(replay.maxSeq, LastOf(logs[n].recs[read])),
                      ok     |-> FALSE, failed |-> TRUE]
  BY <1>1, Zenon
<1>5. logs[n].recs \in Seq(Record) /\ Content(logs[n]) \subseteq Entry
  BY <1>3, LogBy, Zenon
<1>6. (IF read = 0 THEN replay.maxSeq ELSE Larger(replay.maxSeq, LastOf(logs[n].recs[read]))) \in Nat
  <2>1. \A T : \A s \in Seq(T) : \A i \in 0..Len(s) : i # 0 => s[i] \in T
    OBVIOUS
  <2>2. read # 0 => logs[n].recs[read] \in Record
    BY <1>5, <2>1, Zenon
  <2>3. \A rec \in Record : LastOf(rec) \in Int
    BY DEF Record, LastOf
  <2>4. \A a \in Nat, b \in Int : Larger(a, b) \in Nat
    BY DEF Larger
  <2>5. replay.maxSeq \in Nat
    BY <1>3, Zenon DEF ReplayType
  <2> QED BY <2>2, <2>3, <2>4, <2>5, Zenon
<1>7. LogEntries(SubSeq(logs[n].recs, 1, kept)) \subseteq Entry
  <2>1. \A k \in 1..kept : k \in 1..Len(logs[n].recs)
    BY <1>5
  <2>2. \A e : e \in LogEntries(SubSeq(logs[n].recs, 1, kept)) => e \in Content(logs[n])
    BY <1>5, <2>1, LogEntriesBy, Zenon DEF Content
  <2> QED BY <1>5, <2>2, Zenon
<1>8. /\ replay' \in ReplayType /\ replay'.left = replay.left \ {n} /\ replay.tables \subseteq replay'.tables
      /\ ~replay'.ok
  BY <1>3, <1>4, <1>6, <1>7, Zenon DEF ReplayType
<1>9. nextFile' \in Nat /\ nextFile <= nextFile' /\ n < nextFile'
  <2>1. TablesOf(SubSeq(logs[n].recs, 1, read)) \in 0..1
    BY DEF TablesOf
  <2> QED BY <1>3, <1>4, <2>1, FileNumberUsed, Zenon
<1> QED BY <1>2, <1>3, <1>8, <1>9, ReplayStep, Zenon

LEMMA OpenNewLogSafe ==
  ASSUME WInv, OpenNewLog
  PROVE  WInv'
<1>0. StoreTypeOK /\ StoreInv
  BY Zenon DEF WInv
<1>1. /\ mode = "open" /\ replay.left = {} /\ edit = None /\ replay.ok /\ lastSeq' = Larger(lastSeq, replay.maxSeq)
      /\ IF wal THEN /\ logNo' = nextFile /\ nextFile' = nextFile + 1
                     /\ logs' = [n \in DOMAIN logs \cup {nextFile} |->
                                   IF n = nextFile THEN EmptyLog ELSE logs[n]]
                ELSE UNCHANGED <<logNo, nextFile, logs>>
      /\ edit' = [log |-> IF wal THEN logNo' ELSE version.log, next |-> nextFile',
                  seq |-> lastSeq', tables |-> version.tables \cup replay.tables]
      /\ UNCHANGED clientVars
      /\ UNCHANGED <<wal, mode, mem, imm, version, dump, bgError, replay, manifest, acked, promised>>
  BY Zenon DEF OpenNewLog, Replayed, history
<1>2. OpenInv /\ mode # "up" /\ mode' = "open"
  BY <1>0, <1>1, Zenon DEF StoreInv
<1>3. /\ nextFile \in Nat /\ logNo \in Nat /\ manifest \in Edit /\ manifest.log \in Nat /\ manifest.next \in Nat
      /\ manifest.log < manifest.next /\ manifest.tables \subseteq Entry /\ replay.tables \subseteq Entry
      /\ version.log = manifest.log /\ version.tables = manifest.tables /\ manifest.next < nextFile
      /\ DOMAIN logs \subseteq Nat /\ logs \in [DOMAIN logs -> Log] /\ wal \in BOOLEAN /\ (wal \/ DOMAIN logs = {})
  <2>1. /\ nextFile \in Nat /\ logNo \in Nat /\ manifest \in Edit /\ replay.tables \subseteq Entry
        /\ DOMAIN logs \subseteq Nat /\ logs \in [DOMAIN logs -> Log] /\ wal \in BOOLEAN /\ (wal \/ DOMAIN logs = {})
    BY <1>0, Zenon DEF StoreTypeOK
  <2>2. /\ manifest.log \in Nat /\ manifest.next \in Nat /\ manifest.log < manifest.next /\ manifest.tables \subseteq Entry
    BY <2>1, Zenon DEF Edit
  <2>3. version.log = manifest.log /\ version.tables = manifest.tables /\ manifest.next < nextFile
    BY <1>2, Zenon DEF OpenInv
  <2> QED BY <2>1, <2>2, <2>3, Zenon
<1>4. /\ \A n \in DOMAIN logs : n < nextFile
      /\ \A n \in DOMAIN logs : n >= manifest.log => Content(logs[n]) \subseteq replay.tables
  BY <1>1, <1>2, Zenon DEF OpenInv
<1>5. lastSeq' \in Nat
  <2>1. lastSeq \in Nat /\ replay.maxSeq \in Nat
    BY <1>0, Zenon DEF StoreTypeOK
  <2> QED BY <1>1, <2>1, Zenon DEF Larger
<1>6. /\ nextFile' \in Nat /\ logNo' \in Nat /\ nextFile <= nextFile'
      /\ DOMAIN logs' \subseteq Nat /\ logs' \in [DOMAIN logs' -> Log] /\ (wal \/ DOMAIN logs' = {})
      /\ \A n \in DOMAIN logs : n \in DOMAIN logs' /\ logs'[n] = logs[n]
      /\ \A n \in DOMAIN logs' : n \in DOMAIN logs \/ (wal /\ n = nextFile /\ logs'[n] = EmptyLog)
      /\ wal => logNo' = nextFile /\ nextFile' = nextFile + 1 /\ logNo' \in DOMAIN logs'
  <2>1. CASE ~wal
    BY <1>1, <1>3, <2>1
  <2>2. CASE wal
    <3>1. /\ logNo' = nextFile /\ nextFile' = nextFile + 1
          /\ logs' = [n \in DOMAIN logs \cup {nextFile} |-> IF n = nextFile THEN EmptyLog ELSE logs[n]]
      BY <1>1, <2>2, Zenon
    <3>2. \A n \in DOMAIN logs : n # nextFile
      BY <1>3, <1>4
    <3>3. /\ DOMAIN logs' = DOMAIN logs \cup {nextFile} /\ logs'[nextFile] = EmptyLog
          /\ \A n \in DOMAIN logs : logs'[n] = logs[n]
      BY <3>1, <3>2, Zenon
    <3>4. logs' \in [DOMAIN logs' -> Log]
      BY <1>3, <3>1, <3>3, NoLog, Zenon
    <3> QED BY <1>3, <2>2, <3>1, <3>3, <3>4
  <2> QED BY <1>3, <2>1, <2>2, Zenon
<1>7. /\ edit' \in Edit /\ edit'.tables = manifest.tables \cup replay.tables
      /\ edit'.log >= manifest.log /\ edit'.log < nextFile' /\ (wal => edit'.log = logNo')
  <2> DEFINE log == IF wal THEN logNo' ELSE version.log
  <2>1. log \in Nat /\ log >= manifest.log /\ log < nextFile' /\ (wal => log = logNo')
    BY <1>3, <1>6, <1>1
  <2>2. edit' = [log |-> log, next |-> nextFile', seq |-> lastSeq', tables |-> manifest.tables \cup replay.tables]
    BY <1>1, <1>3, Zenon
  <2> HIDE DEF log
  <2>3. edit' \in Edit /\ edit'.log = log /\ edit'.tables = manifest.tables \cup replay.tables
    BY <1>3, <1>5, <1>6, <2>1, <2>2, Zenon DEF Edit
  <2> QED BY <2>1, <2>3, Zenon
<1>8. StoreTypeOK'
  <2>1. Frozen' = Frozen
    BY <1>1, Zenon DEF Frozen
  <2> QED BY <1>0, <1>1, <1>5, <1>6, <1>7, <2>1, Zenon DEF StoreTypeOK
<1>9. \A n \in DOMAIN logs' : n >= manifest.log => Content(logs'[n]) \subseteq replay.tables
  <2>1. \A n \in DOMAIN logs' : n \in DOMAIN logs \/ Content(logs'[n]) = {}
    BY <1>6, NoLog, Zenon
  <2> QED BY <1>4, <1>6, <2>1, Zenon
<1>10. Found(manifest, logs') \subseteq edit'.tables
  <2>1. \A e : e \in Found(manifest, logs') => e \in manifest.tables \/ e \in replay.tables
    BY <1>9, FoundBy, Zenon
  <2> QED BY <1>7, <2>1, Zenon
<1>11. OpenInv'
  <2>1. \A n \in DOMAIN logs' : n < nextFile'
    BY <1>3, <1>4, <1>6
  <2>2. manifest.next < nextFile' /\ version = [log |-> manifest.log, tables |-> manifest.tables]
    BY <1>2, <1>3, <1>6 DEF OpenInv
  <2>3. {} \subseteq {n \in DOMAIN logs' : n >= manifest.log}
    BY Zenon
  <2> QED BY <1>1, <1>6, <1>7, <1>9, <1>10, <2>1, <2>2, <2>3, Zenon DEF OpenInv
<1>12. \A n \in DOMAIN logs : n >= manifest.log =>
        n \in DOMAIN logs' /\ Content(logs[n]) \subseteq Content(logs'[n]) /\ Kept(logs[n]) \subseteq Kept(logs'[n])
  BY <1>6, Zenon
<1> QED BY <1>1, <1>2, <1>8, <1>11, <1>12, OpenStep, Zenon

LEMMA OpenInstalledSafe ==
  ASSUME WInv, OpenInstalled, unread = {}
  PROVE  WInv'
<1>0. QueueInv /\ GroupInv /\ StoreTypeOK /\ StoreInv /\ RecordInv /\ ReportInv
  BY Zenon DEF WInv
<1>1. /\ mode = "open" /\ edit # None /\ mode' = "up" /\ manifest' = edit /\ edit' = None /\ replay' = NoReplay
      /\ version' = [log |-> edit.log, tables |-> edit.tables] /\ DeleteObsoleteLogs(edit.log)
      /\ UNCHANGED clientVars
      /\ UNCHANGED <<wal, mem, imm, lastSeq, nextFile, logNo, dump, bgError, acked, promised>>
  BY AllReadable, Zenon DEF OpenInstalled
<1>2. OpenInv /\ Quiet /\ edit \in Edit /\ logNo \in Nat
  BY <1>0, <1>1, Zenon DEF StoreInv, StoreTypeOK
<1>3. /\ Found(manifest, logs) \subseteq edit.tables /\ edit.log < nextFile
      /\ (wal => edit.log = logNo /\ logNo \in DOMAIN logs) /\ \A n \in DOMAIN logs : n < nextFile
  BY <1>1, <1>2, Zenon DEF OpenInv
<1>4. /\ DOMAIN logs' \subseteq DOMAIN logs /\ logs' \in [DOMAIN logs' -> Log]
      /\ DOMAIN logs' \subseteq Nat /\ (wal \/ DOMAIN logs' = {})
      /\ \A n \in DOMAIN logs' : logs'[n] = logs[n]
      /\ \A n \in DOMAIN logs : n >= edit.log => n \in DOMAIN logs'
  BY <1>0, <1>1, <1>2, LogsDeleted, Zenon
<1>5. /\ QueueInv' /\ GroupInv' /\ UNCHANGED <<pc, call, flushing, group, todo>>
  BY <1>0, <1>1, CallersRest, Zenon
<1>6. version'.log = edit.log /\ version'.tables = edit.tables /\ version' \in [log : Nat, tables : SUBSET Entry]
  BY <1>1, <1>2, Zenon DEF Edit
<1>7. mem' = {} /\ Frozen' = {} /\ dump' = "idle" /\ \A w \in Writers : pc'[w] = "idle" /\ flushing'[w] = {}
  BY <1>1, <1>2, <1>5, Zenon DEF Quiet, Frozen
<1>8. StoreTypeOK'
  <2>1. NoReplay \in [left : SUBSET Nat, tables : SUBSET Entry, maxSeq : Nat, ok : BOOLEAN, failed : BOOLEAN]
    BY Zenon DEF NoReplay
  <2> QED BY <1>0, <1>1, <1>2, <1>4, <1>6, <1>7, <2>1, Zenon DEF StoreTypeOK
<1>9. UpInv'
  <2>1. \A n \in DOMAIN logs' : n < nextFile
    BY <1>3, <1>4, Zenon
  <2>2. wal => logNo \in DOMAIN logs' /\ edit.log <= logNo /\ logNo < nextFile
    BY <1>2, <1>3, <1>4
  <2> QED BY <1>1, <1>3, <1>6, <1>7, <2>1, <2>2, Zenon DEF UpInv
<1>10. StoreInv'
  BY <1>1, <1>9, Zenon DEF StoreInv
<1>11. RecordInv'
  BY <1>7, Zenon DEF RecordInv, Grouped
<1>12. ReportInv'
  <2>1. /\ acked \subseteq Nat /\ flushing \in [Writers -> SUBSET Nat] /\ promised \subseteq acked
        /\ acked \subseteq Ids(Found(manifest, logs))
    BY <1>0, <1>1, Zenon DEF ReportInv
  <2>2. edit.tables \subseteq Saved(edit, logs') /\ edit.tables \subseteq View' /\ edit.tables \subseteq Safe'
    <3>1. edit.tables \subseteq Saved(edit, logs')
      BY FoundBy, Zenon
    <3>2. edit.tables \subseteq View'
      BY <1>6, Zenon DEF View
    <3>3. edit.tables \subseteq Safe'
      BY <1>6, Zenon DEF Safe
    <3> QED BY <3>1, <3>2, <3>3, Zenon
  <2>3. /\ Ids(Found(manifest, logs)) \subseteq Ids(edit.tables) /\ Ids(edit.tables) \subseteq Ids(Saved(edit, logs'))
        /\ Ids(edit.tables) \subseteq Ids(View') /\ Ids(edit.tables) \subseteq Ids(Safe')
    BY <1>3, <2>2, IdsGrow, Zenon
  <2>4. /\ promised \subseteq Ids(Saved(edit, logs')) /\ acked \subseteq Ids(View') /\ promised \subseteq Ids(Safe')
    BY <2>1, <2>3, Zenon
  <2>5. \A w \in Writers : flushing'[w] \subseteq acked /\ pc'[w] # "flush"
    BY <1>7, Zenon
  <2> QED BY <1>1, <1>5, <2>1, <2>4, <2>5, Zenon DEF ReportInv
<1> QED BY <1>5, <1>8, <1>10, <1>11, <1>12, Zenon DEF WInv

-----------------------------------------------------------------------------
(* The invariant holds.                                                    *)

\* A writer at the log means that there is one.
LogInUse == \A w \in Writers : pc[w] \in {"append", "sync"} => wal

Inv == WInv /\ updates \in Nat /\ LogInUse /\ unread = {}

LEMMA LogInUseStep ==
  ASSUME QueueInv, LogInUse, wal' = wal, NEW w \in Writers, NEW to \in PCs,
         pc' = [pc EXCEPT ![w] = to], to \in {"append", "sync"} => wal
  PROVE  LogInUse'
BY DEF LogInUse, QueueInv

LEMMA WriterInUse ==
  ASSUME QueueInv, LogInUse, NEW w \in Writers, Write(w) \/ SyncWAL(w) \/ FlushMemTable(w) \/ Step(w)
  PROVE  LogInUse'
<1>1. wal' = wal
  BY Zenon DEF Write, SyncWAL, FlushMemTable, Step, Enqueue, WakeDone, WakeFront, RoomError, RoomReady,
     SwitchMemTable, SwitchWhen, SwitchFails, AddRecord, LogRecord, AddRecordFails, LogRecordFails,
     SyncNothing, SyncStart, SyncOk, SyncFails, InsertInto, WriteDone, FlushDone
<1>2. {"lead", "wait", "idle", "flush", "append", "insert", "sync"} \subseteq PCs
  BY Zenon DEF PCs, Busy
<1>3. ASSUME NEW last, NEW ok, NEW promise, Finish(w, last, ok, promise)
      PROVE  pc' = [pc EXCEPT ![w] = "flush"] \/ pc' = [pc EXCEPT ![w] = "idle"]
  BY <1>3, Zenon DEF Finish, Dequeue, Idle
<1>4. ASSUME BuildBatchGroup(w)
      PROVE  pc' = [pc EXCEPT ![w] = IF wal THEN "append" ELSE "insert"]
  BY <1>4, Zenon DEF BuildBatchGroup
<1>5. \/ pc' = pc \/ pc' = [pc EXCEPT ![w] = "lead"] \/ pc' = [pc EXCEPT ![w] = "wait"]
      \/ pc' = [pc EXCEPT ![w] = "idle"] \/ pc' = [pc EXCEPT ![w] = "flush"]
      \/ pc' = [pc EXCEPT ![w] = IF wal THEN "append" ELSE "insert"]
      \/ pc' = [pc EXCEPT ![w] = "insert"]
      \/ pc' = [pc EXCEPT ![w] = "sync"] /\ (wal \/ pc[w] = "append")
  <2>1. CASE Write(w) \/ SyncWAL(w) \/ FlushMemTable(w) \/ WakeDone(w) \/ WakeFront(w)
    BY <2>1, Zenon DEF Write, SyncWAL, FlushMemTable, Enqueue, WakeDone, WakeFront, Idle
  <2>2. CASE RoomError(w) \/ RoomReady(w) \/ SwitchMemTable(w) \/ SwitchFails(w)
    BY <1>3, <1>4, <2>2, Zenon DEF RoomError, RoomReady, SwitchMemTable, SwitchWhen, SwitchFails
  <2>3. CASE AddRecord(w) \/ AddRecordFails(w) \/ SyncNothing(w) \/ SyncStart(w)
    BY <1>3, <2>3, Zenon DEF AddRecord, LogRecord, AddRecordFails, LogRecordFails, SyncNothing, SyncStart, Leads
  <2>4. CASE SyncOk(w) \/ SyncFails(w) \/ InsertInto(w) \/ WriteDone(w) \/ FlushDone(w)
    BY <1>3, <2>4, Zenon DEF SyncOk, SyncFails, InsertInto, WriteDone, FlushDone, Idle
  <2> QED BY <2>1, <2>2, <2>3, <2>4, Zenon DEF Step
<1>6. CASE pc' = pc
  BY <1>1, <1>6, Zenon DEF LogInUse
<1>7. pc[w] = "append" => wal
  BY Zenon DEF LogInUse
<1>8. CASE pc' = [pc EXCEPT ![w] = IF wal THEN "append" ELSE "insert"]
  <2>1. PICK to \in {"append", "insert"} : to = (IF wal THEN "append" ELSE "insert")
    BY Zenon
  <2>2. pc' = [pc EXCEPT ![w] = to] /\ to \in PCs /\ (to \in {"append", "sync"} => wal)
    BY <1>2, <1>8, <2>1, Zenon
  <2> QED BY <1>1, <2>2, LogInUseStep, Zenon
<1>9. CASE pc' = [pc EXCEPT ![w] = "sync"] /\ (wal \/ pc[w] = "append")
  <2>1. "sync" \in PCs /\ wal
    BY <1>2, <1>7, <1>9, Zenon
  <2> QED BY <1>1, <1>9, <2>1, LogInUseStep, Zenon
<1>10. ASSUME NEW to \in {"lead", "wait", "idle", "flush", "insert"}, pc' = [pc EXCEPT ![w] = to]
       PROVE  LogInUse'
  <2>1. to \in PCs /\ to \notin {"append", "sync"}
    BY <1>2, Zenon
  <2> QED BY <1>1, <1>10, <2>1, LogInUseStep, Zenon
<1> QED BY <1>5, <1>6, <1>8, <1>9, <1>10, Zenon

LEMMA InvInit == WriteInit => Inv
<1> SUFFICES ASSUME WriteInit PROVE Inv
  BY Zenon
<1>1. /\ wal \in Wals /\ mode = "down" /\ mem = {} /\ imm = {} /\ lastSeq = 0 /\ nextFile = 0 /\ logNo = 0
      /\ version = [log |-> 0, tables |-> {}] /\ edit = None /\ dump = "idle" /\ bgError = FALSE
      /\ replay = NoReplay /\ queue = <<>> /\ logs = <<>>
      /\ manifest = [log |-> 0, next |-> 4, seq |-> 0, tables |-> {}]
      /\ flushing = [w \in Writers |-> {}] /\ pc = [w \in Writers |-> "idle"]
      /\ result = [w \in Writers |-> None] /\ acked = {} /\ promised = {} /\ unread = {} /\ updates = 0
  BY Zenon DEF WriteInit
<1>2. QueueInv /\ GroupInv
  <2>1. NoCalls
    BY Zenon DEF WriteInit, NoCalls
  <2> QED BY <2>1, QuietQueue, Zenon
<1>3. StoreTypeOK
  <2>1. NoReplay \in [left : SUBSET Nat, tables : SUBSET Entry, maxSeq : Nat, ok : BOOLEAN, failed : BOOLEAN]
    BY Zenon DEF NoReplay
  <2>2. manifest \in Edit
    <3>1. manifest \in [log : Nat, next : Nat, seq : Nat, tables : SUBSET Entry]
      BY <1>1, Zenon
    <3>2. manifest.log < manifest.next
      BY <1>1
    <3> QED BY <3>1, <3>2, Zenon DEF Edit
  <2>3. DOMAIN logs = {} /\ logs \in [DOMAIN logs -> Log]
    BY <1>1
  <2>4. version \in [log : Nat, tables : SUBSET Entry] /\ Frozen = {} /\ wal \in BOOLEAN
    BY <1>1, BoundsAssumption, Zenon DEF Frozen
  <2> QED BY <1>1, <2>1, <2>2, <2>3, <2>4, Zenon DEF StoreTypeOK
<1>4. \A w \in Writers : pc[w] = "idle" /\ result[w] = None /\ flushing[w] = {}
  BY <1>1, Zenon
<1>5. StoreInv
  BY <1>1, <1>4, Zenon DEF StoreInv, Quiet
<1>6. RecordInv
  BY <1>4, Zenon DEF RecordInv, Grouped
<1>7. ReportInv
  <2>1. mode # "up" /\ flushing \in [Writers -> SUBSET Nat]
    BY <1>1, Zenon
  <2> QED BY <1>1, <2>1, Zenon DEF ReportInv
<1>8. updates \in Nat /\ LogInUse
  BY <1>1, <1>4, Zenon DEF LogInUse
<1> QED BY <1>1, <1>2, <1>3, <1>5, <1>6, <1>7, <1>8, Zenon DEF WInv, Inv

\* A step of a call, of the dump, of DB::Open, a crash.
LEMMA WriterSafe ==
  ASSUME Inv, NEW w \in Writers, Write(w) \/ SyncWAL(w) \/ FlushMemTable(w) \/ Step(w), "behind" \notin ReplayFaults
  PROVE  WInv'
<1>1. WInv /\ updates \in Nat /\ LogInUse
  BY Zenon DEF Inv
<1>2. CASE Write(w) \/ SyncWAL(w) \/ FlushMemTable(w)
  BY <1>1, <1>2, EnqueueSafe, Zenon
<1>3. CASE WakeDone(w) \/ WakeFront(w)
  BY <1>1, <1>3, WakeSafe, Zenon
<1>4. CASE RoomError(w) \/ SwitchFails(w) \/ SyncNothing(w)
  BY <1>1, <1>4, LeaveSafe, Zenon
<1>5. CASE RoomReady(w) \/ SwitchMemTable(w)
  BY <1>1, <1>5, RoomReadySafe, SwitchSafe, Zenon
<1>6. CASE AddRecord(w) \/ AddRecordFails(w)
  BY <1>1, <1>6, AddRecordSafe, AddRecordFailsSafe, Zenon
<1>7. CASE SyncStart(w) \/ SyncFails(w)
  BY <1>1, <1>7, SyncStartSafe, SyncFailsSafe, Zenon
<1>8. CASE SyncOk(w)
  <2>1. pc[w] = "sync"
    BY <1>8, Zenon DEF SyncOk, Leads
  <2>2. wal
    BY <1>1, <2>1, Zenon DEF LogInUse
  <2> QED BY <1>1, <1>8, <2>2, SyncOkSafe, Zenon
<1>9. CASE InsertInto(w) \/ WriteDone(w) \/ FlushDone(w)
  BY <1>1, <1>9, InsertIntoSafe, WriteDoneSafe, FlushDoneSafe, Zenon
<1> QED BY <1>2, <1>3, <1>4, <1>5, <1>6, <1>7, <1>8, <1>9, Zenon DEF Step

LEMMA OtherSafe ==
  ASSUME WInv, unread = {}, ReplayFaults \subseteq {"last"},
         Dump \/ Open \/ OpenFails \/ ProcessCrash \/ MachineCrash \/ Close
  PROVE  WInv'
<1>1. CASE Dump
  BY <1>1, DumpStartSafe, DumpBuiltSafe, DumpInstalledSafe, DumpApplyFailsSafe, Zenon DEF Dump
<1>2. CASE Open
  <2>1. ~OpenLogIgnores
    BY DEF OpenLogIgnores
  <2> QED BY <1>2, <2>1, OpenStartSafe, OpenLogSafe, OpenLogFailsSafe, OpenNewLogSafe, OpenInstalledSafe, Zenon
          DEF Open
<1>3. CASE OpenFails \/ ProcessCrash \/ MachineCrash \/ Close
  BY <1>3, CrashSafe, Zenon
<1> QED BY <1>1, <1>2, <1>3, Zenon

\* The rest of the invariant, and a step that changes nothing.
LEMMA OtherInUse ==
  ASSUME QueueInv, LogInUse, updates \in Nat,
         Dump \/ Open \/ OpenFails \/ ProcessCrash \/ MachineCrash \/ Close
  PROVE  LogInUse' /\ updates' \in Nat
<1>1. CASE Dump
  <2>1. CASE DumpStart \/ DumpBuilt \/ DumpFails
    <3>1. UNCHANGED <<wal, pc, updates>>
      BY <2>1, Zenon DEF DumpStart, DumpBuilt, DumpFails, clientVars, counts
    <3> QED BY <3>1, Zenon DEF LogInUse
  <2>2. CASE DumpInstalled \/ DumpApplyFails
    <3>1. UNCHANGED <<wal, pc, updates>>
      BY <2>2, Zenon DEF DumpInstalled, InstallAnd, DumpApplyFails, clientVars, counts
    <3> QED BY <3>1, Zenon DEF LogInUse
  <2> QED BY <1>1, <2>1, <2>2, Zenon DEF Dump
<1>2. CASE Open
  <2>1. UNCHANGED <<wal, pc, updates>>
    BY <1>2, Zenon DEF Open, OpenStart, OpenLog, OpenLogIgnores, OpenLogFails, OpenNewLog, OpenInstalled,
       clientVars, counts
  <2> QED BY <2>1, Zenon DEF LogInUse
<1>3. CASE OpenFails \/ ProcessCrash \/ MachineCrash \/ Close
  <2>1. Gone
    BY <1>3, Zenon DEF OpenFails, ProcessCrash, MachineCrash, Close
  <2>2. pc' = [w \in Writers |-> "idle"] /\ updates' = updates
    BY <2>1, Zenon DEF Gone
  <2> QED BY <2>2, Zenon DEF LogInUse
<1> QED BY <1>1, <1>2, <1>3, Zenon

LEMMA UpdatesStep ==
  ASSUME updates \in Nat, NEW w \in Writers, Write(w) \/ SyncWAL(w) \/ FlushMemTable(w) \/ Step(w)
  PROVE  updates' \in Nat
<1>1. CASE Write(w)
  BY <1>1 DEF Write
<1>2. CASE SyncWAL(w) \/ FlushMemTable(w)
  BY <1>2, Zenon DEF SyncWAL, FlushMemTable
<1>3. CASE Step(w)
  BY <1>3, Zenon DEF Step, WakeDone, WakeFront, RoomError, RoomReady,
     SwitchMemTable, SwitchWhen, SwitchFails, AddRecord, LogRecord, AddRecordFails, LogRecordFails,
     SyncNothing, SyncStart, SyncOk, SyncFails, InsertInto, WriteDone, FlushDone, counts
<1> QED BY <1>1, <1>2, <1>3, Zenon

\* Every record is found.
LEMMA NoneUnread ==
  ASSUME ReplayFaults \subseteq {"last"}, unread = {}, [WriteNext]_writeVars
  PROVE  unread' = {}
<1>1. "behind" \notin ReplayFaults /\ "ignored" \notin ReplayFaults
  OBVIOUS
<1>2. ASSUME NEW w \in Writers, Write(w) \/ SyncWAL(w) \/ FlushMemTable(w) \/ Step(w)
      PROVE  unread' = unread
  <2>1. ASSUME NEW last, NEW ok, NEW promise, Finish(w, last, ok, promise)
        PROVE  unread' = unread
    BY <2>1, Zenon DEF Finish, Dequeue
  <2>2. CASE Write(w) \/ SyncWAL(w) \/ FlushMemTable(w)
    <3>1. \E c : Enqueue(w, c)
      BY <2>2, Zenon DEF Write, SyncWAL, FlushMemTable
    <3> QED BY <3>1, Zenon DEF Enqueue, history
  <2>3. CASE WakeDone(w) \/ WakeFront(w) \/ RoomError(w) \/ RoomReady(w) \/ SwitchMemTable(w) \/ SwitchFails(w)
    BY <2>1, <2>3, Zenon DEF WakeDone, WakeFront, RoomError, RoomReady, BuildBatchGroup, SwitchMemTable,
       SwitchWhen, SwitchFails, history
  <2>4. CASE AddRecord(w) \/ AddRecordFails(w) \/ SyncNothing(w) \/ SyncStart(w)
    BY <1>1, <2>1, <2>4, Zenon DEF AddRecord, LogRecord, LoggedBehind, AddRecordFails, LogRecordFails,
       SyncNothing, SyncStart, history
  <2>5. CASE SyncOk(w) \/ SyncFails(w) \/ InsertInto(w) \/ WriteDone(w) \/ FlushDone(w)
    BY <2>1, <2>5, Zenon DEF SyncOk, SyncFails, InsertInto, WriteDone, FlushDone, history
  <2> QED BY <1>2, <2>2, <2>3, <2>4, <2>5, Zenon DEF Step
<1>3. CASE Dump
  <2>1. unread' = unread \/ unread' = unread \ Ids(edit.tables)
    BY <1>3, Zenon DEF Dump, DumpStart, DumpBuilt, DumpFails, DumpInstalled, InstallAnd, DumpApplyFails, history
  <2> QED BY <2>1, Zenon
<1>4. CASE Open
  <2>1. unread' = unread \/ unread' = {}
    BY <1>1, <1>4, Zenon DEF Open, OpenStart, OpenLog, OpenLogIgnores, OpenLogFails, OpenNewLog, OpenInstalled,
       history
  <2> QED BY <2>1, Zenon
<1>5. CASE OpenFails \/ ProcessCrash \/ MachineCrash \/ Close
  BY <1>5, Zenon DEF OpenFails, ProcessCrash, MachineCrash, Close, Gone
<1>6. CASE UNCHANGED writeVars
  BY <1>6, Zenon DEF writeVars, history
<1> QED BY <1>2, <1>3, <1>4, <1>5, <1>6, Zenon DEF WriteNext

LEMMA InvStutters ==
  ASSUME Inv, UNCHANGED writeVars
  PROVE  Inv'
<1>1. /\ UNCHANGED clientVars /\ UNCHANGED <<wal, mode, replay, updates>>
      /\ UNCHANGED <<mem, imm, lastSeq, nextFile, logNo, version, edit, dump, bgError>>
      /\ UNCHANGED <<logs, manifest, acked, promised, unread>>
  BY Zenon DEF writeVars, dbVars, disk, history, counts
<1>2. UNCHANGED <<pc, call, queue, result, group, todo, flushing>>
  BY <1>1, Zenon DEF clientVars
<1>3. QueueInv' /\ GroupInv'
  BY <1>1, CallersRest, Zenon DEF Inv, WInv
<1>4. /\ View' = View /\ Safe' = Safe /\ Frozen' = Frozen
      /\ Saved(manifest, logs)' = Saved(manifest, logs) /\ Found(manifest, logs)' = Found(manifest, logs)
  BY <1>1, Zenon DEF View, Safe, Frozen
<1>5. StoreTypeOK'
  BY <1>1, <1>4, Zenon DEF Inv, WInv, StoreTypeOK
<1>6. StoreInv'
  <2>1. Quiet' = Quiet
    BY <1>1, <1>2, Zenon DEF Quiet
  <2>2. OpenInv' = OpenInv
    BY <1>1, <1>4, Zenon DEF OpenInv
  <2>3. UpInv' = UpInv
    BY <1>1, <1>4, Zenon DEF UpInv
  <2> QED BY <1>1, <2>1, <2>2, <2>3, Zenon DEF Inv, WInv, StoreInv
<1>7. RecordInv'
  BY <1>1, <1>2, Zenon DEF Inv, WInv, RecordInv, Grouped
<1>8. ReportInv'
  BY <1>1, <1>2, <1>4, Zenon DEF Inv, WInv, ReportInv
<1>9. updates' \in Nat /\ LogInUse' /\ unread' = {}
  BY <1>1, <1>2, Zenon DEF Inv, LogInUse
<1> QED BY <1>3, <1>5, <1>6, <1>7, <1>8, <1>9, Zenon DEF Inv, WInv

LEMMA InvNext ==
  ASSUME ReplayFaults \subseteq {"last"}, Inv, [WriteNext]_writeVars
  PROVE  Inv'
<1>1. WInv /\ QueueInv /\ LogInUse /\ updates \in Nat /\ unread = {}
  BY Zenon DEF Inv, WInv
<1>0. unread' = {} /\ "behind" \notin ReplayFaults
  <2>1. "behind" \notin ReplayFaults
    OBVIOUS
  <2> QED BY <1>1, <2>1, NoneUnread, Zenon
<1>2. ASSUME NEW w \in Writers, Write(w) \/ SyncWAL(w) \/ FlushMemTable(w) \/ Step(w)
      PROVE  Inv'
  <2>1. WInv'
    BY <1>0, <1>2, WriterSafe, Zenon
  <2>2. LogInUse' /\ updates' \in Nat
    BY <1>1, <1>2, WriterInUse, UpdatesStep, Zenon
  <2> QED BY <1>0, <2>1, <2>2, Zenon DEF Inv
<1>3. CASE Dump \/ Open \/ OpenFails \/ ProcessCrash \/ MachineCrash \/ Close
  <2>1. WInv'
    BY <1>1, <1>3, OtherSafe, Zenon
  <2>2. LogInUse' /\ updates' \in Nat
    BY <1>1, <1>3, OtherInUse, Zenon
  <2> QED BY <1>0, <2>1, <2>2, Zenon DEF Inv
<1>4. CASE UNCHANGED writeVars
  BY <1>4, InvStutters, Zenon
<1> QED BY <1>2, <1>3, <1>4, Zenon DEF WriteNext

LEMMA InvSurvives == Inv => WritesSurvive /\ unread = {}
<1> SUFFICES ASSUME Inv PROVE WritesSurvive /\ unread = {}
  BY Zenon
<1>1. WInv /\ unread = {}
  BY Zenon DEF Inv
<1>2. manifest \in MaybeWritten
  BY Zenon DEF MaybeWritten
<1>3. promised \subseteq Ids(Saved(manifest, logs)) /\ (wal => acked \subseteq Ids(Found(manifest, logs)))
  BY <1>1, <1>2, ManifestHasAll, Zenon
<1>4. Surviving = Found(manifest, logs) /\ OnStorage = Saved(manifest, logs)
  BY Zenon DEF Surviving, OnStorage, Found, Saved, Content, Kept, LiveLogs
<1> QED BY <1>1, <1>3, <1>4, Zenon DEF WritesSurvive, AckedSurvives, PromisedOnStorage, UnreadBehindFailure

\* In every behaviour with at most the replay of the last log failing (db_impl.cc: Write,
\* MakeRoomForWrite, CompactMemTable, DeleteObsoleteFiles, Recover, RecoverLogFile, SyncWAL,
\* FlushMemTable), in which a log record that was appended without an error is found again:
\* whatever else fails and whenever the process or the machine dies, an update that was
\* acknowledged is in the tables of the manifest or in a log that a restart replays, and one
\* that was reported as saved is there in the part that is on storage, without exception.
THEOREM WritesAlwaysSurvive ==
  ASSUME ReplayFaults \subseteq {"last"}
  PROVE  WriteSpec => [](WritesSurvive /\ unread = {})
<1>1. Inv /\ [WriteNext]_writeVars => Inv'
  BY InvNext, Zenon
<1> QED BY <1>1, InvInit, InvSurvives, PTL DEF WriteSpec

-----------------------------------------------------------------------------
(* What is left of the types.                                              *)

\* Who sleeps is in the queue, and a replay is a part of DB::Open.
RestInv ==
  bgError \in BOOLEAN /\ torn \in BOOLEAN /\ asleep \subseteq Range(queue) /\ (mode # "open" => replay.left = {})

LEMMA FinishRest ==
  ASSUME QueueInv, asleep \subseteq Range(queue), NEW w, NEW n \in 1..Len(queue), NEW ok, NEW promise,
         Finish(w, queue[n], ok, promise)
  PROVE  asleep' \subseteq Range(queue')
<1>1. Place(queue[n]) = n /\ queue \in Seq(Writers) /\ Len(queue) \in Nat
  BY PlaceOf DEF QueueInv
<1>2. /\ queue' = SubSeq(queue, n + 1, Len(queue)) /\ asleep' \subseteq asleep
      /\ \A k \in 1..n : queue[k] \notin asleep'
  BY <1>1, Zenon DEF Finish, Dequeue, Served
<1>3. /\ queue' \in Seq(Writers) /\ Len(queue') = Len(queue) - n
      /\ \A k \in 1..(Len(queue) - n) : queue'[k] = queue[k + n] /\ k + n \in 1..Len(queue)
  BY <1>1, <1>2, Dropped, Zenon
<1>4. ASSUME NEW v \in asleep' PROVE v \in Range(queue')
  <2>1. PICK j \in 1..Len(queue) : v = queue[j]
    BY <1>1, <1>2 DEF Range
  <2>2. j \notin 1..n
    BY <1>2, <2>1, Zenon
  <2>3. j - n \in 1..(Len(queue) - n) /\ (j - n) + n = j /\ DOMAIN queue' = 1..(Len(queue) - n)
    BY <1>1, <1>3, <2>2
  <2>4. queue'[j - n] = v
    BY <1>3, <2>1, <2>3, Zenon
  <2> QED BY <2>3, <2>4, Zenon DEF Range
<1> QED BY <1>4, Zenon

\* What a step of a call does to the queue and to those that sleep in it.
LEMMA WriterQueues ==
  ASSUME WInv, NEW w \in Writers, Write(w) \/ SyncWAL(w) \/ FlushMemTable(w) \/ Step(w)
  PROVE  \/ UNCHANGED <<queue, asleep>>
         \/ queue' = Append(queue, w) /\ asleep' \subseteq asleep \cup {w}
         \/ \E n \in 1..Len(queue) : \E ok, promise : Finish(w, queue[n], ok, promise)
<1>1. QueueInv /\ GroupInv
  BY Zenon DEF WInv
<1>2. ASSUME pc[w] \in Busy, NEW ok, NEW promise, Finish(w, w, ok, promise)
      PROVE  \E n \in 1..Len(queue) : \E o, p : Finish(w, queue[n], o, p)
  <2>1. 1 \in 1..Len(queue) /\ queue[1] = w
    BY <1>1, <1>2 DEF QueueInv
  <2> QED BY <1>2, <2>1, Zenon
<1>3. ASSUME Grouped(w), NEW ok, NEW promise, Finish(w, group.last, ok, promise)
      PROVE  \E n \in 1..Len(queue) : \E o, p : Finish(w, queue[n], o, p)
  <2>1. Len(group.ids) \in 1..Len(queue) /\ group.last = queue[Len(group.ids)]
    BY <1>1, <1>3, Zenon DEF GroupInv
  <2> QED BY <1>3, <2>1, Zenon
<1>4. /\ pc[w] = "lead" => pc[w] \in Busy
      /\ pc[w] = "sync" => pc[w] \in Busy /\ (call[w].kind = "write" => Grouped(w))
      /\ pc[w] \in {"append", "insert"} => Grouped(w)
  BY <1>1, Zenon DEF QueueInv, Grouped, Busy
<1>5. CASE Write(w) \/ SyncWAL(w) \/ FlushMemTable(w)
  <2>1. \E c : Enqueue(w, c)
    BY <1>5, Zenon DEF Write, SyncWAL, FlushMemTable
  <2>2. queue' = Append(queue, w) /\ (asleep' = asleep \/ asleep' = asleep \cup {w})
    BY <2>1, Zenon DEF Enqueue
  <2> QED BY <2>2, Zenon
<1>6. CASE WakeDone(w) \/ WakeFront(w) \/ RoomReady(w) \/ AddRecord(w) \/ SyncStart(w) \/ InsertInto(w) \/ FlushDone(w)
  <2>1. UNCHANGED <<queue, asleep>>
    BY <1>6, Zenon DEF WakeDone, WakeFront, RoomReady, BuildBatchGroup, AddRecord, LogRecord, SyncStart,
       InsertInto, FlushDone
  <2> QED BY <2>1, Zenon
<1>7. CASE RoomError(w) \/ SwitchFails(w) \/ SyncNothing(w)
  <2>1. pc[w] = "lead" /\ \E ok, promise : Finish(w, w, ok, promise)
    BY <1>7, Zenon DEF RoomError, SwitchFails, SyncNothing, Leads
  <2> QED BY <1>2, <1>4, <2>1, Zenon
<1>8. CASE SwitchMemTable(w)
  <2>1. /\ pc[w] = "lead"
        /\ \/ \E ok, promise : Finish(w, w, ok, promise)
           \/ UNCHANGED <<queue, asleep>>
    BY <1>8, Zenon DEF SwitchMemTable, SwitchWhen, BuildBatchGroup
  <2> QED BY <1>2, <1>4, <2>1, Zenon
<1>9. CASE SyncOk(w)
  <2>1. /\ pc[w] = "sync"
        /\ \/ \E ok, promise : Finish(w, w, ok, promise)
           \/ UNCHANGED <<queue, asleep>>
    BY <1>9, Zenon DEF SyncOk, Leads
  <2> QED BY <1>2, <1>4, <2>1, Zenon
<1>10. CASE SyncFails(w)
  <2>1. /\ pc[w] = "sync"
        /\ \/ call[w].kind = "write" /\ Finish(w, group.last, FALSE, {})
           \/ Finish(w, w, FALSE, {})
    BY <1>10, Zenon DEF SyncFails, Leads
  <2> QED BY <1>2, <1>3, <1>4, <2>1, Zenon
<1>11. CASE AddRecordFails(w) \/ WriteDone(w)
  <2>1. /\ pc[w] = "append" \/ pc[w] = "insert"
        /\ \E ok, promise : Finish(w, group.last, ok, promise)
    BY <1>11, Zenon DEF AddRecordFails, LogRecordFails, WriteDone, Leads
  <2>2. pc[w] \in {"append", "insert"}
    BY <2>1, Zenon
  <2> QED BY <1>3, <1>4, <2>1, <2>2, Zenon
<1> QED BY <1>5, <1>6, <1>7, <1>8, <1>9, <1>10, <1>11, Zenon DEF Step

LEMMA WriterRest ==
  ASSUME WInv, RestInv, NEW w \in Writers, Write(w) \/ SyncWAL(w) \/ FlushMemTable(w) \/ Step(w)
  PROVE  RestInv'
<1>1. UNCHANGED <<mode, replay>> /\ bgError' \in {bgError, TRUE} /\ torn' \in {torn, TRUE, FALSE}
  <2>1. CASE Write(w) \/ SyncWAL(w) \/ FlushMemTable(w)
    <3>1. \E c : Enqueue(w, c)
      BY <2>1, Zenon DEF Write, SyncWAL, FlushMemTable
    <3> QED BY <3>1, Zenon DEF Enqueue, dbVars
  <2>2. CASE WakeDone(w) \/ WakeFront(w) \/ RoomError(w) \/ RoomReady(w) \/ SwitchMemTable(w) \/ SwitchFails(w)
    BY <2>2, Zenon DEF WakeDone, WakeFront, RoomError, RoomReady, SwitchMemTable, SwitchWhen, NewLog,
       SwitchFails, dbVars
  <2>3. CASE AddRecord(w) \/ AddRecordFails(w) \/ SyncNothing(w) \/ SyncStart(w) \/ SyncOk(w) \/ SyncFails(w)
    BY <2>3, Zenon DEF AddRecord, LogRecord, AddRecordFails, LogRecordFails, SyncNothing, SyncStart, SyncOk,
       SyncFails, dbVars
  <2>4. CASE InsertInto(w) \/ WriteDone(w) \/ FlushDone(w)
    BY <2>4, Zenon DEF InsertInto, WriteDone, FlushDone, dbVars
  <2> QED BY <2>1, <2>2, <2>3, <2>4, Zenon DEF Step
<1>2. QueueInv /\ asleep \subseteq Range(queue)
  BY Zenon DEF WInv, RestInv
<1>3. asleep' \subseteq Range(queue')
  <2>1. CASE UNCHANGED <<queue, asleep>>
    BY <1>2, <2>1, Zenon
  <2>2. CASE queue' = Append(queue, w) /\ asleep' \subseteq asleep \cup {w}
    <3>1. queue \in Seq(Writers) /\ Len(queue) \in Nat /\ DOMAIN queue = 1..Len(queue)
      BY <1>2 DEF QueueInv
    <3>2. /\ DOMAIN queue' = 1..(Len(queue) + 1) /\ queue'[Len(queue) + 1] = w
          /\ \A k \in 1..Len(queue) : queue'[k] = queue[k]
      BY <2>2, <3>1
    <3>3. \A k \in 1..Len(queue) : k \in 1..(Len(queue) + 1)
      BY <3>1
    <3>4. Len(queue) + 1 \in 1..(Len(queue) + 1)
      BY <3>1
    <3>5. Range(queue) \subseteq Range(queue') /\ w \in Range(queue')
      BY <3>1, <3>2, <3>3, <3>4, Zenon DEF Range
    <3> QED BY <1>2, <2>2, <3>5, Zenon
  <2>3. CASE \E n \in 1..Len(queue) : \E ok, promise : Finish(w, queue[n], ok, promise)
    BY <1>2, <2>3, FinishRest, Zenon
  <2> QED BY <2>1, <2>2, <2>3, WriterQueues, Zenon
<1> QED BY <1>1, <1>3, Zenon DEF RestInv

LEMMA OtherRest ==
  ASSUME RestInv, Dump \/ Open \/ OpenFails \/ ProcessCrash \/ MachineCrash \/ Close
  PROVE  RestInv'
<1>1. CASE Dump
  <2>1. UNCHANGED <<mode, replay, torn, clientVars>> /\ (bgError' = bgError \/ bgError' = TRUE)
    BY <1>1, Zenon DEF Dump, DumpStart, DumpBuilt, DumpFails, DumpInstalled, InstallAnd, DumpApplyFails, dbVars
  <2>2. UNCHANGED <<queue, asleep>>
    BY <2>1, Zenon DEF clientVars
  <2> QED BY <2>1, <2>2, Zenon DEF RestInv
<1>2. CASE Open
  <2>1. UNCHANGED <<bgError, torn, clientVars>> /\ (mode' = "open" \/ replay' = NoReplay)
    BY <1>2, Zenon DEF Open, OpenStart, OpenLog, OpenLogIgnores, OpenLogFails, OpenNewLog, Replayed, OpenInstalled
  <2>2. UNCHANGED <<queue, asleep>>
    BY <2>1, Zenon DEF clientVars
  <2> QED BY <2>1, <2>2 DEF RestInv, NoReplay
<1>3. CASE OpenFails \/ ProcessCrash \/ MachineCrash \/ Close
  <2>1. Gone
    BY <1>3, Zenon DEF OpenFails, ProcessCrash, MachineCrash, Close
  <2>2. bgError' = FALSE /\ torn' = FALSE /\ asleep' = {} /\ replay' = NoReplay
    BY <2>1, Zenon DEF Gone
  <2> QED BY <2>2, Zenon DEF RestInv, NoReplay
<1> QED BY <1>1, <1>2, <1>3, Zenon
==============================================================================
