------------------------------- MODULE Manifest -------------------------------
(***************************************************************************)
(* What the files of a DB say about it, and what DB::Open makes of them    *)
(* after a crash: manifests, CURRENT, tables and logs, written by NewDB,   *)
(* by VersionSet::LogAndApply and by the builders of tables, removed by    *)
(* DeleteObsoleteFiles, and read by VersionSet::Recover.                   *)
(*                                                                         *)
(* With options_.rotating_manifest there is no CURRENT: the manifests are  *)
(* numbers 1 and 2 in turn.  An entry is its sequence number, a table or a *)
(* log is the set of its entries; levels are left out.  That LogAndApply   *)
(* is entered by one thread at a time is proved of BgCompaction; that      *)
(* unsynced log records may be lost is the subject of WritePath.           *)
(***************************************************************************)
EXTENDS Naturals, FiniteSets, Sequences, FiniteSetsExt, TLC

CONSTANTS
  None,          \* NULL
  Scenarios,     \* options and workloads to consider: the values of
                 \* rotating_manifest that DB::Open may use, whether there is a
                 \* write-ahead log, the calls clients make side by side, and
                 \* bounds on sequence numbers, on tables begun, and on
                 \* crashes and failed DB::Open
  ApplyFaults,   \* callers whose LogAndApply may fail
  IOFaults,      \* may other file operations fail?
  RetireFaults,  \* may the removal of the manifest's predecessor fail?
  TornWrites     \* may a failed LogAndApply leave a part of its record?

Calls    == {"write", "direct", "bulk", "insert", "compact", "iterate"}
Appliers == {"open", "dump", "direct", "bulk", "insert", "compact", "move"}

ASSUME OptionsAssumption ==
  /\ \A o \in Scenarios :
       /\ o.layouts \subseteq BOOLEAN /\ o.wal \in BOOLEAN /\ o.calls \subseteq Calls
       /\ {o.maxSeq, o.maxWork, o.maxCrashes} \subseteq Nat
  /\ ApplyFaults \subseteq Appliers
  /\ {IOFaults, RetireFaults, TornWrites} \subseteq BOOLEAN

VARIABLES
  opt,        \* the scenario of this behaviour
  mans,       \* disk: the manifests, and what replaying their records gives
  current,    \* disk: the manifest CURRENT names, None without CURRENT
  tables,     \* disk: the entries of each table file, {} while it is built
  logs,       \* disk: the entries of each log file
  mode,       \* "down", the steps of DB::Open, "up"
  rotating,   \* options_.rotating_manifest
  files,      \* the tables of the current version
  pin,        \* the tables of a version an iterator holds, None without one
  logNo,      \* VersionSet::log_number_
  nextFile,   \* VersionSet::next_file_number_
  lastSeq,    \* VersionSet::last_sequence_
  manNo,      \* VersionSet::manifest_file_number_
  logfile,    \* logfile_number_
  mem, imm,   \* the entries of mem_ and of imm_ (None: NULL)
  pending,    \* pending_outputs_
  bgError,    \* bg_error_ is set
  replay,     \* DBImpl::Recover: logs left, tables built, largest sequence
  dump,       \* the table CompactMemTable builds, None when it does not
  comp,       \* the compaction at work: its inputs, its output
  batch,      \* the write without memtable: the first sequence number it took
  ins,        \* the insertion at work: its caller, its table, its entries
  apply,      \* LogAndApply at work: for whom, and the version it writes
  live,       \* history: entries the DB has promised to keep
  work,       \* tables begun so far
  crashes

disk    == <<mans, current, tables, logs>>
numbers == <<logNo, nextFile, lastSeq, manNo, logfile>>
jobs    == <<dump, comp, batch, ins, apply>>
manVars == <<opt, disk, mode, rotating, files, pin, numbers, mem, imm, pending,
          bgError, replay, jobs, live, work, crashes>>

wal == opt.wal

\* Changes of a function that stands for the files of one kind.
With(f, n, x)   == [k \in DOMAIN f \cup {n} |-> IF k = n THEN x ELSE f[k]]
Without(f, del) == [k \in DOMAIN f \ del |-> f[k]]

Holds(f, ns) == UNION {f[n] : n \in ns}

-----------------------------------------------------------------------------
(* Manifests.                                                              *)

\* A manifest whose records name tables but no log, file or sequence numbers:
\* an empty file, or one with the record of WriteSnapshot.
Snapshot(fs) == [files |-> fs, log |-> 0, next |-> 0, seq |-> 0,
                 whole |-> FALSE, torn |-> FALSE, bad |-> FALSE]

\* Builder::Apply for the tables, the last record's numbers for the others.
Replay(m, e) == [files |-> (m.files \ e.del) \cup e.add,
                 log |-> e.log, next |-> e.next, seq |-> e.seq]

\* AddRecord after a record that was cut off garbles both.
AddEdit(m, e) == Replay(m, e) @@ [whole |-> TRUE, torn |-> FALSE,
                                  bad |-> m.bad \/ m.torn]

Exists == {1, 2} \cap DOMAIN mans # {} \/ current # None

\* The manifests VersionSet::Recover reads: manifests[0], [1] and [2].
Candidate(i) ==
  CASE i \in {1, 2} -> IF i \in DOMAIN mans THEN i ELSE None
    [] i = 3 -> IF current \in {1, 2} \cap DOMAIN mans THEN None ELSE current

Candidates == {Candidate(i) : i \in 1..3} \ {None}

Good(n) == n \in DOMAIN mans /\ mans[n].whole /\ ~mans[n].bad

\* One manifest that cannot be read makes Recover fail, whatever the others say.
Readable == \A n \in Candidates : Good(n)

Supersedes(m, b) == m.seq >= b.seq /\ m.next >= b.next /\ m.log >= b.log

\* A candidate is selected if it is not behind the one selected before it.
Better(best, n) ==
  IF Good(n) /\ (best = None \/ Supersedes(mans[n], mans[best])) THEN n ELSE best

Selected == Better(Better(Better(None, Candidate(1)), Candidate(2)), Candidate(3))

Blank  == [files |-> {}, log |-> 0, next |-> 4, seq |-> 0]
NewDB  == [add |-> {}, del |-> {}, log |-> 0, next |-> 4, seq |-> 0]

\* The version that the readable manifests hold.
Durable ==
  LET n == Selected
  IN  IF n = None THEN Blank
      ELSE [files |-> mans[n].files, log |-> mans[n].log,
            next |-> mans[n].next, seq |-> mans[n].seq]

LogsFrom(min) == {n \in DOMAIN logs : n >= min}

-----------------------------------------------------------------------------
NoReplay == [left |-> {}, built |-> {}, maxSeq |-> 0]

\* No file of a DB is there.
ManInit ==
  /\ opt \in Scenarios
  /\ mans = <<>> /\ current = None /\ tables = <<>> /\ logs = <<>>
  /\ mode = "down" /\ rotating = FALSE /\ files = {} /\ pin = None
  /\ logNo = 0 /\ nextFile = 0 /\ lastSeq = 0 /\ manNo = 0 /\ logfile = 0
  /\ mem = {} /\ imm = None /\ pending = {} /\ bgError = FALSE
  /\ replay = NoReplay /\ dump = None /\ comp = None /\ batch = None
  /\ ins = None /\ apply = None /\ live = {} /\ work = 0 /\ crashes = 0

\* Only the files are left of the process.
Gone ==
  /\ crashes < opt.maxCrashes /\ crashes' = crashes + 1
  /\ mode' = "down" /\ files' = {} /\ pin' = None
  /\ logNo' = 0 /\ nextFile' = 0 /\ lastSeq' = 0 /\ manNo' = 0 /\ logfile' = 0
  /\ mem' = {} /\ imm' = None /\ pending' = {} /\ bgError' = FALSE
  /\ replay' = NoReplay /\ dump' = None /\ comp' = None /\ batch' = None
  /\ ins' = None /\ apply' = None
  /\ UNCHANGED <<opt, rotating, live, work>>

-----------------------------------------------------------------------------
(* DB::Open: NewDB, VersionSet::Recover, the replay of logs.               *)

\* Where a DB is missing, NewDB starts with an empty manifest.
OpenStart ==
  /\ mode = "down" /\ crashes <= opt.maxCrashes
  /\ \E r \in opt.layouts :
       /\ rotating' = r
       /\ IF Exists
            THEN mode' = "read" /\ UNCHANGED <<mans, manNo>>
            ELSE /\ mode' = "format" /\ manNo' = IF r THEN 1 ELSE 3
                 /\ mans' = With(mans, IF r THEN 1 ELSE 3, Snapshot({}))
  /\ UNCHANGED <<opt, current, tables, logs, files, pin, logNo, nextFile,
                 lastSeq, logfile, mem, imm, pending, bgError, replay, jobs,
                 live, work, crashes>>

\* The record of the new DB is on storage.
Format ==
  /\ mode = "format"
  /\ mans' = [mans EXCEPT ![manNo] = AddEdit(@, NewDB)]
  /\ mode' = IF rotating THEN "read" ELSE "name"
  /\ UNCHANGED <<opt, current, tables, logs, rotating, files, pin, numbers, mem,
                 imm, pending, bgError, replay, jobs, live, work, crashes>>

\* SetCurrentFile for the new DB; the renaming is atomic.
FormatNamed ==
  /\ mode = "name"
  /\ current' = manNo /\ mode' = "read"
  /\ UNCHANGED <<opt, mans, tables, logs, rotating, files, pin, numbers, mem,
                 imm, pending, bgError, replay, jobs, live, work, crashes>>

FormatFails ==
  /\ IOFaults
  /\ \/ mode = "format" /\ mans' = Without(mans, {manNo})
     \/ mode = "name" /\ UNCHANGED mans
  /\ Gone
  /\ UNCHANGED <<current, tables, logs>>

\* Faulty variant: the manifest in use is written over.
NextManifestSame(n) == IF ~rotating THEN mans[n].next ELSE IF n = 1 THEN 1 ELSE 2

\* The number of the manifest that the first LogAndApply creates.
NextManifest(n) == IF ~rotating THEN mans[n].next ELSE IF n = 1 THEN 2 ELSE 1

\* The check of DBImpl::Recover looks at numbers, not at the kind of file.
Missing == Durable.files \ (DOMAIN tables \cup DOMAIN logs \cup DOMAIN mans)

OpenRead ==
  /\ mode = "read" /\ Readable /\ Missing = {}
  /\ LET m == mans[Selected]
     IN  /\ files' = m.files /\ logNo' = m.log /\ lastSeq' = m.seq
         /\ nextFile' = IF rotating THEN m.next ELSE m.next + 1
         /\ manNo' = NextManifest(Selected)
         /\ replay' = [NoReplay EXCEPT !.left = LogsFrom(m.log)]
  /\ mode' = "replay"
  /\ UNCHANGED <<opt, disk, rotating, pin, logfile, mem, imm, pending, bgError,
                 jobs, live, work, crashes>>

OpenReadFails ==
  /\ mode = "read" /\ (~Readable \/ Missing # {})
  /\ Gone
  /\ UNCHANGED disk

MarkFileNumberUsed(next, n) == IF next <= n THEN n + 1 ELSE next

\* RecoverLogFile turns the oldest log left into a table, if it has entries.
OpenLog ==
  /\ mode = "replay" /\ replay.left # {}
  /\ LET n == Min(replay.left)
     IN  IF logs[n] = {}
           THEN /\ replay' = [replay EXCEPT !.left = @ \ {n}]
                /\ nextFile' = MarkFileNumberUsed(nextFile, n)
                /\ UNCHANGED tables
           ELSE /\ replay' = [left   |-> replay.left \ {n},
                              built  |-> replay.built \cup {nextFile},
                              maxSeq |-> Max(logs[n] \cup {replay.maxSeq})]
                /\ nextFile' = MarkFileNumberUsed(nextFile + 1, n)
                /\ tables' = With(tables, nextFile, logs[n])
  /\ UNCHANGED <<opt, mans, current, logs, mode, rotating, files, pin, logNo,
                 lastSeq, manNo, logfile, mem, imm, pending, bgError, jobs,
                 live, work, crashes>>

\* The replay of the last log fails; BuildTable removes its table.
OpenLogFails ==
  /\ mode = "replay" /\ Cardinality(replay.left) = 1 /\ IOFaults
  /\ Gone
  /\ tables' = Without(tables, {nextFile})
  /\ UNCHANGED <<mans, current, logs>>

-----------------------------------------------------------------------------
(* VersionSet::LogAndApply.                                                *)

\* The edit takes the numbers of the moment LogAndApply is called.
LogAndApply(by, add, del, log, next, seq) ==
  apply' = [by |-> by, edit |-> [add |-> add, del |-> del, log |-> log,
                                 next |-> next, seq |-> seq]]

\* DB::Open creates its log; LogAndApply then creates the manifest and writes
\* the tables of the version before the edit.
OpenApply ==
  /\ mode = "replay" /\ replay.left = {}
  /\ lastSeq' = Max({lastSeq, replay.maxSeq})
  /\ IF wal THEN /\ logfile' = nextFile /\ nextFile' = nextFile + 1
                 /\ logs' = With(logs, nextFile, {})
            ELSE UNCHANGED <<logfile, nextFile, logs>>
  /\ LogAndApply("open", replay.built, {}, IF wal THEN logfile' ELSE logNo,
                 nextFile', lastSeq')
  /\ mans' = With(mans, manNo, Snapshot(files))
  /\ mode' = "write"
  /\ UNCHANGED <<opt, current, tables, rotating, files, pin, logNo, manNo, mem,
                 imm, pending, bgError, replay, dump, comp, batch, ins, live,
                 work, crashes>>

\* The log or the manifest cannot be created.
OpenApplyFails ==
  /\ mode = "replay" /\ replay.left = {} /\ IOFaults
  /\ Gone
  /\ \/ logs' = IF wal THEN With(logs, nextFile, {}) ELSE logs
     \/ UNCHANGED logs
  /\ UNCHANGED <<mans, current, tables>>

\* The record of the edit is on storage.
OpenWrite ==
  /\ mode = "write"
  /\ mans' = [mans EXCEPT ![manNo] = AddEdit(@, apply.edit)]
  /\ mode' = IF rotating THEN "retire" ELSE "point"
  /\ UNCHANGED <<opt, current, tables, logs, rotating, files, pin, numbers, mem,
                 imm, pending, bgError, replay, jobs, live, work, crashes>>

\* SetCurrentFile installs the manifest.
OpenPoint ==
  /\ mode = "point"
  /\ current' = manNo /\ mode' = "install"
  /\ UNCHANGED <<opt, mans, tables, logs, rotating, files, pin, numbers, mem,
                 imm, pending, bgError, replay, jobs, live, work, crashes>>

\* The other manifest goes first, then CURRENT; failures are ignored.
Retired(old, new) == IF RetireFaults THEN {old, new} ELSE {new}

OpenRetire ==
  /\ mode = "retire" /\ mode' = "unname"
  /\ mans' \in Retired(mans, Without(mans, {3 - manNo}))
  /\ UNCHANGED <<opt, current, tables, logs, rotating, files, pin, numbers, mem,
                 imm, pending, bgError, replay, jobs, live, work, crashes>>

OpenUnname ==
  /\ mode = "unname" /\ mode' = "install"
  /\ current' \in Retired(current, None)
  /\ UNCHANGED <<opt, mans, tables, logs, rotating, files, pin, numbers, mem,
                 imm, pending, bgError, replay, jobs, live, work, crashes>>

\* A manifest that was not installed is removed again.
OpenWriteFails ==
  /\ mode \in {"write", "point"} /\ "open" \in ApplyFaults
  /\ mans' = Without(mans, {manNo})
  /\ Gone
  /\ UNCHANGED <<current, tables, logs>>

-----------------------------------------------------------------------------
(* DeleteObsoleteFiles, and the end of DB::Open.                           *)

\* Faulty variant: files held by iterators are not kept.
LiveCurrent(fs, out) == fs \cup out

LiveTables(fs, out) == fs \cup out \cup (IF pin = None THEN {} ELSE pin)

\* A file that cannot be removed is left.
Removed(doomed) == IF IOFaults THEN SUBSET doomed ELSE {doomed}

ObsoleteManifests(ms) == {n \in DOMAIN ms : n < manNo}

\* After the manifests have become ms, the version fs with log number log, and
\* pending_outputs_ out.
DeleteObsoleteFiles(ms, fs, log, out) ==
  IF bgError THEN mans' = ms /\ UNCHANGED <<tables, logs>>
  ELSE /\ \E gone \in Removed(ObsoleteManifests(ms)) :
            mans' = Without(ms, gone)
       /\ \E gone \in Removed(DOMAIN tables \ LiveTables(fs, out)) :
            tables' = Without(tables, gone)
       /\ \E gone \in Removed({n \in DOMAIN logs : n < log}) :
            logs' = Without(logs, gone)

\* The version that LogAndApply installs.
Installed == Replay([files |-> files], apply.edit)

OpenInstall ==
  /\ mode = "install" /\ mode' = "up"
  /\ files' = Installed.files /\ logNo' = Installed.log
  /\ DeleteObsoleteFiles(mans, files', logNo', {})
  /\ apply' = None /\ replay' = NoReplay
  /\ UNCHANGED <<opt, current, rotating, pin, nextFile, lastSeq, manNo, logfile,
                 mem, imm, pending, bgError, dump, comp, batch, ins, live, work,
                 crashes>>

-----------------------------------------------------------------------------
(* Writes with a memtable, and its dump.                                   *)

Up == mode = "up"

Write ==
  /\ Up /\ "write" \in opt.calls /\ ~bgError /\ lastSeq < opt.maxSeq
  /\ lastSeq' = lastSeq + 1
  /\ mem' = mem \cup {lastSeq'}
  /\ IF wal THEN /\ logs' = [logs EXCEPT ![logfile] = @ \cup {lastSeq'}]
                 /\ live' = live \cup {lastSeq'}
            ELSE UNCHANGED <<logs, live>>
  /\ UNCHANGED <<opt, mans, current, tables, mode, rotating, files, pin, logNo,
                 nextFile, manNo, logfile, imm, pending, bgError, replay, jobs,
                 work, crashes>>

\* MakeRoomForWrite; mem_ may be full after any write.
SwitchMemTable ==
  /\ Up /\ ~bgError /\ mem # {} /\ imm = None
  /\ imm' = mem /\ mem' = {}
  /\ IF wal THEN /\ logfile' = nextFile /\ nextFile' = nextFile + 1
                 /\ logs' = With(logs, nextFile, {})
            ELSE UNCHANGED <<logfile, nextFile, logs>>
  /\ UNCHANGED <<opt, mans, current, tables, mode, rotating, files, pin, logNo,
                 lastSeq, manNo, pending, bgError, replay, jobs, live, work, crashes>>

\* The work item is at a point where it may start, or go on with, a job.
Free == Up /\ dump = None /\ ins = None /\ apply = None

\* WriteLevel0Table.  A compaction at work dumps imm_ even after an error.
DumpStart ==
  /\ Free /\ imm # None /\ (bgError => comp # None)
  /\ work < opt.maxWork /\ work' = work + 1
  /\ dump' = nextFile /\ nextFile' = nextFile + 1
  /\ pending' = pending \cup {nextFile}
  /\ tables' = With(tables, nextFile, {})
  /\ UNCHANGED <<opt, mans, current, logs, mode, rotating, files, pin, logNo,
                 lastSeq, manNo, logfile, mem, imm, bgError, replay, comp,
                 batch, ins, apply, live, crashes>>

\* The table is on storage; the logs before logfile_number_ become obsolete.
DumpBuilt ==
  /\ Up /\ dump # None
  /\ tables' = [tables EXCEPT ![dump] = imm]
  /\ pending' = pending \ {dump} /\ dump' = None
  /\ LogAndApply("dump", {dump}, {}, IF wal THEN logfile ELSE logNo,
                 nextFile, lastSeq)
  /\ UNCHANGED <<opt, mans, current, logs, mode, rotating, files, pin, numbers,
                 mem, imm, bgError, replay, comp, batch, ins, live, work, crashes>>

DumpFails ==
  /\ Up /\ dump # None /\ IOFaults
  /\ tables' = Without(tables, {dump})
  /\ pending' = pending \ {dump} /\ dump' = None /\ bgError' = TRUE
  /\ UNCHANGED <<opt, mans, current, logs, mode, rotating, files, pin, numbers,
                 mem, imm, replay, comp, batch, ins, apply, live, work,
                 crashes>>

Written == [mans EXCEPT ![manNo] = AddEdit(@, apply.edit)]

\* The record is on storage and the version installed.
Install == files' = Installed.files /\ logNo' = Installed.log /\ apply' = None

Applying(by) == Up /\ apply # None /\ apply.by = by

DumpDone ==
  /\ Applying("dump")
  /\ Install
  /\ imm' = None
  /\ live' = live \cup imm
  /\ DeleteObsoleteFiles(Written, files', logNo', pending)
  /\ UNCHANGED <<opt, current, mode, rotating, pin, nextFile, lastSeq, manNo,
                 logfile, mem, pending, bgError, replay, dump, comp, batch, ins,
                 work, crashes>>

-----------------------------------------------------------------------------
(* Compactions.                                                            *)

\* PickCompaction or CompactRange choose the inputs.
CompactStart ==
  /\ Free /\ "compact" \in opt.calls /\ comp = None /\ ~bgError
  /\ \E in \in SUBSET files \ {{}} : comp' = [in |-> in, out |-> {}]
  /\ UNCHANGED <<opt, disk, mode, rotating, files, pin, numbers, mem, imm,
                 pending, bgError, replay, dump, batch, ins, apply, live, work,
                 crashes>>

OpenCompactionOutputFile ==
  /\ Free /\ comp # None /\ comp.out = {}
  /\ work < opt.maxWork /\ work' = work + 1
  /\ comp' = [comp EXCEPT !.out = {nextFile}] /\ nextFile' = nextFile + 1
  /\ pending' = pending \cup {nextFile}
  /\ tables' = With(tables, nextFile, {})
  /\ UNCHANGED <<opt, mans, current, logs, mode, rotating, files, pin, logNo,
                 lastSeq, manNo, logfile, mem, imm, bgError, replay, dump,
                 batch, ins, apply, live, crashes>>

\* The output holds all entries of the inputs.  Without an output each of them
\* was deleted or overwritten, and is no longer promised.
CompactTo(log) ==
  /\ Free /\ comp # None
  /\ tables' = [n \in DOMAIN tables |->
                  IF n \in comp.out THEN Holds(tables, comp.in) ELSE tables[n]]
  /\ live' = IF comp.out = {} THEN live \ Holds(tables, comp.in) ELSE live
  /\ LogAndApply("compact", comp.out, comp.in, log, nextFile, lastSeq)
  /\ UNCHANGED <<opt, mans, current, logs, mode, rotating, files, pin, numbers,
                 mem, imm, pending, bgError, replay, dump, comp, batch, ins,
                 work, crashes>>

\* Faulty variant: the log of imm_ is given up, as after a dump.
InstallAheadOfDump == CompactTo(IF wal THEN logfile ELSE logNo)

InstallCompactionResults == CompactTo(logNo)

CompactDone ==
  /\ Applying("compact")
  /\ Install
  /\ comp' = None /\ pending' = pending \ comp.out
  /\ DeleteObsoleteFiles(Written, files', logNo', pending')
  /\ UNCHANGED <<opt, current, mode, rotating, pin, nextFile, lastSeq, manNo,
                 logfile, mem, imm, bgError, replay, dump, batch, ins, live,
                 work, crashes>>

\* DoCompactionWork fails before its LogAndApply.
CompactFails ==
  /\ Free /\ comp # None /\ IOFaults
  /\ comp' = None /\ pending' = pending \ comp.out /\ bgError' = TRUE
  /\ UNCHANGED <<opt, disk, mode, rotating, files, pin, numbers, mem, imm,
                 replay, dump, batch, ins, apply, live, work, crashes>>

\* A trivial move takes a table to another level.
MoveStart ==
  /\ Free /\ "compact" \in opt.calls /\ comp = None /\ ~bgError /\ files # {}
  /\ LogAndApply("move", {}, {}, logNo, nextFile, lastSeq)
  /\ UNCHANGED <<opt, disk, mode, rotating, files, pin, numbers, mem, imm,
                 pending, bgError, replay, dump, comp, batch, ins, live, work,
                 crashes>>

MoveDone ==
  /\ Applying("move")
  /\ Install
  /\ mans' = Written
  /\ UNCHANGED <<opt, current, tables, logs, mode, rotating, pin, nextFile,
                 lastSeq, manNo, logfile, mem, imm, pending, bgError, replay,
                 dump, comp, batch, ins, live, work, crashes>>

-----------------------------------------------------------------------------
(* Tables made outside the memtable: Write without a memtable, BulkInsert  *)
(* and AddL0Tables.  They pause the work item.                             *)

\* Write takes its sequence number before it waits for other insertions.
DirectWrite ==
  /\ Up /\ "direct" \in opt.calls /\ lastSeq < opt.maxSeq
  /\ batch = None /\ ~bgError
  /\ batch' = lastSeq + 1
  /\ UNCHANGED <<opt, disk, mode, rotating, files, pin, numbers, mem, imm,
                 pending, bgError, replay, dump, comp, ins, apply, live, work,
                 crashes>>

\* WriteLevel0Table and MigrateLevel0Table start with a new number.
InsertBegin(by, entries) ==
  /\ Free /\ work < opt.maxWork /\ work' = work + 1
  /\ ins' = [by |-> by, table |-> nextFile, entries |-> entries]
  /\ nextFile' = nextFile + 1 /\ pending' = pending \cup {nextFile}
  /\ tables' = With(tables, nextFile, {})
  /\ UNCHANGED <<opt, mans, current, logs, mode, rotating, files, pin, logNo,
                 lastSeq, manNo, logfile, mem, imm, bgError, replay, dump, comp,
                 batch, apply, live, crashes>>

DirectEnter == batch # None /\ InsertBegin("direct", {batch})

BulkInsert ==
  /\ "bulk" \in opt.calls /\ lastSeq < opt.maxSeq
  /\ InsertBegin("bulk", {lastSeq + 1})

AddL0Tables ==
  /\ "insert" \in opt.calls /\ lastSeq + 1 < opt.maxSeq
  /\ InsertBegin("insert", {})

Inserting(by) == Up /\ ins # None /\ apply = None /\ ins.by = by

InsertTable(entries, out, seq) ==
  /\ tables' = [tables EXCEPT ![ins.table] = entries]
  /\ ins' = [ins EXCEPT !.entries = entries]
  /\ pending' = out /\ lastSeq' = seq
  /\ LogAndApply(ins.by, {ins.table}, {}, logNo, nextFile, seq)
  /\ UNCHANGED <<opt, mans, current, logs, mode, rotating, files, pin, logNo,
                 nextFile, manNo, logfile, mem, imm, bgError, replay, dump,
                 comp, batch, live, work, crashes>>

DirectBuilt ==
  /\ Inserting("direct")
  /\ InsertTable(ins.entries, pending \ {ins.table}, batch)

BulkBuilt ==
  /\ Inserting("bulk")
  /\ InsertTable(ins.entries, pending \ {ins.table}, Max(ins.entries \cup {lastSeq}))

\* InsertLevel0Tables gives the entries the numbers that follow.
InsertBuilt ==
  /\ Inserting("insert")
  /\ InsertTable({lastSeq + 1}, pending, lastSeq)

\* After LogAndApply, AddL0Tables goes to the number it would have used next.
InsertDone ==
  /\ Up /\ apply # None /\ ins # None
  /\ Install
  /\ mans' = Written
  /\ lastSeq' = IF ins.by = "insert" THEN Max(ins.entries) + 1 ELSE lastSeq
  /\ pending' = pending \ {ins.table} /\ ins' = None
  /\ batch' = IF ins.by = "direct" THEN None ELSE batch
  /\ live' = live \cup ins.entries
  /\ UNCHANGED <<opt, current, tables, logs, mode, rotating, pin, nextFile,
                 manNo, logfile, mem, imm, bgError, replay, dump, comp, work,
                 crashes>>

\* BuildTable removes its file.  MigrateLevel0Table leaves what it has copied and
\* may return the number; its failure is not a background error.
InsertFails ==
  /\ Up /\ ins # None /\ apply = None /\ IOFaults
  /\ pending' = pending \ {ins.table} /\ ins' = None
  /\ batch' = IF ins.by = "direct" THEN None ELSE batch
  /\ IF ins.by = "insert"
       THEN /\ nextFile' = IF nextFile = ins.table + 1 THEN ins.table ELSE nextFile
            /\ UNCHANGED <<tables, bgError>>
       ELSE /\ tables' = Without(tables, {ins.table})
            /\ bgError' = TRUE /\ UNCHANGED nextFile
  /\ UNCHANGED <<opt, mans, current, logs, mode, rotating, files, pin, logNo,
                 lastSeq, manNo, logfile, mem, imm, replay, dump, comp, apply,
                 live, work, crashes>>

-----------------------------------------------------------------------------
(* LogAndApply reports an error: its record may be in the manifest, or a   *)
(* part of it.  The no-memtable Write and AddL0Tables just return it.      *)

Attempted ==
  {mans, Written} \cup
    (IF TornWrites THEN {[mans EXCEPT ![manNo].torn = TRUE]} ELSE {})

ApplyFails ==
  /\ Up /\ apply # None /\ apply.by \in ApplyFaults
  /\ mans' \in Attempted
  /\ apply' = None
  /\ bgError' = (bgError \/ apply.by \notin {"direct", "insert"})
  /\ comp' = IF apply.by = "compact" THEN None ELSE comp
  /\ ins' = None
  /\ batch' = IF apply.by = "direct" THEN None ELSE batch
  /\ pending' = pending \ ((IF apply.by = "compact" THEN comp.out ELSE {})
                             \cup (IF ins = None THEN {} ELSE {ins.table}))
  /\ UNCHANGED <<opt, current, tables, logs, mode, rotating, files, pin,
                 numbers, mem, imm, replay, dump, live, work, crashes>>

\* An iterator holds the version it started with.
NewIterator ==
  /\ Up /\ "iterate" \in opt.calls /\ pin = None /\ files # {}
  /\ pin' = files
  /\ UNCHANGED <<opt, disk, mode, rotating, files, numbers, mem, imm, pending,
                 bgError, replay, jobs, live, work, crashes>>

CleanupIteratorState ==
  /\ Up /\ pin # None
  /\ pin' = None
  /\ UNCHANGED <<opt, disk, mode, rotating, files, numbers, mem, imm, pending,
                 bgError, replay, jobs, live, work, crashes>>

\* The process or the machine dies.  What was synced and the names of files are
\* on storage; a record being added may or may not be.
Crash ==
  /\ mode # "down"
  /\ mans' \in IF Up /\ apply # None THEN {mans, Written} ELSE {mans}
  /\ Gone
  /\ UNCHANGED <<current, tables, logs>>

-----------------------------------------------------------------------------
Open ==
  \/ OpenStart \/ Format \/ FormatNamed \/ FormatFails
  \/ OpenRead \/ OpenReadFails \/ OpenLog \/ OpenLogFails
  \/ OpenApply \/ OpenApplyFails \/ OpenWrite \/ OpenPoint \/ OpenRetire \/ OpenUnname
  \/ OpenWriteFails \/ OpenInstall

Dump == DumpStart \/ DumpBuilt \/ DumpFails \/ DumpDone

Compaction ==
  \/ CompactStart \/ OpenCompactionOutputFile \/ InstallCompactionResults
  \/ CompactDone \/ CompactFails \/ MoveStart \/ MoveDone

Insertion ==
  \/ DirectWrite \/ DirectEnter \/ BulkInsert \/ AddL0Tables
  \/ DirectBuilt \/ BulkBuilt \/ InsertBuilt \/ InsertDone \/ InsertFails

ManNext ==
  \/ Open \/ Write \/ SwitchMemTable \/ Dump \/ Compaction \/ Insertion
  \/ ApplyFails \/ NewIterator \/ CleanupIteratorState \/ Crash

ManSpec == ManInit /\ [][ManNext]_manVars

-----------------------------------------------------------------------------
(* Properties                                                              *)

Modes == {"down", "format", "name", "read", "replay", "write", "point", "retire",
          "unname", "install", "up"}

\* Every number in use has been allocated: it is below next_file_number_, and
\* each job has its table in pending_outputs_ until it calls LogAndApply.
ManTypeOK ==
  /\ opt \in Scenarios /\ mode \in Modes /\ {rotating, bgError} \subseteq BOOLEAN
  /\ files \cup pending \subseteq DOMAIN tables
  /\ Up => files \cup pending \cup {logNo, logfile} \subseteq 0..(nextFile - 1)
  /\ dump # None => dump \in pending
  /\ comp # None => comp.in \subseteq files /\ comp.out \subseteq pending
  /\ ins # None /\ apply = None => ins.table \in pending

\* A DB that uses CURRENT can be opened again whenever it stops: VersionSet::Recover
\* can read every manifest it looks at, and each table of the version it selects
\* is there.
Reopens ==
  opt.layouts = {FALSE} /\ Exists =>
    Readable /\ Durable.files \subseteq DOMAIN tables

\* Whatever was promised is in the tables of the last durable version or in a
\* log that DB::Open will replay, at every step of LogAndApply, of the creation
\* of a manifest in either layout, and of the removal of files.
NothingLost ==
  live \subseteq Holds(tables, Durable.files \cap DOMAIN tables)
                   \cup Holds(logs, LogsFrom(Durable.log))

\* The durable version changes only by the edit that LogAndApply is writing, all
\* of it at once; creating, naming and removing manifests leaves it as it is.
CommitsAtomically ==
  [][\/ Durable' = Durable
     \/ apply # None /\ Durable' = Replay(Durable, apply.edit)]_manVars

\* No step overwrites or removes a table that the current version names or that
\* an iterator holds, whatever DeleteObsoleteFiles and the reuse of file numbers do.
TablesKept ==
  [][Up /\ Up' =>
       \A n \in (files \cap files') \cup (IF None \in {pin, pin'} THEN {} ELSE pin) :
         n \in DOMAIN tables' /\ tables'[n] = tables[n]]_manVars

\* After a restart no entry of a table or of a replayed log lies beyond the last
\* sequence number, where a reader would not see it and a writer would use its
\* number again.  InsertLevel0Tables is exempt: it advances the number only after
\* LogAndApply, so that its record holds the old one.
SequencesCovered ==
  "insert" \notin opt.calls =>
    Holds(tables, Durable.files \cap DOMAIN tables) \subseteq 0..Durable.seq
=============================================================================
