------------------------------ MODULE WritePath ------------------------------
(***************************************************************************)
(* How a DB with memtables commits writes, and what is left of them after  *)
(* a crash: the queue of writers and its group commit (DBImpl::Write), the *)
(* write-ahead log, the switch of memtables (MakeRoomForWrite), the dump   *)
(* of the old one with its new log number (CompactMemTable), the removal   *)
(* of logs, and DB::Open with the replay of the logs that are left.        *)
(*                                                                         *)
(* An update is a WriteBatch of two entries, known by the order of the     *)
(* calls.  An entry [seq, id] is one Put or Delete with its sequence       *)
(* number.  A table, a memtable and the levels are the sets of entries in  *)
(* them.  The limits on level-0 files and the scheduling of the dump are   *)
(* the subject of BgCompaction.                                            *)
(***************************************************************************)
EXTENDS Integers, Sequences, FiniteSets, Functions

CONSTANTS
  Writers,         \* threads that call into the DB
  None,            \* NULL
  Wals,            \* values of !options_.disable_write_ahead_log to consider
  MaxUpdates,      \* bound: updates issued in a behaviour
  MaxSyncs,        \* bound: SyncWAL and FlushMemTable calls in a behaviour
  MaxCrashes,      \* bound: crashes, closes and failed DB::Open in a behaviour
  BufferSize,      \* write_buffer_size, in entries
  IOFaults,        \* may log, table and manifest operations fail?
  ReplayFaults     \* what may go wrong in a replay: that of the "last" log or of an
                   \* "earlier" one fails, an error is "ignored" (paranoid_checks
                   \* off), a record "behind" a failed append is not found

ASSUME BoundsAssumption ==
  /\ Wals \subseteq BOOLEAN
  /\ {MaxUpdates, MaxSyncs, MaxCrashes, BufferSize} \subseteq Nat
  /\ IOFaults \in BOOLEAN /\ ReplayFaults \subseteq {"last", "earlier", "ignored", "behind"}

\* Entries of memtables, logs and tables, and log records.
Entry  == [seq : Nat, id : 1..MaxUpdates]
Record == [seq : Nat, ids : Seq(1..MaxUpdates)]

ASSUME NoneAssumption ==
  /\ None \notin Writers \cup {"ok", "error"}
  /\ None \notin [log : Nat, next : Nat, seq : Nat, tables : SUBSET Entry]

VARIABLES
  wal,        \* is there a write-ahead log?
  mode,       \* "down", "open" (inside DB::Open), "up"
  pc,         \* where a writer's call is, at the points where mutex_ is free
  call,       \* the call: its kind, WriteOptions::sync, its update
  queue,      \* writers_
  asleep,     \* writers blocked on their own condition variable
  result,     \* Writer::status, None until Writer::done
  group,      \* the group being committed: updates, first sequence, last writer
  todo,       \* entries of the group not yet in mem_
  mem, imm,   \* the entries of mem_; {}, or the set of the entries of imm_
  lastSeq,    \* VersionSet::last_sequence_
  nextFile,   \* VersionSet::next_file_number_
  logNo,      \* logfile_number_
  version,    \* the current version: log_number_ and the entries of its tables
  edit,       \* the edit LogAndApply is writing, and None when it is not
  dump,       \* CompactMemTable: "idle", "build" or "apply"
  bgError,    \* bg_error_ is set
  torn,       \* an append to the log in use has failed
  replay,     \* DBImpl::Recover: logs left, tables built, largest sequence, status;
              \* history: did the replay of a log fail?
  logs,       \* disk: the log files, the records a reader finds in them and how many of
              \* those are on storage
  manifest,   \* disk: the last edit of the current manifest
  acked,      \* history: updates whose call returned OK and that no crash took
  promised,   \* history: updates acknowledged as on storage, and that no crash took
  unread,     \* history: updates in no table, with a log record that no replay finds
  flushing,   \* history: the updates a FlushMemTable call must save
  updates, syncs, crashes

clientVars == <<pc, call, queue, asleep, result, group, todo, flushing>>
dbVars     == <<mem, imm, lastSeq, nextFile, logNo, version, edit, dump, bgError, torn>>
disk       == <<logs, manifest>>
history    == <<acked, promised, unread>>
counts     == <<updates, syncs, crashes>>
writeVars == <<wal, mode, clientVars, dbVars, replay, disk, history, counts>>

Outcomes == IF IOFaults THEN BOOLEAN ELSE {TRUE}

-----------------------------------------------------------------------------
(* Updates, log records and what they hold.                                *)

\* WriteBatchInternal::InsertInto numbers the entries of a batch (or of the
\* batches appended to tmp_batch_) from the sequence number in its header.
EntrySeq(rec) ==
  [k \in 1..(2 * Len(rec.ids)) |-> [seq |-> rec.seq + k - 1, id |-> rec.ids[(k + 1) \div 2]]]
EntriesOf(rec) == Range(EntrySeq(rec))
LastOf(rec) == rec.seq + 2 * Len(rec.ids) - 1

LogEntries(recs) == UNION {EntriesOf(recs[k]) : k \in DOMAIN recs}
Ids(entries) == {e.id : e \in entries}

\* Faulty variant: the log the manifest names is taken for an obsolete one.
LaterLogs == {n \in DOMAIN logs : n > manifest.log}

\* The logs DBImpl::Recover replays: those the manifest does not rule out.
LogsToReplay == {n \in DOMAIN logs : n >= manifest.log}

LiveLogs == {n \in DOMAIN logs : n >= manifest.log}

\* What a restart finds if only the process dies, and if the machine does.
Surviving ==
  manifest.tables \cup UNION {LogEntries(logs[n].recs) : n \in LiveLogs}
OnStorage ==
  manifest.tables \cup
    UNION {LogEntries(SubSeq(logs[n].recs, 1, logs[n].synced)) : n \in LiveLogs}

\* The entries a Get or an iterator searches, and the ones it may return.
Frozen  == UNION imm
View    == mem \cup Frozen \cup version.tables
Visible == {e \in View : e.seq <= lastSeq}

-----------------------------------------------------------------------------
NoCall   == [kind |-> "none", sync |-> FALSE, id |-> 0]
NoGroup  == [ids |-> <<>>, seq |-> 0, last |-> None]
NoReplay == [left |-> {}, tables |-> {}, maxSeq |-> 0, ok |-> TRUE, failed |-> FALSE]
EmptyLog == [recs |-> <<>>, synced |-> 0]

\* A DB that NewDB has formatted and that is about to be opened.
WriteInit ==
  /\ wal \in Wals /\ mode = "down"
  /\ pc = [w \in Writers |-> "idle"] /\ call = [w \in Writers |-> NoCall]
  /\ queue = <<>> /\ asleep = {} /\ result = [w \in Writers |-> None]
  /\ group = NoGroup /\ todo = <<>> /\ flushing = [w \in Writers |-> {}]
  /\ mem = {} /\ imm = {} /\ lastSeq = 0 /\ nextFile = 0 /\ logNo = 0
  /\ version = [log |-> 0, tables |-> {}] /\ edit = None /\ dump = "idle"
  /\ bgError = FALSE /\ torn = FALSE /\ replay = NoReplay
  /\ logs = <<>> /\ manifest = [log |-> 0, next |-> 4, seq |-> 0, tables |-> {}]
  /\ acked = {} /\ promised = {} /\ unread = {} /\ updates = 0 /\ syncs = 0 /\ crashes = 0

-----------------------------------------------------------------------------
(* DBImpl::Write.  A call takes its place in the queue and sleeps unless   *)
(* it is the first; the first commits for a stretch of the queue.          *)

Enqueue(w, c) ==
  /\ mode = "up" /\ pc[w] = "idle"
  /\ call' = [call EXCEPT ![w] = c]
  /\ queue' = Append(queue, w)
  /\ IF queue = <<>>
       THEN pc' = [pc EXCEPT ![w] = "lead"] /\ UNCHANGED asleep
       ELSE pc' = [pc EXCEPT ![w] = "wait"] /\ asleep' = asleep \cup {w}
  /\ UNCHANGED <<wal, mode, result, group, todo, dbVars, replay, disk, history,
                 crashes>>

Write(w) ==
  /\ updates < MaxUpdates
  /\ updates' = updates + 1
  /\ \E s \in BOOLEAN :
       Enqueue(w, [kind |-> "write", sync |-> s, id |-> updates + 1])
  /\ UNCHANGED <<syncs, flushing>>

SyncWAL(w) ==
  /\ syncs < MaxSyncs
  /\ syncs' = syncs + 1
  /\ Enqueue(w, [kind |-> "sync", sync |-> FALSE, id |-> 0])
  /\ UNCHANGED <<updates, flushing>>

FlushMemTable(w) ==
  /\ syncs < MaxSyncs
  /\ syncs' = syncs + 1
  /\ Enqueue(w, [kind |-> "flush", sync |-> FALSE, id |-> 0])
  /\ flushing' = [flushing EXCEPT ![w] = acked]
  /\ UNCHANGED updates

Idle(w) ==
  /\ pc' = [pc EXCEPT ![w] = "idle"]
  /\ call' = [call EXCEPT ![w] = NoCall]
  /\ flushing' = [flushing EXCEPT ![w] = {}]

\* A writer that was signalled finds its write done, or itself in front.
WakeDone(w) ==
  /\ pc[w] = "wait" /\ w \notin asleep /\ result[w] # None
  /\ result' = [result EXCEPT ![w] = None]
  /\ Idle(w)
  /\ UNCHANGED <<wal, mode, queue, asleep, group, todo, dbVars, replay, disk,
                 history, counts>>

WakeFront(w) ==
  /\ pc[w] = "wait" /\ w \notin asleep /\ result[w] = None /\ Head(queue) = w
  /\ pc' = [pc EXCEPT ![w] = "lead"]
  /\ UNCHANGED <<wal, mode, call, queue, asleep, result, group, todo, flushing,
                 dbVars, replay, disk, history, counts>>

Place(w) == CHOOSE k \in DOMAIN queue : queue[k] = w

\* The tail of Write: the writers up to last leave the queue with the status;
\* they and the next in line are signalled.
Dequeue(w, last, ok, promise) ==
  LET n       == Place(last)
      served  == {queue[k] : k \in 2..n}
      updated == {call[v].id : v \in served \cup {w}} \ {0}
  IN  /\ queue' = SubSeq(queue, n + 1, Len(queue))
      /\ result' = [v \in Writers |->
                      IF v \in served THEN (IF ok THEN "ok" ELSE "error")
                      ELSE result[v]]
      /\ group' = NoGroup /\ todo' = <<>>
      /\ IF ok /\ call[w].kind = "flush"
           THEN /\ pc' = [pc EXCEPT ![w] = "flush"]
                /\ UNCHANGED <<call, flushing>>
           ELSE Idle(w)
      /\ acked' = IF ok THEN acked \cup updated ELSE acked
      /\ promised' = IF ok THEN promised \cup promise ELSE promised
      /\ UNCHANGED unread

Served(last) == {queue[k] : k \in 1..Place(last)}
NextInLine(last) ==
  {queue[k] : k \in {n \in DOMAIN queue : n = Place(last) + 1}}

\* Faulty variant: the next in line is not signalled.
FinishAlone(w, last, ok, promise) ==
  Dequeue(w, last, ok, promise) /\ asleep' = asleep \ Served(last)

Finish(w, last, ok, promise) ==
  /\ Dequeue(w, last, ok, promise)
  /\ asleep' = asleep \ (Served(last) \cup NextInLine(last))

-----------------------------------------------------------------------------
(* MakeRoomForWrite and BuildBatchGroup, in one critical section.          *)

\* The writers one record may hold besides the first.
Joins(first, v) == call[v].kind = "write" /\ (call[v].sync => call[first].sync)
GroupSizes(w) ==
  {n \in DOMAIN queue : \A k \in 2..n : Joins(w, queue[k])}

\* The size limit may close the group after any batch.
BuildBatchGroup(w) ==
  \E n \in GroupSizes(w) :
    /\ group' = [ids |-> [k \in 1..n |-> call[queue[k]].id],
                 seq |-> lastSeq + 1, last |-> queue[n]]
    /\ todo' = EntrySeq(group')
    /\ pc' = [pc EXCEPT ![w] = IF wal THEN "append" ELSE "insert"]
    /\ UNCHANGED <<call, queue, asleep, result, flushing, history>>

HasRoom(w) == call[w].kind # "flush" /\ Cardinality(mem) <= BufferSize

RoomError(w) ==
  /\ pc[w] = "lead" /\ call[w].kind # "sync" /\ bgError
  /\ Finish(w, w, FALSE, {})
  /\ UNCHANGED <<wal, mode, dbVars, replay, disk, counts>>

RoomReady(w) ==
  /\ pc[w] = "lead" /\ call[w].kind = "write" /\ ~bgError /\ HasRoom(w)
  /\ BuildBatchGroup(w)
  /\ UNCHANGED <<wal, mode, dbVars, replay, disk, counts>>

\* The old log is closed, perhaps after a last sync (sync_log_on_close).
NewLog ==
  IF ~wal THEN UNCHANGED <<logs, logNo, nextFile, torn>>
  ELSE /\ logNo' = nextFile /\ nextFile' = nextFile + 1 /\ torn' = FALSE
       /\ \E n \in {logs[logNo].synced, Len(logs[logNo].recs)} :
            logs' = [k \in DOMAIN logs \cup {nextFile} |->
                       IF k = nextFile THEN EmptyLog
                       ELSE IF k = logNo THEN [recs |-> logs[k].recs, synced |-> n]
                       ELSE logs[k]]

\* While imm_ is still being dumped the writer waits for the dump instead.
SwitchWhen(w, free) ==
  /\ pc[w] = "lead" /\ call[w].kind # "sync" /\ ~bgError /\ ~HasRoom(w) /\ free
  /\ NewLog
  /\ imm' = {mem} /\ mem' = {}
  /\ IF call[w].kind = "flush" THEN Finish(w, w, TRUE, {}) ELSE BuildBatchGroup(w)
  /\ UNCHANGED <<wal, mode, lastSeq, version, edit, dump, bgError, replay,
                 manifest, counts>>

SwitchMemTable(w) == SwitchWhen(w, imm = {})

\* The new log cannot be created: its number is given back.
SwitchFails(w) ==
  /\ pc[w] = "lead" /\ call[w].kind # "sync" /\ ~bgError /\ ~HasRoom(w)
  /\ imm = {} /\ wal /\ FALSE \in Outcomes
  /\ Finish(w, w, FALSE, {})
  /\ UNCHANGED <<wal, mode, dbVars, replay, disk, counts>>

-----------------------------------------------------------------------------
(* The front writer works without the mutex: log, sync, memtable.          *)

Leads(w, here) == pc[w] = here /\ Head(queue) = w

\* The updates of the group whose callers asked for a sync.
Synced(w) ==
  {call[v].id : v \in {u \in Served(group.last) : call[u].sync}}

Logged ==
  logs' = [logs EXCEPT ![logNo] =
             [recs |-> Append(logs[logNo].recs, [ids |-> group.ids, seq |-> group.seq]),
              synced |-> logs[logNo].synced]]

\* Behind a failed append a record may be of no use: the reader drops the rest of a block
\* with a torn record in it, and block_offset_ is no longer where the file ends.
LoggedBehind ==
  /\ torn /\ "behind" \in ReplayFaults
  /\ unread' = unread \cup Range(group.ids)
  /\ UNCHANGED logs

LogRecord(w, seq) ==
  /\ Leads(w, "append")
  /\ \/ Logged /\ UNCHANGED unread
     \/ LoggedBehind
  /\ lastSeq' = seq
  /\ pc' = [pc EXCEPT ![w] = IF call[w].sync THEN "sync" ELSE "insert"]
  /\ UNCHANGED <<wal, mode, call, queue, asleep, result, group, todo, flushing,
                 mem, imm, nextFile, logNo, version, edit, dump, bgError, torn,
                 replay, manifest, acked, promised, counts>>

\* Faulty variant: the sequence numbers are published with the log record.
AddRecordPublishes(w) == LogRecord(w, LastOf(group))

AddRecord(w) == LogRecord(w, lastSeq)

LogRecordFails(w, seq) ==
  /\ Leads(w, "append") /\ FALSE \in Outcomes
  /\ \/ Logged /\ UNCHANGED torn
     \/ UNCHANGED logs /\ torn' = TRUE
  /\ lastSeq' = seq
  /\ Finish(w, group.last, FALSE, {})
  /\ UNCHANGED <<wal, mode, mem, imm, nextFile, logNo, version, edit, dump,
                 bgError, replay, manifest, counts>>

\* The append fails, and its record is in the file all the same, or in part, or not at
\* all: the sequence numbers are used up, and the DB goes on with this log.
AddRecordFails(w) == LogRecordFails(w, LastOf(group))

\* SyncWAL without a log does nothing.
SyncNothing(w) ==
  /\ Leads(w, "lead") /\ call[w].kind = "sync" /\ ~wal
  /\ Finish(w, w, TRUE, {})
  /\ UNCHANGED <<wal, mode, dbVars, replay, disk, counts>>

SyncStart(w) ==
  /\ Leads(w, "lead") /\ call[w].kind = "sync" /\ wal
  /\ pc' = [pc EXCEPT ![w] = "sync"]
  /\ UNCHANGED <<wal, mode, call, queue, asleep, result, group, todo, flushing,
                 dbVars, replay, disk, history, counts>>

SyncLog ==
  logs' = [logs EXCEPT ![logNo] =
             [recs |-> logs[logNo].recs, synced |-> Len(logs[logNo].recs)]]

\* WritableFile::Sync covers all that was appended to this log before.
SyncOk(w) ==
  /\ Leads(w, "sync")
  /\ SyncLog
  /\ IF call[w].kind = "sync"
       THEN Finish(w, w, TRUE, acked \cap Ids(LogEntries(logs[logNo].recs)))
       ELSE /\ pc' = [pc EXCEPT ![w] = "insert"]
            /\ UNCHANGED <<call, queue, asleep, result, group, todo, flushing,
                           history>>
  /\ UNCHANGED <<wal, mode, dbVars, replay, manifest, counts>>

\* The record may or may not be there after a restart: no more writes.
SyncFails(w) ==
  /\ Leads(w, "sync") /\ FALSE \in Outcomes
  /\ bgError' = TRUE
  /\ lastSeq' = IF call[w].kind = "write" THEN LastOf(group) ELSE lastSeq
  /\ Finish(w, IF call[w].kind = "write" THEN group.last ELSE w, FALSE, {})
  /\ UNCHANGED <<wal, mode, mem, imm, nextFile, logNo, version, edit, dump, torn,
                 replay, disk, counts>>

\* InsertInto adds one entry after the other, beside the readers.
InsertInto(w) ==
  /\ Leads(w, "insert") /\ todo # <<>>
  /\ mem' = mem \cup {Head(todo)}
  /\ todo' = Tail(todo)
  /\ UNCHANGED <<wal, mode, pc, call, queue, asleep, result, group, flushing,
                 imm, lastSeq, nextFile, logNo, version, edit, dump, bgError, torn,
                 replay, disk, history, counts>>

\* The mutex is taken again; only now can readers see the group.
WriteDone(w) ==
  /\ Leads(w, "insert") /\ todo = <<>>
  /\ lastSeq' = LastOf(group)
  /\ Finish(w, group.last, TRUE, IF wal THEN Synced(w) ELSE {})
  /\ UNCHANGED <<wal, mode, mem, imm, nextFile, logNo, version, edit, dump,
                 bgError, torn, replay, disk, counts>>

\* FlushMemTable returns when there is no imm_, its own or a later one.
FlushDone(w) ==
  /\ pc[w] = "flush" /\ (imm = {} \/ bgError)
  /\ promised' = IF bgError THEN promised ELSE promised \cup flushing[w]
  /\ Idle(w)
  /\ UNCHANGED <<wal, mode, queue, asleep, result, group, todo, dbVars, replay,
                 disk, acked, unread, counts>>

-----------------------------------------------------------------------------
(* CompactMemTable, and the removal of files.                              *)

\* NewFileNumber for the table; the mutex is free while it is built.
DumpStart ==
  /\ mode = "up" /\ dump = "idle" /\ imm # {} /\ ~bgError
  /\ dump' = "build" /\ nextFile' = nextFile + 1
  /\ UNCHANGED <<wal, mode, clientVars, mem, imm, lastSeq, logNo, version, edit,
                 bgError, torn, replay, disk, history, counts>>

\* Logs before log will no longer be needed.
EditWith(log, tables) ==
  [log |-> log, next |-> nextFile, seq |-> lastSeq, tables |-> tables]

\* The table is on storage; LogAndApply starts with the numbers of this moment.
DumpBuilt ==
  /\ dump = "build"
  /\ dump' = "apply"
  /\ edit' = EditWith(IF wal THEN logNo ELSE version.log, version.tables \cup Frozen)
  /\ UNCHANGED <<wal, mode, clientVars, mem, imm, lastSeq, nextFile, logNo,
                 version, bgError, torn, replay, disk, history, counts>>

DumpFails ==
  /\ dump = "build" /\ FALSE \in Outcomes
  /\ dump' = "idle" /\ bgError' = TRUE
  /\ UNCHANGED <<wal, mode, clientVars, mem, imm, lastSeq, nextFile, logNo,
                 version, edit, torn, replay, disk, history, counts>>

\* DeleteObsoleteFiles ignores the files it fails to delete.
DeleteObsoleteLogs(min) ==
  \E gone \in SUBSET {n \in DOMAIN logs : n < min} :
    logs' = [n \in DOMAIN logs \ gone |-> logs[n]]

InstallAnd(collect) ==
  /\ dump = "apply"
  /\ manifest' = edit
  /\ version' = [log |-> edit.log, tables |-> edit.tables]
  /\ imm' = {} /\ edit' = None /\ dump' = "idle"
  /\ unread' = unread \ Ids(edit.tables)
  /\ IF bgError THEN UNCHANGED logs ELSE collect
  /\ UNCHANGED <<wal, mode, clientVars, mem, lastSeq, nextFile, logNo, bgError, torn,
                 replay, acked, promised, counts>>

\* Faulty variant: the log of the memtable in use is removed, too.
DumpInstalledGreedy == InstallAnd(DeleteObsoleteLogs(edit.log + 1))

DumpInstalled == InstallAnd(DeleteObsoleteLogs(edit.log))

\* LogAndApply reports an error; the edit may be in the manifest all the same.
DumpApplyFails ==
  /\ dump = "apply" /\ FALSE \in Outcomes
  /\ manifest' \in {manifest, edit}
  /\ edit' = None /\ dump' = "idle" /\ bgError' = TRUE
  /\ UNCHANGED <<wal, mode, clientVars, mem, imm, lastSeq, nextFile, logNo,
                 version, torn, replay, logs, history, counts>>

-----------------------------------------------------------------------------
(* Leaving the DB: a crash of the process, of the machine, or a close.     *)

\* Only the disk is left.
Gone ==
  /\ mode' = "down"
  /\ pc' = [w \in Writers |-> "idle"] /\ call' = [w \in Writers |-> NoCall]
  /\ queue' = <<>> /\ asleep' = {} /\ result' = [w \in Writers |-> None]
  /\ group' = NoGroup /\ todo' = <<>> /\ flushing' = [w \in Writers |-> {}]
  /\ mem' = {} /\ imm' = {} /\ lastSeq' = 0 /\ nextFile' = 0 /\ logNo' = 0
  /\ version' = [log |-> 0, tables |-> {}] /\ edit' = None /\ dump' = "idle"
  /\ bgError' = FALSE /\ torn' = FALSE /\ replay' = NoReplay
  /\ unread' = {}
  /\ UNCHANGED <<wal, updates, syncs>>

\* Of a set of updates those that can still be read, now that nothing else is left.
Readable(ids) == ids \ (unread \ Ids(Surviving'))

MaybeWritten == IF edit = None THEN {manifest} ELSE {manifest, edit}

\* The operating system has the appended records.
ProcessCrash ==
  /\ crashes < MaxCrashes /\ mode # "down"
  /\ manifest' \in MaybeWritten
  /\ UNCHANGED logs
  /\ Gone
  /\ acked' = IF wal THEN Readable(acked) ELSE acked \cap Ids(Surviving')
  /\ promised' = Readable(promised)
  /\ crashes' = crashes + 1

\* Of each log some prefix is on storage, at least the part that was synced.
MachineCrash ==
  /\ crashes < MaxCrashes
  /\ manifest' \in MaybeWritten
  /\ \E keep \in [DOMAIN logs -> 0..MaxUpdates] :
       /\ \A n \in DOMAIN logs : keep[n] \in logs[n].synced..Len(logs[n].recs)
       /\ logs' = [n \in DOMAIN logs |->
                     [recs |-> SubSeq(logs[n].recs, 1, keep[n]), synced |-> keep[n]]]
  /\ Gone
  /\ acked' = acked \cap Ids(Surviving')
  /\ promised' = Readable(promised)
  /\ crashes' = crashes + 1

\* ~DBImpl waits for background work, which shutting_down_ keeps from starting;
\* no call may be in progress.  The log may be synced (sync_log_on_close).
Close ==
  /\ crashes < MaxCrashes /\ mode = "up"
  /\ \A w \in Writers : pc[w] = "idle"
  /\ dump = "idle"
  /\ UNCHANGED manifest
  /\ \/ UNCHANGED logs
     \/ wal /\ SyncLog
  /\ Gone
  /\ acked' = IF wal THEN Readable(acked) ELSE acked \cap Ids(Surviving')
  /\ promised' = Readable(promised)
  /\ crashes' = crashes + 1

-----------------------------------------------------------------------------
(* DB::Open.                                                               *)

\* VersionSet::Recover; the new manifest takes the first file number.
OpenStart ==
  /\ mode = "down" /\ mode' = "open"
  /\ version' = [log |-> manifest.log, tables |-> manifest.tables]
  /\ nextFile' = manifest.next + 1 /\ lastSeq' = manifest.seq
  /\ replay' = [NoReplay EXCEPT !.left = LogsToReplay]
  /\ UNCHANGED <<wal, clientVars, mem, imm, logNo, edit, dump, bgError, torn, disk,
                 history, counts>>

MarkFileNumberUsed(next, n) == IF next <= n THEN n + 1 ELSE next

\* A log without records leaves no table.
TablesOf(recs) == IF recs = <<>> THEN 0 ELSE 1

Oldest(n) == n \in replay.left /\ \A m \in replay.left : n <= m
Larger(a, b) == IF a < b THEN b ELSE a

\* RecoverLogFile replays these records of the log into level-0 tables and keeps the
\* largest sequence number it meets.
RecoverLogFile(n, recs) ==
  LET seqs == {replay.maxSeq} \cup {LastOf(rec) : rec \in Range(recs)}
  IN  /\ \E seq \in seqs :
           /\ \A other \in seqs : other <= seq
           /\ replay' = [left   |-> replay.left \ {n},
                         tables |-> replay.tables \cup LogEntries(recs),
                         maxSeq |-> seq, ok |-> TRUE, failed |-> replay.failed]
      /\ nextFile' = MarkFileNumberUsed(nextFile + TablesOf(recs), n)

\* The oldest log left is replayed.
OpenLog ==
  /\ mode = "open"
  /\ \E n \in DOMAIN logs : Oldest(n) /\ RecoverLogFile(n, logs[n].recs)
  /\ UNCHANGED <<wal, mode, clientVars, mem, imm, lastSeq, logNo, version, edit,
                 dump, bgError, torn, disk, history, counts>>

\* The log cannot be opened, or cannot be read to its end.  With paranoid_checks that
\* is an error; without, the log ends there.
OpenLogIgnores ==
  /\ mode = "open" /\ "ignored" \in ReplayFaults
  /\ \E n \in DOMAIN logs : \E read \in 1..Len(logs[n].recs) :
       LET recs == logs[n].recs
       IN  /\ Oldest(n)
           /\ RecoverLogFile(n, SubSeq(recs, 1, read - 1))
           /\ unread' = unread \cup Ids(LogEntries(SubSeq(recs, read, Len(recs))))
  /\ UNCHANGED <<wal, mode, clientVars, mem, imm, lastSeq, logNo, version, edit,
                 dump, bgError, torn, disk, acked, promised, counts>>

\* A table cannot be written, or the log not be read: the tables of the first `kept` of
\* the records that were read are in the edit.  The next log overwrites the status.
OpenLogFails ==
  /\ mode = "open"
  /\ \E n \in DOMAIN logs :
       LET recs == logs[n].recs
       IN  /\ Oldest(n)
           /\ (IF replay.left = {n} THEN "last" ELSE "earlier") \in ReplayFaults
           /\ \E read \in 0..Len(recs), kept \in 0..Len(recs) :
                /\ kept <= read
                /\ nextFile' = MarkFileNumberUsed(nextFile + TablesOf(SubSeq(recs, 1, read)), n)
                /\ replay' = [left   |-> replay.left \ {n},
                              tables |-> replay.tables \cup LogEntries(SubSeq(recs, 1, kept)),
                              maxSeq |-> IF read = 0 THEN replay.maxSeq
                                         ELSE Larger(replay.maxSeq, LastOf(recs[read])),
                              ok     |-> FALSE, failed |-> TRUE]
  /\ UNCHANGED <<wal, mode, clientVars, mem, imm, lastSeq, logNo, version, edit,
                 dump, bgError, torn, disk, history, counts>>

Replayed == mode = "open" /\ replay.left = {} /\ edit = None

\* The replay or a later step failed: the DBImpl is deleted.
OpenFails ==
  /\ \/ Replayed /\ ~replay.ok
     \/ Replayed /\ wal /\ FALSE \in Outcomes
     \/ mode = "open" /\ edit # None /\ FALSE \in Outcomes
  /\ crashes < MaxCrashes /\ crashes' = crashes + 1
  /\ Gone
  /\ UNCHANGED <<disk, acked, promised>>

\* A new log is created, over an older one if the number was in use.
OpenNewLog ==
  /\ Replayed /\ replay.ok
  /\ lastSeq' = Larger(lastSeq, replay.maxSeq)
  /\ IF wal THEN /\ logNo' = nextFile /\ nextFile' = nextFile + 1
                 /\ logs' = [n \in DOMAIN logs \cup {nextFile} |->
                               IF n = nextFile THEN EmptyLog ELSE logs[n]]
            ELSE UNCHANGED <<logNo, nextFile, logs>>
  /\ edit' = [log |-> IF wal THEN logNo' ELSE version.log, next |-> nextFile',
              seq |-> lastSeq', tables |-> version.tables \cup replay.tables]
  /\ UNCHANGED <<wal, mode, clientVars, mem, imm, version, dump, bgError, torn, replay,
                 manifest, history, counts>>

OpenInstalled ==
  /\ mode = "open" /\ edit # None
  /\ mode' = "up" /\ manifest' = edit /\ edit' = None /\ replay' = NoReplay
  /\ version' = [log |-> edit.log, tables |-> edit.tables]
  /\ DeleteObsoleteLogs(edit.log)
  /\ acked' = acked \ (unread \ Ids(edit.tables))
  /\ promised' = promised \ (unread \ Ids(edit.tables)) /\ unread' = {}
  /\ UNCHANGED <<wal, clientVars, mem, imm, lastSeq, nextFile, logNo, dump,
                 bgError, torn, counts>>

-----------------------------------------------------------------------------
Step(w) ==
  \/ WakeDone(w) \/ WakeFront(w)
  \/ RoomError(w) \/ RoomReady(w) \/ SwitchMemTable(w) \/ SwitchFails(w)
  \/ AddRecord(w) \/ AddRecordFails(w)
  \/ SyncNothing(w) \/ SyncStart(w) \/ SyncOk(w) \/ SyncFails(w)
  \/ InsertInto(w) \/ WriteDone(w) \/ FlushDone(w)

Dump == DumpStart \/ DumpBuilt \/ DumpFails \/ DumpInstalled \/ DumpApplyFails

Open ==
  OpenStart \/ OpenLog \/ OpenLogIgnores \/ OpenLogFails \/ OpenNewLog \/ OpenInstalled

WriteNext ==
  \/ \E w \in Writers : Write(w) \/ SyncWAL(w) \/ FlushMemTable(w) \/ Step(w)
  \/ Dump \/ Open \/ OpenFails
  \/ ProcessCrash \/ MachineCrash \/ Close

WriteSpec == WriteInit /\ [][WriteNext]_writeVars

\* A thread inside a call and the dump are scheduled in the end.
WriteFairness == WF_writeVars((\E w \in Writers : Step(w)) \/ Dump)

WriteFairSpec == WriteSpec /\ WriteFairness

-----------------------------------------------------------------------------
(* Properties                                                              *)

WriteTypeOK ==
  /\ wal \in BOOLEAN /\ mode \in {"down", "open", "up"} /\ {bgError, torn} \subseteq BOOLEAN
  /\ pc \in [Writers -> {"idle", "wait", "lead", "append", "sync", "insert", "flush"}]
  /\ \A w \in Writers : call[w].id \in 0..MaxUpdates
  /\ queue \in Seq(Writers) /\ asleep \subseteq Range(queue)
  /\ result \in [Writers -> {None, "ok", "error"}]
  /\ group.ids \in Seq(1..MaxUpdates) /\ todo \in Seq(Entry)
  /\ View \subseteq Entry /\ {lastSeq, nextFile, logNo} \subseteq Nat
  /\ dump \in {"idle", "build", "apply"} /\ replay.left \subseteq DOMAIN logs
  /\ \A n \in DOMAIN logs :
       logs[n].recs \in Seq(Record) /\ logs[n].synced \in 0..Len(logs[n].recs)
  /\ manifest.tables \subseteq Entry /\ promised \subseteq acked

\* No write that returned OK is lost when only the process dies or restarts, and after a
\* crash of the machine only what was lost then is missing: the logs that CompactMemTable
\* and DB::Open give up are those whose entries are in tables.  A write whose record is
\* not read is lost if the process dies before its memtable is dumped.
AckedSurvives == wal => acked \subseteq Ids(Surviving) \cup unread

\* A write with sync, and all that SyncWAL or FlushMemTable reported as saved, is on
\* storage from then on, at every moment of a dump or of a replay, with the same exception.
PromisedOnStorage == promised \subseteq Ids(OnStorage) \cup unread

\* Every record that was appended without an error is found by a replay, unless an append
\* to the same log failed before it, or DB::Open is ignoring an error.
UnreadBehindFailure ==
  unread # {} => torn \/ imm # {} \/ mode = "open"

\* No write that returned OK is lost in a restart, and none that was reported as saved in a
\* crash of the machine either, but for those behind a failed append or in a log that
\* could not be read (DBImpl::Write, CompactMemTable, Recover).
WritesSurvive == AckedSurvives /\ PromisedOnStorage /\ UnreadBehindFailure

\* A reader finds every write that returned OK, and of each batch both entries
\* or none: last_sequence_ moves only when the whole group is in mem_.
SnapshotRead ==
  mode = "up" =>
    /\ acked \subseteq Ids(Visible)
    /\ \A i \in Ids(Visible) : \E e, f \in Visible : e # f /\ {g \in Visible : g.id = i} = {e, f}

\* A sequence number is never used twice, whatever failed or was lost before:
\* Recover finds the largest one in the logs and in the manifest.
SequenceUnique ==
  \A e, f \in View \cup Surviving \cup EntriesOf(group) : e.seq = f.seq => e = f

\* A reader finds every write that returned OK, each batch as a whole, and no sequence
\* number was used twice (DBImpl::Write, MakeRoomForWrite, Recover).
ReadersSound == WriteTypeOK /\ SnapshotRead /\ SequenceUnique

\* A replay that fails makes DB::Open fail, as RecoverLogFile says.
FailedReplayFailsOpen ==
  [][mode = "open" /\ mode' = "up" => ~replay.failed]_writeVars

\* Every call returns: whoever leaves the queue wakes the writers it served and
\* the next in line.
WritersReturn ==
  \A w \in Writers : []<>(pc[w] = "idle")

-----------------------------------------------------------------------------
\* The updates a restart finds, Ids(Surviving), and those that readers see, which are the
\* same while the DB is down.
Survivors ==
  Ids(manifest.tables) \cup
    UNION {UNION {Range(logs[n].recs[k].ids) : k \in DOMAIN logs[n].recs} : n \in LiveLogs}
Seen == IF mode = "up" THEN Ids(Visible) ELSE Survivors

Durable == INSTANCE DurableWrites
             WITH Updates <- 1..MaxUpdates, seen <- Seen,
                  limbo <- Survivors \ Seen, promised <- promised,
                  up <- mode = "up", risk <- unread

\* The write path keeps the promise of DurableWrites.
ImplementsDurableWrites == Durable!Spec
=============================================================================
