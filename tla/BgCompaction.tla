---------------------------- MODULE BgCompaction ----------------------------
(***************************************************************************)
(* The background-work protocol of DBImpl: who may run a compaction, a     *)
(* memtable dump or a bulk insertion, and when.  Everything here happens   *)
(* under DBImpl::mutex_; an action is one critical section, from taking    *)
(* the mutex (or waking up) to releasing it (or waiting on bg_cv_), and    *)
(* the program counters name the places where the mutex is free.           *)
(*                                                                         *)
(* Clients are threads inside a DB call.  Bg is the one work item a DB may *)
(* have in its thread pool.  waiters is the wait set of bg_cv_.            *)
(***************************************************************************)
EXTENDS Naturals, FiniteSets

CONSTANTS
  Clients,            \* threads that call into the DB
  Bg,                 \* the background work item
  None,               \* NULL
  Workloads,          \* the mixes of calls the clients make
  MaxCalls,           \* bound: number of calls the clients make in a behaviour
  MaxManual,          \* bound: compactions one manual range is split into
  Trigger,            \* l0_compaction_trigger
  SoftLimit,          \* l0_soft_limit
  HardLimit,          \* l0_hard_limit
  MaxTables,          \* bound: tables one AddL0Tables call migrates
  NoMemtables,        \* the values of options_.no_memtable to consider
  NoCompactions,      \* the values of options_.disable_compaction to consider
  IOFaults            \* may file operations fail?

ASSUME ThreadsAssumption ==
  /\ Bg \notin Clients
  /\ None \notin Clients
  /\ IsFiniteSet(Clients)

AllCalls == {"write", "flush", "flushl0", "compact", "bulk", "addl0", "drain",
             "freeze", "get", "close"}

ASSUME OptionsAssumption ==
  /\ Workloads \subseteq SUBSET AllCalls
  /\ {MaxCalls, MaxManual, MaxTables} \subseteq Nat
  /\ {Trigger, SoftLimit, HardLimit} \subseteq Nat
  /\ 0 < Trigger
  /\ NoMemtables \subseteq BOOLEAN /\ NoCompactions \subseteq BOOLEAN
  /\ IOFaults \in BOOLEAN

VARIABLES
  workload, noMemtable, noCompaction,  \* fixed when the DB is opened
  pc, op, waiters,    \* where each client is, in which call; bg_cv_ wait set
  front, force, allowDelay,  \* writers_.front() and its MakeRoomForWrite locals
  paused, bulk, disabled,    \* bg_compaction_paused_, bulk_insert_in_progress_,
                             \* bg_compaction_disabled_
  manual, left, done, \* manual_compaction_; pieces left, done flag
  scheduled, inProgress,  \* bg_compaction_scheduled_, bg_compaction_in_progress_
  bgpc, job, jobIn,   \* the work item: where it is, its compaction, L0 inputs
  imm, memFull,       \* imm_ != NULL; mem_ has reached write_buffer_size
  l0, deep, seek,     \* the current version: L0 files, compactions due in
                      \* deeper levels, file_to_compact_ != NULL (which may
                      \* be a file of a level that is not due)
  bgError, shuttingDown,
  table,              \* per thread, the L0 table it is building: none, in
                      \* pending_outputs_, bare (no longer), or deleted
  itemFrozen,         \* history: the item was queued while compaction was frozen
  startedFrozen,      \* history: an automatic compaction was started in this freeze
  calls

config     == <<workload, noMemtable, noCompaction>>
clientVars == <<pc, op, front, force, allowDelay>>
freeze     == <<disabled, startedFrozen>>
gates      == <<paused, bulk, freeze>>
manualVars == <<manual, left, done>>
itemVars   == <<scheduled, itemFrozen>>
bgVars     == <<inProgress, bgpc, job, jobIn>>
memVars    == <<imm, memFull>>
version    == <<l0, deep, seek>>
vars == <<config, clientVars, waiters, gates, manualVars, itemVars,
          bgVars, memVars, version, bgError, shuttingDown, table, calls>>

Threads == Clients \cup {Bg}

PCs == {"idle", "room", "log", "flushwait", "enter", "dump", "apply",
        "manual", "drain", "close", "closed"}
Ops == {"none", "write", "flush", "flushl0", "compact", "bulk", "addl0",
        "drain", "close"}
BgPCs == {"idle", "dump", "apply", "work", "paused", "install", "move", "segv"}
Jobs == {"none", "manual", "level0", "deep", "seek"}

Outcomes == IF IOFaults THEN BOOLEAN ELSE {TRUE}

-----------------------------------------------------------------------------
(* Scheduling                                                              *)

\* VersionSet::NeedsCompaction
NeedsCompaction == l0 >= Trigger \/ deep > 0 \/ seek

\* Faulty variant: a freeze is ignored.
HasCompactionNoFreeze == \/ imm
                         \/ manual # None
                         \/ ~noCompaction /\ NeedsCompaction

HasCompaction == \/ imm
                 \/ manual # None
                 \/ disabled = 0 /\ ~noCompaction /\ NeedsCompaction

\* The conditions under which MaybeScheduleCompaction hands an item to the pool.
CanSchedule == paused = 0 /\ ~shuttingDown /\ ~bgError /\ HasCompaction

Queue == /\ scheduled' = CanSchedule'
         /\ itemFrozen' = (CanSchedule' /\ disabled' > 0)

\* Evaluated last in an action: it reads the other variables' new values.
MaybeScheduleCompaction == IF scheduled THEN UNCHANGED itemVars ELSE Queue

SignalAll == waiters' = {}
Wait(t)   == waiters' = waiters \cup {t}
\* t is not blocked on bg_cv_, and the process is still there.
Awake(t)  == t \notin waiters /\ bgpc # "segv"

RecordBackgroundError(fail) ==
  /\ bgError' = (bgError \/ fail)
  /\ IF fail /\ ~bgError THEN SignalAll ELSE UNCHANGED waiters

-----------------------------------------------------------------------------
Init ==
  /\ workload \in Workloads /\ noMemtable \in NoMemtables
  /\ noCompaction \in NoCompactions
  /\ pc = [t \in Clients |-> "idle"]
  /\ op = [t \in Clients |-> "none"]
  /\ waiters = {}
  /\ front = None /\ force = FALSE /\ allowDelay = FALSE
  /\ paused = 0 /\ bulk = FALSE /\ disabled = 0 /\ startedFrozen = FALSE
  /\ manual = None
  /\ left = [t \in Clients |-> 0]
  /\ done = [t \in Clients |-> FALSE]
  /\ scheduled = FALSE /\ itemFrozen = FALSE
  /\ inProgress = FALSE /\ bgpc = "idle" /\ job = "none" /\ jobIn = 0
  /\ imm = FALSE /\ memFull = FALSE
  /\ l0 = 0 /\ deep = 0 /\ seek = FALSE
  /\ bgError = FALSE /\ shuttingDown = FALSE
  /\ table = [t \in Threads |-> "none"]
  /\ calls = 0

-----------------------------------------------------------------------------
(* Calls that finish within one critical section, and the entry to others. *)

Start(t, o, p) ==
  /\ pc[t] = "idle" /\ Awake(t) /\ calls < MaxCalls /\ ~shuttingDown
  /\ calls' = calls + 1
  /\ op' = [op EXCEPT ![t] = o]
  /\ pc' = [pc EXCEPT ![t] = p]

Return(t) == pc' = [pc EXCEPT ![t] = "idle"] /\ op' = [op EXCEPT ![t] = "none"]

\* DBImpl::Write reaching the front of writers_ (the queue itself is in
\* WritePath); Write(NULL), FlushMemTable and CompactRange force a new memtable.
WriteBegin(t, o) ==
  /\ front = None
  /\ Start(t, o, "room")
  /\ front' = t
  /\ force' = (o # "write")
  /\ allowDelay' = (o = "write")
  /\ UNCHANGED <<config, waiters, gates, manualVars, itemVars, bgVars, memVars,
                 version, bgError, shuttingDown, table>>

InsertCall(t, o) ==
  /\ Start(t, o, "enter")
  /\ UNCHANGED <<config, front, force, allowDelay, waiters, bulk, freeze,
                 manualVars, itemVars, bgVars, memVars, version, bgError,
                 shuttingDown, table>>

\* BulkInsert and AddL0Tables block background compactions first.
InsertBegin(t, o) == InsertCall(t, o) /\ paused' = paused + 1

DrainBegin(t) ==
  /\ Start(t, "drain", "drain")
  /\ UNCHANGED <<config, front, force, allowDelay, waiters, gates, manualVars,
                 itemVars, bgVars, memVars, version, bgError, shuttingDown,
                 table>>

FreezeDbCompaction(t) ==
  /\ Start(t, "none", "idle")
  /\ disabled' = disabled + 1
  /\ UNCHANGED <<config, front, force, allowDelay, waiters, paused, bulk,
                 startedFrozen, manualVars, itemVars, bgVars, memVars, version,
                 bgError, shuttingDown, table>>

\* Every freeze is matched by a resume, so it is not counted in calls.
ResumeDbCompaction(t) ==
  /\ pc[t] = "idle" /\ Awake(t) /\ disabled > 0 /\ ~shuttingDown
  /\ disabled' = disabled - 1
  /\ startedFrozen' = (startedFrozen /\ disabled > 1)
  /\ UNCHANGED <<config, clientVars, waiters, paused, bulk, manualVars, bgVars,
                 memVars, version, bgError, shuttingDown, table, calls>>
  /\ IF disabled = 1 THEN MaybeScheduleCompaction ELSE UNCHANGED itemVars

\* DBImpl::Get: Version::UpdateStats has charged a seek too many to some file.
GetUpdateStats(t) ==
  /\ Start(t, "none", "idle")
  /\ ~seek
  /\ seek' = TRUE
  /\ UNCHANGED <<config, front, force, allowDelay, waiters, gates, manualVars,
                 bgVars, memVars, l0, deep, bgError, shuttingDown, table>>
  /\ MaybeScheduleCompaction

\* ~DBImpl: no call may be in progress.
CloseBegin(t) ==
  /\ \A u \in Clients : pc[u] = "idle"
  /\ Awake(t) /\ ~shuttingDown
  /\ shuttingDown' = TRUE
  /\ op' = [op EXCEPT ![t] = "close"]
  /\ pc' = [pc EXCEPT ![t] = "close"]
  /\ UNCHANGED <<config, front, force, allowDelay, waiters, gates, manualVars,
                 itemVars, bgVars, memVars, version, bgError, table, calls>>

Close(t) ==
  /\ pc[t] = "close" /\ Awake(t)
  /\ IF scheduled \/ paused > 0
       THEN Wait(t) /\ UNCHANGED pc
       ELSE pc' = [pc EXCEPT ![t] = "closed"] /\ UNCHANGED waiters
  /\ UNCHANGED <<config, op, front, force, allowDelay, gates, manualVars,
                 itemVars, bgVars, memVars, version, bgError, shuttingDown,
                 table, calls>>

-----------------------------------------------------------------------------
(* The front writer: MakeRoomForWrite, then the log and the memtable.      *)

\* Where a call goes once its Write has returned.
AfterWrite(o, ok) ==
  CASE o = "compact"              -> IF ok THEN "flushwait" ELSE "manual"
    [] o \in {"flush", "flushl0"} -> IF ok THEN "flushwait" ELSE "idle"
    [] OTHER                      -> "idle"

\* Entering TEST_CompactRange starts a request of up to MaxManual pieces.
Proceed(t, p) ==
  /\ pc' = [pc EXCEPT ![t] = p]
  /\ op' = IF p = "idle" THEN [op EXCEPT ![t] = "none"] ELSE op
  /\ IF p = "manual"
       THEN /\ \E n \in 0..MaxManual : left' = [left EXCEPT ![t] = n]
            /\ done' = [done EXCEPT ![t] = FALSE]
       ELSE UNCHANGED <<left, done>>

LeaveQueue(t, ok) ==
  /\ front' = None
  /\ Proceed(t, AfterWrite(op[t], ok))

InRoom(t) == pc[t] = "room" /\ Awake(t)

Slowed == ~noCompaction /\ allowDelay /\ l0 >= SoftLimit
Roomy  == ~force /\ ~noMemtable /\ ~memFull
Stuck  == imm \/ (~noCompaction /\ l0 >= HardLimit)

RoomError(t) ==
  /\ InRoom(t) /\ bgError
  /\ LeaveQueue(t, FALSE)
  /\ UNCHANGED <<config, force, allowDelay, waiters, gates, manual, itemVars,
                 bgVars, memVars, version, bgError, shuttingDown, table,
                 calls>>

RoomDelay(t) ==
  /\ InRoom(t) /\ ~bgError /\ Slowed
  /\ allowDelay' = FALSE
  /\ UNCHANGED <<config, pc, op, front, force, waiters, gates, manualVars,
                 itemVars, bgVars, memVars, version, bgError, shuttingDown,
                 table, calls>>

\* There is room.  A forced switch writes nothing more; a batch is logged.
RoomReady(t) ==
  /\ InRoom(t) /\ ~bgError /\ ~Slowed /\ Roomy
  /\ IF op[t] = "write"
       THEN pc' = [pc EXCEPT ![t] = "log"] /\ UNCHANGED <<op, front, left, done>>
       ELSE LeaveQueue(t, TRUE)
  /\ UNCHANGED <<config, force, allowDelay, waiters, gates, manual, itemVars,
                 bgVars, memVars, version, bgError, shuttingDown, table,
                 calls>>

RoomWait(t) ==
  /\ InRoom(t) /\ ~bgError /\ ~Slowed /\ ~Roomy /\ Stuck
  /\ Wait(t)
  /\ UNCHANGED <<config, clientVars, gates, manualVars, itemVars, bgVars,
                 memVars, version, bgError, shuttingDown, table, calls>>

NewMemTable(t) ==
  /\ InRoom(t) /\ ~bgError /\ ~Slowed /\ ~Roomy /\ ~Stuck /\ ~noMemtable
  /\ imm' = TRUE /\ memFull' = FALSE /\ force' = FALSE
  /\ UNCHANGED <<config, pc, op, front, allowDelay, waiters, gates, manualVars,
                 bgVars, version, bgError, shuttingDown, table, calls>>

\* Faulty variant: the dump of the old memtable is not scheduled.
RoomSwitchSilent(t) == NewMemTable(t) /\ UNCHANGED itemVars

\* Switch to a new log and memtable; only creating the log file can fail.
RoomSwitch(t) == NewMemTable(t) /\ MaybeScheduleCompaction

RoomSwitchFails(t) ==
  /\ InRoom(t) /\ ~bgError /\ ~Slowed /\ ~Roomy /\ ~Stuck /\ ~noMemtable
  /\ FALSE \in Outcomes
  /\ LeaveQueue(t, FALSE)
  /\ UNCHANGED <<config, force, allowDelay, waiters, gates, manual, itemVars,
                 bgVars, memVars, version, bgError, shuttingDown, table,
                 calls>>

\* no_memtable: a batch becomes an L0 table, with background work blocked.
RoomNoMemtable(t) ==
  /\ InRoom(t) /\ ~bgError /\ ~Slowed /\ ~Stuck /\ noMemtable
  /\ IF op[t] = "write"
       THEN /\ pc' = [pc EXCEPT ![t] = "enter"]
            /\ paused' = paused + 1
            /\ UNCHANGED <<op, front, left, done>>
       ELSE LeaveQueue(t, TRUE) /\ UNCHANGED paused
  /\ UNCHANGED <<config, force, allowDelay, waiters, bulk, freeze, manual,
                 itemVars, bgVars, memVars, version, bgError, shuttingDown,
                 table, calls>>

\* The mutex is free while the batch is logged and inserted; a failed fsync
\* of the log is a background error.
WriteLogged(t) ==
  /\ pc[t] = "log" /\ Awake(t)
  /\ memFull' \in {memFull, TRUE}
  /\ \E synced \in Outcomes : RecordBackgroundError(~synced)
  /\ front' = None
  /\ Return(t)
  /\ UNCHANGED <<config, force, allowDelay, gates, manualVars, itemVars,
                 bgVars, imm, version, shuttingDown, table, calls>>

\* FlushMemTable and TEST_CompactMemTable wait for the dump of imm_.
FlushWait(t) ==
  /\ pc[t] = "flushwait" /\ Awake(t)
  /\ IF imm /\ ~bgError
       THEN Wait(t) /\ UNCHANGED <<pc, op, left, done>>
       ELSE /\ Proceed(t, IF op[t] = "compact" \/ (op[t] = "flushl0" /\ ~bgError)
                            THEN "manual" ELSE "idle")
            /\ UNCHANGED waiters
  /\ UNCHANGED <<config, front, force, allowDelay, gates, manual, itemVars,
                 bgVars, memVars, version, bgError, shuttingDown, table,
                 calls>>

-----------------------------------------------------------------------------
(* Bulk insertion: BulkInsert, AddL0Tables and Write without memtables.    *)

EnterUnless(t, busy) ==
  /\ pc[t] = "enter" /\ Awake(t)
  /\ IF busy
       THEN Wait(t) /\ UNCHANGED <<pc, bulk, table>>
       ELSE /\ bulk' = TRUE
            /\ pc' = [pc EXCEPT ![t] = "dump"]
            /\ table' = [table EXCEPT ![t] = "pending"]
            /\ UNCHANGED waiters
  /\ UNCHANGED <<config, op, front, force, allowDelay, paused, freeze,
                 manualVars, itemVars, bgVars, memVars, version, bgError,
                 shuttingDown, calls>>

\* Faulty variants: an insertion ignores another one, or a running compaction.
EnterIgnoringBulk(t)       == EnterUnless(t, inProgress)
EnterIgnoringCompaction(t) == EnterUnless(t, bulk)

InsertEnter(t) == EnterUnless(t, inProgress \/ bulk)

InsertTail(t, error) ==
  /\ bulk' = FALSE
  /\ paused' = paused - 1
  /\ bgError' = (bgError \/ error)
  /\ table' = [table EXCEPT ![t] = "none"]
  /\ front' = IF front = t THEN None ELSE front
  /\ Return(t)
  /\ UNCHANGED <<config, force, allowDelay, freeze, manualVars, bgVars,
                 memVars, deep, shuttingDown, calls>>

\* Faulty variant: the threads waiting for the insertion are not woken.
InsertEndSilent(t, error) == InsertTail(t, error) /\ UNCHANGED waiters

\* The tail shared by the three insertion paths.
InsertEnd(t, error) == InsertTail(t, error) /\ SignalAll

\* The table is built (or migrated).  WriteLevel0Table takes its number out of
\* pending_outputs_ before LogAndApply; AddL0Tables keeps it there.
InsertBuilt(t) ==
  /\ pc[t] = "dump" /\ Awake(t)
  /\ pc' = [pc EXCEPT ![t] = "apply"]
  /\ table' = [table EXCEPT ![t] = IF op[t] = "addl0" THEN "pending" ELSE "bare"]
  /\ UNCHANGED <<config, op, front, force, allowDelay, waiters, gates,
                 manualVars, itemVars, bgVars, memVars, version, bgError,
                 shuttingDown, calls>>

InsertBuildFails(t) ==
  /\ pc[t] = "dump" /\ Awake(t) /\ FALSE \in Outcomes
  /\ InsertEnd(t, op[t] # "addl0")
  /\ UNCHANGED <<l0, seek>>
  /\ MaybeScheduleCompaction

\* LogAndApply has returned; only BulkInsert records its failure.  A table
\* without entries is not added; AddL0Tables adds all it has migrated.
InsertApplied(t) ==
  /\ pc[t] = "apply" /\ Awake(t)
  /\ \E ok \in Outcomes :
       /\ InsertEnd(t, ~ok /\ op[t] = "bulk")
       /\ \E n \in 0..(IF op[t] = "addl0" THEN MaxTables ELSE 1) :
            l0' = IF ok THEN l0 + n ELSE l0
       /\ seek' = IF ok THEN FALSE ELSE seek
  /\ MaybeScheduleCompaction

-----------------------------------------------------------------------------
(* Manual compactions and draining.                                        *)

CompactRangeStep(t, cancels) ==
  /\ pc[t] = "manual" /\ Awake(t)
  /\ UNCHANGED <<config, front, force, allowDelay, gates, left, done, bgVars,
                 memVars, version, bgError, shuttingDown, table, calls>>
  /\ IF done[t] \/ shuttingDown \/ bgError
       THEN /\ manual' = IF cancels THEN None ELSE manual
            /\ Return(t)
            /\ UNCHANGED <<waiters, itemVars>>
       ELSE /\ Wait(t)
            /\ UNCHANGED <<pc, op>>
            /\ manual' = IF manual = None THEN t ELSE manual
            /\ IF manual = None THEN MaybeScheduleCompaction ELSE UNCHANGED itemVars

\* Faulty variant: whichever request is registered is cancelled.
CompactRangeCancelsAny(t) == CompactRangeStep(t, TRUE)

TEST_CompactRange(t) == CompactRangeStep(t, manual = t)

DrainCompactions(t) ==
  /\ pc[t] = "drain" /\ Awake(t)
  /\ UNCHANGED <<config, front, force, allowDelay, gates, manualVars, bgVars,
                 memVars, version, bgError, shuttingDown, table, calls>>
  /\ IF HasCompaction /\ ~bgError
       THEN Wait(t) /\ UNCHANGED <<pc, op>> /\ MaybeScheduleCompaction
       ELSE Return(t) /\ UNCHANGED <<waiters, itemVars>>

-----------------------------------------------------------------------------
(* The background work item: BackgroundCall and what it calls.             *)

\* DeleteObsoleteFiles removes every table file that is neither in
\* pending_outputs_ nor in a live version, unless there was an error.
DeleteObsoleteFiles(mine) ==
  table' = [t \in Threads |->
              IF t = mine THEN "none"
              ELSE IF table[t] = "bare" /\ ~bgError' THEN "deleted" ELSE table[t]]

\* The tail of BackgroundCall.
EndCall ==
  /\ inProgress' = FALSE
  /\ bgpc' = "idle" /\ job' = "none" /\ jobIn' = 0
  /\ SignalAll
  /\ Queue

BgReady == bgpc = "idle" /\ scheduled /\ ~shuttingDown /\ ~bgError /\ paused = 0

\* Shutting down, a background error or a pause: nothing is done.
BackgroundCallAborts ==
  /\ bgpc = "idle" /\ scheduled
  /\ shuttingDown \/ bgError \/ paused > 0
  /\ UNCHANGED <<config, clientVars, gates, manualVars, memVars, version,
                 bgError, shuttingDown, table, calls>>
  /\ EndCall

BackgroundMemTable ==
  /\ BgReady /\ imm
  /\ inProgress' = TRUE
  /\ bgpc' = "dump"
  /\ table' = [table EXCEPT ![Bg] = "pending"]
  /\ UNCHANGED <<config, clientVars, waiters, gates, manualVars, itemVars, job,
                 jobIn, memVars, version, bgError, shuttingDown, calls>>

\* VersionSet::CompactRange finds nothing left: the request is done.
BackgroundManualDone ==
  /\ BgReady /\ ~imm /\ manual # None
  /\ left[manual] = 0
  /\ done' = [done EXCEPT ![manual] = TRUE]
  /\ manual' = None
  /\ UNCHANGED <<config, clientVars, gates, left, memVars, version, bgError,
                 shuttingDown, table, calls>>
  /\ EndCall

BackgroundManual ==
  /\ BgReady /\ ~imm /\ manual # None
  /\ left[manual] > 0
  /\ inProgress' = TRUE
  /\ bgpc' = "work" /\ job' = "manual" /\ jobIn' \in 0..l0
  /\ UNCHANGED <<config, clientVars, waiters, gates, manualVars, itemVars,
                 memVars, version, bgError, shuttingDown, table, calls>>

\* VersionSet::PickCompaction: by size first, else by seeks.
PickCompaction(j, n) ==
  \/ j = "level0" /\ l0 >= Trigger /\ n \in 1..l0
  \/ j = "deep" /\ deep > 0 /\ n = 0
  \/ j = "seek" /\ l0 < Trigger /\ deep = 0 /\ seek /\ n \in 0..l0

BackgroundAutoNothing ==
  /\ BgReady /\ ~imm /\ manual = None
  /\ noCompaction \/ ~NeedsCompaction
  /\ UNCHANGED <<config, clientVars, gates, manualVars, memVars, version,
                 bgError, shuttingDown, table, calls>>
  /\ EndCall

\* A trivial move (of one file) goes straight to LogAndApply.
BackgroundAuto ==
  /\ BgReady /\ ~imm /\ manual = None /\ ~noCompaction
  /\ \E j \in Jobs, n \in 0..l0 :
       /\ PickCompaction(j, n)
       /\ job' = j /\ jobIn' = n
       /\ bgpc' \in {"work"} \cup IF n <= 1 THEN {"move"} ELSE {}
  /\ inProgress' = TRUE
  /\ startedFrozen' = (disabled > 0)
  /\ UNCHANGED <<config, clientVars, waiters, paused, bulk, disabled, manualVars,
                 itemVars, memVars, version, bgError, shuttingDown, table, calls>>

\* CompactMemTable, called by BackgroundCompaction (job = "none") or from
\* inside DoCompactionWork.  AfterMemTable is what follows it there.
AfterMemTable ==
  IF job = "none"
    THEN EndCall
    ELSE /\ bgpc' = "work" /\ SignalAll
         /\ UNCHANGED <<inProgress, job, jobIn, itemVars>>

\* The table is built; a shutdown turns the success into an error.
MemTableBuilt ==
  /\ bgpc = "dump" /\ ~shuttingDown
  /\ bgpc' = "apply"
  /\ table' = [table EXCEPT ![Bg] = "bare"]
  /\ UNCHANGED <<config, clientVars, waiters, gates, manualVars, itemVars,
                 inProgress, job, jobIn, memVars, version, bgError,
                 shuttingDown, calls>>

MemTableBuildFails ==
  /\ bgpc = "dump" /\ (shuttingDown \/ FALSE \in Outcomes)
  /\ bgError' = TRUE
  /\ table' = [table EXCEPT ![Bg] = "none"]
  /\ UNCHANGED <<config, clientVars, gates, manualVars, memVars, version,
                 shuttingDown, calls>>
  /\ AfterMemTable

\* LogAndApply has returned.  An empty memtable leaves no table; otherwise
\* PickLevelForMemTableOutput may have chosen a deeper level, and overfilled it.
MemTableApplied ==
  /\ bgpc = "apply"
  /\ UNCHANGED <<config, clientVars, gates, manualVars, memFull, shuttingDown,
                 calls>>
  /\ \E ok \in Outcomes :
       IF ok
         THEN /\ imm' = FALSE /\ seek' = FALSE
              /\ l0' \in {l0, l0 + 1}
              /\ deep' \in {deep, IF l0' = l0 /\ ~noCompaction THEN deep + 1 ELSE deep}
              /\ UNCHANGED bgError
              /\ DeleteObsoleteFiles(Bg)
         ELSE /\ bgError' = TRUE
              /\ table' = [table EXCEPT ![Bg] = "none"]
              /\ UNCHANGED <<imm, version>>
  /\ AfterMemTable

\* DoCompactionWork, between two keys: memtables first, then bulk insertions.
WorkMemTable ==
  /\ bgpc = "work" /\ imm
  /\ bgpc' = "dump"
  /\ table' = [table EXCEPT ![Bg] = "pending"]
  /\ UNCHANGED <<config, clientVars, waiters, gates, manualVars, itemVars,
                 inProgress, job, jobIn, memVars, version, bgError,
                 shuttingDown, calls>>

WorkPause ==
  /\ bgpc = "work" /\ paused > 0
  /\ inProgress' = FALSE
  /\ bgpc' = "paused"
  /\ waiters' = {Bg}
  /\ UNCHANGED <<config, clientVars, gates, manualVars, itemVars, job, jobIn,
                 memVars, version, bgError, shuttingDown, table, calls>>

ResumeUnless(stay) ==
  /\ bgpc = "paused" /\ Awake(Bg)
  /\ IF stay
       THEN Wait(Bg) /\ UNCHANGED <<inProgress, bgpc>>
       ELSE /\ inProgress' = TRUE /\ bgpc' = "work"
            /\ UNCHANGED waiters
  /\ UNCHANGED <<config, clientVars, gates, manualVars, itemVars, job, jobIn,
                 memVars, version, bgError, shuttingDown, table, calls>>

\* Faulty variant: the condition is not re-checked after the wait.
WorkResumeUnchecked == ResumeUnless(FALSE)

WorkResume == ResumeUnless(paused > 0)

\* The tail of BackgroundCompaction: a manual request is taken off, marked done
\* after an error; *m is dereferenced whether or not it is still registered.
FinishCompaction(ok) ==
  IF job = "manual" /\ manual = None
    THEN /\ bgpc' = "segv" /\ job' = "none" /\ jobIn' = 0
         /\ UNCHANGED <<manualVars, inProgress, waiters, itemVars>>
    ELSE /\ IF job = "manual"
              THEN /\ done' = [done EXCEPT ![manual] = ~ok]
                   /\ left' = [left EXCEPT ![manual] = IF ok THEN @ - 1 ELSE @]
                   /\ manual' = None
              ELSE UNCHANGED manualVars
         /\ EndCall

\* The keys are exhausted: InstallCompactionResults calls LogAndApply.
WorkDone ==
  /\ bgpc = "work" /\ ~shuttingDown
  /\ bgpc' = "install"
  /\ UNCHANGED <<config, clientVars, waiters, gates, manualVars, itemVars,
                 inProgress, job, jobIn, memVars, version, bgError,
                 shuttingDown, table, calls>>

WorkFails ==
  /\ bgpc = "work" /\ (shuttingDown \/ FALSE \in Outcomes)
  /\ bgError' = TRUE
  /\ UNCHANGED <<config, clientVars, gates, memVars, version, shuttingDown,
                 table, calls>>
  /\ FinishCompaction(FALSE)

\* The new version: the inputs are gone from level 0, and the outputs may have
\* overfilled the level they went to.
Installed ==
  /\ l0' = l0 - jobIn
  /\ deep' \in IF job = "deep" THEN {deep - 1} ELSE {deep, deep + 1}
  /\ seek' = FALSE

CompactionInstalled ==
  /\ bgpc = "install"
  /\ UNCHANGED <<config, clientVars, gates, memVars, shuttingDown, calls>>
  /\ \E ok \in Outcomes :
       /\ bgError' = (bgError \/ ~ok)
       /\ IF ok THEN Installed ELSE UNCHANGED version
       /\ DeleteObsoleteFiles(Bg)
       /\ FinishCompaction(ok)

TrivialMoved ==
  /\ bgpc = "move"
  /\ UNCHANGED <<config, clientVars, gates, memVars, shuttingDown, calls>>
  /\ \E ok \in Outcomes :
       /\ bgError' = (bgError \/ ~ok)
       /\ IF ok THEN Installed ELSE UNCHANGED version
       /\ UNCHANGED <<table, manualVars>>
       /\ EndCall

-----------------------------------------------------------------------------
\* pthread_cond_wait may return without a signal.
SpuriousWakeup ==
  /\ bgpc # "segv"
  /\ \E t \in waiters : waiters' = waiters \ {t}
  /\ UNCHANGED <<config, clientVars, gates, manualVars, itemVars, bgVars,
                 memVars, version, bgError, shuttingDown, table, calls>>

Begin(t) ==
  \/ \E o \in {"write", "flush", "flushl0", "compact"} \cap workload :
       WriteBegin(t, o)
  \/ \E o \in {"bulk", "addl0"} \cap workload : InsertBegin(t, o)
  \/ "drain" \in workload /\ DrainBegin(t)
  \/ "freeze" \in workload /\ FreezeDbCompaction(t)
  \/ "get" \in workload /\ GetUpdateStats(t)
  \/ "close" \in workload /\ CloseBegin(t)

\* The steps of a call in progress.
Step(t) ==
  \/ RoomError(t) \/ RoomDelay(t) \/ RoomReady(t) \/ RoomWait(t)
  \/ RoomSwitch(t) \/ RoomSwitchFails(t) \/ RoomNoMemtable(t)
  \/ WriteLogged(t) \/ FlushWait(t)
  \/ InsertEnter(t) \/ InsertBuilt(t) \/ InsertBuildFails(t) \/ InsertApplied(t)
  \/ TEST_CompactRange(t) \/ DrainCompactions(t) \/ Close(t)

Background ==
  \/ BackgroundCallAborts \/ BackgroundMemTable
  \/ BackgroundManualDone \/ BackgroundManual
  \/ BackgroundAutoNothing \/ BackgroundAuto
  \/ MemTableBuilt \/ MemTableBuildFails \/ MemTableApplied
  \/ WorkMemTable \/ WorkPause \/ WorkResume \/ WorkDone \/ WorkFails
  \/ CompactionInstalled \/ TrivialMoved

\* Nothing to do: every call has returned, and nothing is scheduled.
Quiet ==
  /\ \A t \in Clients : pc[t] \in {"idle", "closed"}
  /\ ~scheduled
  /\ UNCHANGED vars

Crashed == bgpc = "segv" /\ UNCHANGED vars

Next ==
  \/ \E t \in Clients : Begin(t) \/ ResumeDbCompaction(t) \/ Step(t)
  \/ Background
  \/ SpuriousWakeup
  \/ Quiet
  \/ Crashed

Spec == Init /\ [][Next]_vars

\* Threads inside a call and the pool keep running; whoever froze compaction
\* resumes it; a compaction has finitely many input keys, so DoCompactionWork
\* leaves its loop.  Nobody is obliged to make a call.
Fairness ==
  /\ \A t \in Clients : WF_vars(Step(t)) /\ WF_vars(ResumeDbCompaction(t))
  /\ WF_vars(Background)
  /\ SF_vars(WorkDone \/ WorkFails)

FairSpec == Spec /\ Fairness

-----------------------------------------------------------------------------
(* Properties                                                              *)

TypeOK ==
  /\ workload \subseteq AllCalls /\ noMemtable \in BOOLEAN /\ noCompaction \in BOOLEAN
  /\ pc \in [Clients -> PCs] /\ op \in [Clients -> Ops]
  /\ waiters \subseteq Threads
  /\ front \in Clients \cup {None}
  /\ force \in BOOLEAN /\ allowDelay \in BOOLEAN
  /\ paused \in Nat /\ bulk \in BOOLEAN /\ disabled \in Nat /\ startedFrozen \in BOOLEAN
  /\ manual \in Clients \cup {None}
  /\ left \in [Clients -> Nat] /\ done \in [Clients -> BOOLEAN]
  /\ scheduled \in BOOLEAN /\ itemFrozen \in BOOLEAN
  /\ inProgress \in BOOLEAN /\ bgpc \in BgPCs /\ job \in Jobs /\ jobIn \in Nat
  /\ imm \in BOOLEAN /\ memFull \in BOOLEAN
  /\ l0 \in Nat /\ deep \in Nat /\ seek \in BOOLEAN
  /\ bgError \in BOOLEAN /\ shuttingDown \in BOOLEAN
  /\ table \in [Threads -> {"none", "pending", "bare", "deleted"}]
  /\ calls \in Nat

\* The threads that are inside VersionSet::LogAndApply, which releases the
\* mutex while it writes the manifest.
Applying == {t \in Clients : pc[t] = "apply"}
              \cup IF bgpc \in {"apply", "install", "move"} THEN {Bg} ELSE {}

Active == {"dump", "apply", "work", "install", "move"}
Inserting == {t \in Clients : pc[t] \in {"enter", "dump", "apply"}}

\* bg_compaction_paused_ counts the insertions in progress, at most one of which
\* is past its wait; it holds bulk_insert_in_progress_, which excludes
\* bg_compaction_in_progress_, which covers the active stretches of the work item.
PauseProtocol ==
  /\ paused = Cardinality(Inserting)
  /\ bulk => ~inProgress
  /\ bulk <=> \E t \in Clients : pc[t] \in {"dump", "apply"}
  /\ \A t, u \in Clients :
       pc[t] \in {"dump", "apply"} /\ pc[u] \in {"dump", "apply"} => t = u
  /\ bgpc \in Active => inProgress
  /\ bgpc \in {"idle", "paused"} => ~inProgress
  /\ bgpc \in Active \cup {"paused"} => scheduled

\* The compaction in progress stays consistent with what the other threads do
\* to the version and to the manual request meanwhile; the request may only
\* have gone away after a background error.
JobProtocol ==
  /\ jobIn <= l0
  /\ job = "deep" => deep > 0
  /\ bgpc = "idle" => job = "none"
  /\ manual # None => pc[manual] = "manual" /\ ~done[manual]
  /\ job = "manual" /\ manual # None => left[manual] > 0
  /\ job = "manual" /\ manual = None => bgError
  /\ shuttingDown => \A t \in Clients : pc[t] \in {"idle", "close", "closed"}

\* LogAndApply never runs in two threads at once, as version_set.h requires of
\* its callers: a paused compaction resumes only after every bulk insertion.
LogAndApplyExclusive == \A t, u \in Applying : t = u

\* DeleteObsoleteFiles never removes a table that was built, has left
\* pending_outputs_ and is about to be added to a version by another thread.
NoFreshTableCollected == \A t \in Threads : table[t] # "deleted"

\* A freeze lets the one item that was queued before it go on, which may still start an
\* automatic compaction; after that none starts until the thaw.  An item that was queued
\* while compaction was frozen dumps a memtable or serves a manual request.
FreezeHolds ==
  [][job = "none" /\ job' \in {"level0", "deep", "seek"} =>
       ~itemFrozen /\ ~startedFrozen]_vars

\* A running manual compaction still finds its request registered when it ends
\* and updates *manual_compaction_.
ManualStillRegistered == bgpc # "segv"

\* Every call returns, whatever the interleaving of pauses, errors and
\* shutdown: no wake-up of bg_cv_ is lost.
CallsReturn ==
  \A t \in Clients : []<>(pc[t] \in {"idle", "closed"} \/ bgpc = "segv")

\* A full memtable is dumped in the end, unless an error or a shutdown stops
\* background work for good.
MemTableDumped == []<>(~imm \/ bgError \/ shuttingDown)
=============================================================================
