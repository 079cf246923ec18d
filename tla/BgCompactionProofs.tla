------------------------- MODULE BgCompactionProofs -------------------------
(***************************************************************************)
(* Proofs about BgCompaction, for any number of clients and calls and any  *)
(* options.  IInv is the inductive invariant: PauseProtocol makes          *)
(* LogAndApply exclusive, JobProtocol keeps the counters of the version    *)
(* and the manual request in step with the running compaction, and         *)
(* TableProtocol, FrozenItem and OneStart follow the tables in flight, the *)
(* queued work item and the compactions started in a freeze.               *)
(***************************************************************************)
EXTENDS BgCompaction, FiniteSetTheorems, TLAPS

\* A table that has left pending_outputs_ belongs to a thread inside LogAndApply,
\* and no such table was ever garbage collected.
TableProtocol ==
  /\ \A t \in Clients : table[t] = "bare" => pc[t] = "apply"
  /\ table[Bg] = "bare" => bgpc = "apply"
  /\ NoFreshTableCollected

\* An item queued during a freeze still has its memtable or its request, unless
\* an error or a shutdown keeps it from running.
FrozenItem ==
  itemFrozen /\ bgpc = "idle" => imm \/ manual # None \/ bgError \/ shuttingDown

\* Once a compaction was started in a freeze, an item that waits to run was queued later.
OneStart ==
  /\ startedFrozen => disabled > 0
  /\ startedFrozen /\ scheduled /\ bgpc = "idle" => itemFrozen

IInv == TypeOK /\ PauseProtocol /\ JobProtocol /\ TableProtocol /\ FrozenItem /\ OneStart

LEMMA InitIInv == Init => IInv
<1> SUFFICES ASSUME Init PROVE IInv
  BY Zenon
<1>1. TypeOK
  BY ZenonT(30), OptionsAssumption DEF Init, TypeOK, PCs, Ops, BgPCs, Jobs
<1>2. PauseProtocol
  <2>1. Inserting = {}
    BY Zenon DEF Init, Inserting
  <2> QED
    BY <2>1, FS_EmptySet, Zenon DEF Init, PauseProtocol, Active
<1>3. JobProtocol /\ TableProtocol /\ FrozenItem /\ OneStart
  BY ThreadsAssumption DEF Init, JobProtocol, TableProtocol,
     NoFreshTableCollected, FrozenItem, OneStart, Threads
<1> QED
  BY <1>1, <1>2, <1>3, Zenon DEF IInv

-----------------------------------------------------------------------------
(* Facts about the helpers.                                                *)

\* What MaybeScheduleCompaction and the end of BackgroundCall write is Boolean.
LEMMA QueueType ==
  Queue => scheduled' \in BOOLEAN /\ itemFrozen' \in BOOLEAN
BY Zenon DEF Queue, CanSchedule

LEMMA ScheduleType ==
  /\ scheduled \in BOOLEAN /\ itemFrozen \in BOOLEAN
  /\ MaybeScheduleCompaction
  => scheduled' \in BOOLEAN /\ itemFrozen' \in BOOLEAN
BY QueueType, Zenon DEF MaybeScheduleCompaction, itemVars

\* An item queued while compaction is frozen has a memtable or a request to serve.
LEMMA QueueFrozen ==
  Queue => (itemFrozen' => imm' \/ manual' # None)
<1> SUFFICES ASSUME Queue, itemFrozen' PROVE imm' \/ manual' # None
  BY Zenon
<1>1. CanSchedule' /\ disabled' > 0
  BY Zenon DEF Queue
<1> QED
  BY <1>1 DEF CanSchedule, HasCompaction

LEMMA InsertingFinite == IsFiniteSet(Inserting)
BY ThreadsAssumption, FS_Subset, Zenon DEF Inserting

\* No insertion is past its wait when nothing is paused.
LEMMA NotPaused ==
  ASSUME PauseProtocol, paused = 0 PROVE ~bulk
<1>1. Inserting = {}
  BY ZenonT(30), InsertingFinite, FS_EmptySet DEF PauseProtocol
<1> QED
  BY <1>1, Zenon DEF PauseProtocol, Inserting

-----------------------------------------------------------------------------
(* Type correctness, one group of variables at a time: the steps that leave *)
(* the group alone are dealt with together.                                *)

WriteCalls  == {"write", "flush", "flushl0", "compact"}
InsertCalls == {"bulk", "addl0"}

ConfigTypes ==
  workload \subseteq AllCalls /\ noMemtable \in BOOLEAN /\ noCompaction \in BOOLEAN

ClientTypes ==
  /\ pc \in [Clients -> PCs] /\ op \in [Clients -> Ops]
  /\ front \in Clients \cup {None} /\ force \in BOOLEAN /\ allowDelay \in BOOLEAN
  /\ calls \in Nat

ThreadTypes ==
  /\ waiters \subseteq Threads
  /\ table \in [Threads -> {"none", "pending", "bare", "deleted"}]

RequestTypes ==
  /\ manual \in Clients \cup {None}
  /\ left \in [Clients -> Nat] /\ done \in [Clients -> BOOLEAN]

ItemTypes == scheduled \in BOOLEAN /\ itemFrozen \in BOOLEAN

WorkTypes ==
  inProgress \in BOOLEAN /\ bgpc \in BgPCs /\ job \in Jobs /\ jobIn \in Nat

CounterTypes ==
  /\ paused \in Nat /\ bulk \in BOOLEAN /\ disabled \in Nat
  /\ l0 \in Nat /\ deep \in Nat

FlagTypes ==
  /\ imm \in BOOLEAN /\ memFull \in BOOLEAN /\ seek \in BOOLEAN
  /\ bgError \in BOOLEAN /\ shuttingDown \in BOOLEAN

\* The options never change.
LEMMA ConfigStep ==
  ASSUME IInv, [Next]_vars PROVE ConfigTypes'
<1> USE DEF config, clientVars, manualVars, freeze, gates, itemVars, bgVars,
      memVars, version
<1>1. ASSUME NEW t \in Clients,
       \/ (\E o \in WriteCalls : WriteBegin(t, o))
       \/ (\E o \in InsertCalls : InsertBegin(t, o)) \/ DrainBegin(t)
       \/ FreezeDbCompaction(t) \/ GetUpdateStats(t) \/ CloseBegin(t)
       \/ ResumeDbCompaction(t)
     PROVE  UNCHANGED config
  BY <1>1, Zenon DEF WriteBegin, Start, InsertBegin, InsertCall, DrainBegin,
     FreezeDbCompaction, GetUpdateStats, CloseBegin, ResumeDbCompaction
<1>2. ASSUME NEW t \in Clients,
       \/ RoomError(t) \/ RoomDelay(t) \/ RoomReady(t) \/ RoomWait(t)
       \/ RoomSwitch(t) \/ RoomSwitchFails(t) \/ RoomNoMemtable(t)
       \/ WriteLogged(t) \/ FlushWait(t) \/ InsertEnter(t) \/ InsertBuilt(t)
       \/ InsertBuildFails(t) \/ InsertApplied(t) \/ TEST_CompactRange(t)
       \/ DrainCompactions(t) \/ Close(t)
     PROVE  UNCHANGED config
  BY ZenonT(30), <1>2 DEF RoomError, InRoom, LeaveQueue, Proceed, AfterWrite,
     RoomDelay, RoomReady, RoomWait, Wait, RoomSwitch, NewMemTable,
     RoomSwitchFails, RoomNoMemtable, WriteLogged, RecordBackgroundError,
     SignalAll, Return, FlushWait, InsertEnter, EnterUnless, InsertBuilt,
     InsertBuildFails, InsertEnd, InsertTail, InsertApplied,
     TEST_CompactRange, CompactRangeStep, DrainCompactions, Close
<1>3. ASSUME
       \/ BackgroundCallAborts \/ BackgroundMemTable \/ BackgroundManualDone
       \/ BackgroundManual \/ BackgroundAutoNothing \/ BackgroundAuto
       \/ MemTableBuilt \/ MemTableBuildFails \/ MemTableApplied
       \/ WorkMemTable \/ WorkPause \/ WorkResume \/ WorkDone \/ WorkFails
       \/ CompactionInstalled \/ TrivialMoved \/ SpuriousWakeup
     PROVE  UNCHANGED config
  BY ZenonT(30), <1>3 DEF BackgroundCallAborts, EndCall, SignalAll,
     BackgroundMemTable, BgReady, BackgroundManualDone, BackgroundManual,
     BackgroundAutoNothing, BackgroundAuto, PickCompaction, MemTableBuilt,
     MemTableBuildFails, AfterMemTable, MemTableApplied, DeleteObsoleteFiles,
     WorkMemTable, WorkPause, WorkResume, ResumeUnless, Wait, WorkDone,
     WorkFails, FinishCompaction, CompactionInstalled, Installed,
     TrivialMoved, SpuriousWakeup
<1>4. CASE UNCHANGED config
  BY <1>4, Zenon DEF IInv, TypeOK, ConfigTypes
<1> QED
  BY <1>1, <1>2, <1>3, <1>4, Zenon
  DEF Next, Begin, Step, Background, Quiet, Crashed, vars, WriteCalls,
     InsertCalls

\* Where the clients are.
LEMMA ClientStep ==
  ASSUME IInv, [Next]_vars PROVE ClientTypes'
<1> USE DEF config, clientVars, manualVars, freeze, gates, itemVars, bgVars,
      memVars, version
<1>1. ASSUME NEW t \in Clients,
       \/ ResumeDbCompaction(t)
     PROVE  UNCHANGED <<clientVars, calls>>
  BY <1>1, Zenon DEF ResumeDbCompaction
<1>2. ASSUME NEW t \in Clients,
       \/ RoomWait(t)
     PROVE  UNCHANGED <<clientVars, calls>>
  BY <1>2, Zenon DEF RoomWait, InRoom, Wait
<1>3. ASSUME
       \/ BackgroundCallAborts \/ BackgroundMemTable \/ BackgroundManualDone
       \/ BackgroundManual \/ BackgroundAutoNothing \/ BackgroundAuto
       \/ MemTableBuilt \/ MemTableBuildFails \/ MemTableApplied
       \/ WorkMemTable \/ WorkPause \/ WorkResume \/ WorkDone \/ WorkFails
       \/ CompactionInstalled \/ TrivialMoved \/ SpuriousWakeup
     PROVE  UNCHANGED <<clientVars, calls>>
  BY ZenonT(30), <1>3 DEF BackgroundCallAborts, EndCall, SignalAll,
     BackgroundMemTable, BgReady, BackgroundManualDone, BackgroundManual,
     BackgroundAutoNothing, BackgroundAuto, PickCompaction, MemTableBuilt,
     MemTableBuildFails, AfterMemTable, MemTableApplied, DeleteObsoleteFiles,
     WorkMemTable, WorkPause, WorkResume, ResumeUnless, Wait, WorkDone,
     WorkFails, FinishCompaction, CompactionInstalled, Installed,
     TrivialMoved, SpuriousWakeup
<1>4. CASE UNCHANGED <<clientVars, calls>>
  BY <1>4, Zenon DEF IInv, TypeOK, PCs, Ops, ClientTypes
<1>5. ASSUME NEW t \in Clients, NEW o \in WriteCalls, WriteBegin(t, o)
     PROVE  ClientTypes'
  BY <1>5 DEF WriteBegin, Start, IInv, TypeOK, PCs, Ops, ClientTypes,
     WriteCalls
<1>6. ASSUME NEW t \in Clients, NEW o \in InsertCalls, InsertBegin(t, o)
     PROVE  ClientTypes'
  BY <1>6 DEF InsertBegin, InsertCall, Start, IInv, TypeOK, PCs, Ops,
     ClientTypes, InsertCalls
<1>7. ASSUME NEW t \in Clients,
       \/ DrainBegin(t) \/ FreezeDbCompaction(t) \/ GetUpdateStats(t)
       \/ CloseBegin(t)
     PROVE  ClientTypes'
  <2>1. CASE DrainBegin(t)
    BY <2>1 DEF DrainBegin, Start, IInv, TypeOK, PCs, Ops, ClientTypes
  <2>2. CASE FreezeDbCompaction(t)
    BY <2>2 DEF Start, FreezeDbCompaction, IInv, TypeOK, PCs, Ops, ClientTypes
  <2>3. CASE GetUpdateStats(t)
    BY <2>3 DEF Start, GetUpdateStats, IInv, TypeOK, PCs, Ops, ClientTypes
  <2>4. CASE CloseBegin(t)
    BY <2>4, Zenon DEF CloseBegin, IInv, TypeOK, PCs, Ops, ClientTypes
  <2> QED BY <1>7, <2>1, <2>2, <2>3, <2>4, Zenon
<1>8. ASSUME NEW t \in Clients,
       \/ RoomError(t) \/ RoomDelay(t)
     PROVE  ClientTypes'
  BY ZenonT(30), <1>8 DEF RoomError, InRoom, LeaveQueue, Proceed, AfterWrite,
     RoomDelay, IInv, TypeOK, PCs, Ops, ClientTypes
<1>9. ASSUME NEW t \in Clients, RoomReady(t) PROVE ClientTypes'
  BY <1>9, Zenon DEF RoomReady, InRoom, LeaveQueue, Proceed, AfterWrite, IInv, TypeOK,
     PCs, Ops, ClientTypes
<1>10. ASSUME NEW t \in Clients,
       \/ RoomSwitch(t) \/ RoomSwitchFails(t)
     PROVE  ClientTypes'
  BY ZenonT(30), <1>10 DEF RoomSwitch, NewMemTable, InRoom, RoomSwitchFails,
     LeaveQueue, Proceed, AfterWrite, IInv, TypeOK, PCs, Ops, ClientTypes
<1>11. ASSUME NEW t \in Clients, RoomNoMemtable(t) PROVE ClientTypes'
  BY <1>11, Zenon DEF RoomNoMemtable, InRoom, LeaveQueue, Proceed, AfterWrite, IInv,
     TypeOK, PCs, Ops, ClientTypes
<1>12. ASSUME NEW t \in Clients,
       \/ WriteLogged(t) \/ FlushWait(t)
     PROVE  ClientTypes'
  BY ZenonT(30), <1>12 DEF WriteLogged, RecordBackgroundError, SignalAll,
     Return, FlushWait, Wait, Proceed, IInv, TypeOK, PCs, Ops, ClientTypes
<1>13. ASSUME NEW t \in Clients,
       \/ InsertEnter(t) \/ InsertBuilt(t)
     PROVE  ClientTypes'
  <2>1. CASE InsertEnter(t)
    BY <2>1, Zenon DEF InsertEnter, EnterUnless, Wait, IInv, TypeOK, PCs, Ops, ClientTypes
  <2>2. CASE InsertBuilt(t)
    BY <2>2, Zenon DEF Wait, InsertBuilt, IInv, TypeOK, PCs, Ops, ClientTypes
  <2> QED BY <1>13, <2>1, <2>2, Zenon
<1>14. ASSUME NEW t \in Clients,
       \/ InsertBuildFails(t) \/ InsertApplied(t)
     PROVE  ClientTypes'
  BY ZenonT(30), <1>14 DEF InsertBuildFails, InsertEnd, InsertTail, Return,
     SignalAll, InsertApplied, IInv, TypeOK, PCs, Ops, ClientTypes
<1>15. ASSUME NEW t \in Clients,
       \/ TEST_CompactRange(t) \/ DrainCompactions(t) \/ Close(t)
     PROVE  ClientTypes'
  <2>1. CASE TEST_CompactRange(t)
    BY <2>1, Zenon DEF TEST_CompactRange, CompactRangeStep, Wait, Return, IInv, TypeOK, PCs,
       Ops, ClientTypes
  <2>2. CASE DrainCompactions(t)
    BY <2>2, Zenon DEF Wait, Return, DrainCompactions, IInv, TypeOK, PCs, Ops, ClientTypes
  <2>3. CASE Close(t)
    BY <2>3, Zenon DEF Wait, Close, IInv, TypeOK, PCs, Ops, ClientTypes
  <2> QED BY <1>15, <2>1, <2>2, <2>3, Zenon
<1> QED
  BY ZenonT(30), <1>1, <1>2, <1>3, <1>4, <1>5, <1>6, <1>7, <1>8, <1>9, <1>10,
     <1>11, <1>12,
     <1>13, <1>14, <1>15
  DEF Next, Begin, Step, Background, Quiet, Crashed, vars, WriteCalls,
     InsertCalls

\* Only threads wait, and only threads build tables.
LEMMA ThreadStep ==
  ASSUME IInv, [Next]_vars PROVE ThreadTypes'
<1> USE DEF config, clientVars, manualVars, freeze, gates, itemVars, bgVars,
      memVars, version
<1>1. ASSUME NEW t \in Clients,
       \/ (\E o \in WriteCalls : WriteBegin(t, o))
       \/ (\E o \in InsertCalls : InsertBegin(t, o)) \/ DrainBegin(t)
       \/ FreezeDbCompaction(t) \/ GetUpdateStats(t) \/ CloseBegin(t)
       \/ ResumeDbCompaction(t)
     PROVE  UNCHANGED <<waiters, table>>
  BY <1>1, Zenon DEF WriteBegin, Start, InsertBegin, InsertCall, DrainBegin,
     FreezeDbCompaction, GetUpdateStats, CloseBegin, ResumeDbCompaction
<1>2. ASSUME NEW t \in Clients,
       \/ RoomError(t) \/ RoomDelay(t) \/ RoomReady(t) \/ RoomSwitch(t)
       \/ RoomSwitchFails(t) \/ RoomNoMemtable(t)
     PROVE  UNCHANGED <<waiters, table>>
  BY ZenonT(30), <1>2 DEF RoomError, InRoom, LeaveQueue, Proceed, AfterWrite,
     RoomDelay, RoomReady, RoomSwitch, NewMemTable, RoomSwitchFails,
     RoomNoMemtable
<1>3. ASSUME
       \/ BackgroundManual \/ BackgroundAuto \/ WorkDone
     PROVE  UNCHANGED <<waiters, table>>
  BY <1>3, Zenon DEF BackgroundManual, BgReady, BackgroundAuto, PickCompaction,
     WorkDone
<1>4. CASE UNCHANGED <<waiters, table>>
  BY <1>4, ThreadsAssumption, Zenon DEF IInv, TypeOK, Threads, ThreadTypes
<1>5. ASSUME NEW t \in Clients,
       \/ RoomWait(t) \/ WriteLogged(t) \/ FlushWait(t) \/ TEST_CompactRange(t)
       \/ DrainCompactions(t) \/ Close(t)
     PROVE  ThreadTypes'
  BY ZenonT(30), <1>5, ThreadsAssumption DEF RoomWait, InRoom, Wait,
     WriteLogged, RecordBackgroundError, SignalAll, Return, FlushWait,
     Proceed, TEST_CompactRange, CompactRangeStep, DrainCompactions, Close,
     IInv, TypeOK, Threads, ThreadTypes
<1>6. ASSUME NEW t \in Clients,
       \/ InsertEnter(t) \/ InsertBuilt(t)
     PROVE  ThreadTypes'
  <2>1. CASE InsertEnter(t)
    BY <2>1, ThreadsAssumption, Zenon DEF InsertEnter, EnterUnless, Wait, IInv, TypeOK,
       Threads, ThreadTypes
  <2>2. CASE InsertBuilt(t)
    BY <2>2, ThreadsAssumption, Zenon DEF Wait, InsertBuilt, IInv, TypeOK, Threads, ThreadTypes
  <2> QED BY <1>6, <2>1, <2>2, Zenon
<1>7. ASSUME NEW t \in Clients,
       \/ InsertBuildFails(t) \/ InsertApplied(t)
     PROVE  ThreadTypes'
  BY ZenonT(30), <1>7, ThreadsAssumption DEF InsertBuildFails, InsertEnd,
     InsertTail, Return, SignalAll, InsertApplied, IInv, TypeOK, Threads,
     ThreadTypes
<1>8. ASSUME
       \/ BackgroundCallAborts \/ BackgroundMemTable \/ BackgroundManualDone
       \/ BackgroundAutoNothing
     PROVE  ThreadTypes'
  BY <1>8, ThreadsAssumption, Zenon DEF BackgroundCallAborts, EndCall, SignalAll,
     BackgroundMemTable, BgReady, BackgroundManualDone, BackgroundAutoNothing,
     IInv, TypeOK, Threads, ThreadTypes
<1>9. ASSUME \/ MemTableBuilt \/ MemTableBuildFails PROVE ThreadTypes'
  BY ZenonT(30), <1>9, ThreadsAssumption DEF MemTableBuilt,
     MemTableBuildFails, AfterMemTable, EndCall, SignalAll, IInv, TypeOK,
     Threads, ThreadTypes
<1>10. CASE MemTableApplied
  BY <1>10, ThreadsAssumption, Zenon DEF MemTableApplied, AfterMemTable, EndCall,
     SignalAll, DeleteObsoleteFiles, IInv, TypeOK, Threads, ThreadTypes
<1>11. ASSUME \/ WorkMemTable \/ WorkPause \/ WorkResume PROVE ThreadTypes'
  BY <1>11, ThreadsAssumption, Zenon DEF WorkMemTable, WorkPause, WorkResume,
     ResumeUnless, Wait, IInv, TypeOK, Threads, ThreadTypes
<1>12. ASSUME \/ WorkFails \/ TrivialMoved \/ SpuriousWakeup PROVE ThreadTypes'
  BY ZenonT(30), <1>12, ThreadsAssumption DEF WorkFails, FinishCompaction,
     EndCall, SignalAll, TrivialMoved, Installed, SpuriousWakeup, IInv,
     TypeOK, Threads, ThreadTypes
<1>13. CASE CompactionInstalled
  BY <1>13, ThreadsAssumption DEF CompactionInstalled, Installed,
     DeleteObsoleteFiles, FinishCompaction, EndCall, SignalAll, IInv, TypeOK,
     Threads, ThreadTypes
<1> QED
  BY <1>1, <1>2, <1>3, <1>4, <1>5, <1>6, <1>7, <1>8, <1>9, <1>10, <1>11, <1>12,
     <1>13, Zenon
  DEF Next, Begin, Step, Background, Quiet, Crashed, vars, WriteCalls,
     InsertCalls

\* The registered request and the state of every request.
LEMMA RequestStep ==
  ASSUME IInv, [Next]_vars PROVE RequestTypes'
<1> USE DEF config, clientVars, manualVars, freeze, gates, itemVars, bgVars,
      memVars, version
<1>1. ASSUME NEW t \in Clients,
       \/ (\E o \in WriteCalls : WriteBegin(t, o))
       \/ (\E o \in InsertCalls : InsertBegin(t, o)) \/ DrainBegin(t)
       \/ FreezeDbCompaction(t) \/ GetUpdateStats(t) \/ CloseBegin(t)
       \/ ResumeDbCompaction(t)
     PROVE  UNCHANGED manualVars
  BY ZenonT(30), <1>1 DEF WriteBegin, Start, InsertBegin, InsertCall,
     DrainBegin, FreezeDbCompaction, GetUpdateStats, CloseBegin,
     ResumeDbCompaction
<1>2. ASSUME NEW t \in Clients,
       \/ RoomDelay(t) \/ RoomWait(t) \/ RoomSwitch(t) \/ WriteLogged(t)
       \/ InsertEnter(t) \/ InsertBuilt(t) \/ InsertBuildFails(t)
       \/ InsertApplied(t) \/ DrainCompactions(t) \/ Close(t)
     PROVE  UNCHANGED manualVars
  BY ZenonT(30), <1>2 DEF RoomDelay, InRoom, RoomWait, Wait, RoomSwitch,
     NewMemTable, WriteLogged, RecordBackgroundError, SignalAll, Return,
     InsertEnter, EnterUnless, InsertBuilt, InsertBuildFails, InsertEnd,
     InsertTail, InsertApplied, DrainCompactions, Close
<1>3. ASSUME
       \/ BackgroundCallAborts \/ BackgroundMemTable \/ BackgroundManual
       \/ BackgroundAutoNothing \/ BackgroundAuto \/ MemTableBuilt
       \/ MemTableBuildFails \/ MemTableApplied \/ WorkMemTable \/ WorkPause
       \/ WorkResume \/ WorkDone \/ TrivialMoved \/ SpuriousWakeup
     PROVE  UNCHANGED manualVars
  BY ZenonT(30), <1>3 DEF BackgroundCallAborts, EndCall, SignalAll,
     BackgroundMemTable, BgReady, BackgroundManual, BackgroundAutoNothing,
     BackgroundAuto, PickCompaction, MemTableBuilt, MemTableBuildFails,
     AfterMemTable, MemTableApplied, DeleteObsoleteFiles, WorkMemTable,
     WorkPause, WorkResume, ResumeUnless, Wait, WorkDone, TrivialMoved,
     Installed, SpuriousWakeup
<1>4. CASE UNCHANGED manualVars
  BY <1>4, Zenon DEF IInv, TypeOK, RequestTypes
<1>5. ASSUME NEW t \in Clients, RoomError(t) PROVE RequestTypes'
  <2>1. (manual \in Clients \cup {None})'
    BY <1>5, Zenon DEF RoomError, InRoom, LeaveQueue, Proceed, AfterWrite, IInv,
       TypeOK
  <2>2. (left \in [Clients -> Nat])'
    BY <1>5, OptionsAssumption DEF RoomError, InRoom, LeaveQueue, Proceed,
       AfterWrite, IInv, TypeOK
  <2>3. (done \in [Clients -> BOOLEAN])'
    BY ZenonT(30), <1>5 DEF RoomError, InRoom, LeaveQueue, Proceed,
       AfterWrite, IInv, TypeOK
  <2> QED
    BY <2>1, <2>2, <2>3, Zenon DEF RequestTypes, WorkTypes
<1>6. ASSUME NEW t \in Clients, RoomSwitchFails(t) PROVE RequestTypes'
  <2>1. (manual \in Clients \cup {None})'
    BY <1>6, Zenon DEF RoomSwitchFails, InRoom, LeaveQueue, Proceed, AfterWrite, IInv,
       TypeOK
  <2>2. (left \in [Clients -> Nat])'
    BY <1>6, OptionsAssumption DEF RoomSwitchFails, InRoom, LeaveQueue,
       Proceed, AfterWrite, IInv, TypeOK
  <2>3. (done \in [Clients -> BOOLEAN])'
    BY ZenonT(30), <1>6 DEF RoomSwitchFails, InRoom, LeaveQueue, Proceed,
       AfterWrite, IInv, TypeOK
  <2> QED
    BY <2>1, <2>2, <2>3, Zenon DEF RequestTypes, WorkTypes
<1>7. ASSUME NEW t \in Clients,
       \/ RoomReady(t) \/ RoomNoMemtable(t)
     PROVE  RequestTypes'
  <2>1. (manual \in Clients \cup {None})'
    BY <1>7, Zenon DEF RoomReady, InRoom, LeaveQueue, Proceed, AfterWrite,
       RoomNoMemtable, IInv, TypeOK
  <2>2. (left \in [Clients -> Nat])'
    BY <1>7, OptionsAssumption, Zenon DEF RoomReady, InRoom, LeaveQueue, Proceed,
       AfterWrite, RoomNoMemtable, IInv, TypeOK
  <2>3. (done \in [Clients -> BOOLEAN])'
    BY <1>7, Zenon DEF RoomReady, InRoom, LeaveQueue, Proceed, AfterWrite,
       RoomNoMemtable, IInv, TypeOK
  <2> QED
    BY <2>1, <2>2, <2>3, Zenon DEF RequestTypes, WorkTypes
<1>8. ASSUME NEW t \in Clients, FlushWait(t) PROVE RequestTypes'
  <2>1. (manual \in Clients \cup {None})'
    BY <1>8, Zenon DEF FlushWait, Wait, Proceed, IInv, TypeOK
  <2>2. (left \in [Clients -> Nat])'
    BY <1>8, OptionsAssumption DEF FlushWait, Wait, Proceed, IInv, TypeOK
  <2>3. (done \in [Clients -> BOOLEAN])'
    BY ZenonT(30), <1>8 DEF FlushWait, Wait, Proceed, IInv, TypeOK
  <2> QED
    BY <2>1, <2>2, <2>3, Zenon DEF RequestTypes, WorkTypes
<1>9. ASSUME NEW t \in Clients, TEST_CompactRange(t) PROVE RequestTypes'
  BY <1>9, Zenon DEF TEST_CompactRange, CompactRangeStep, Wait, Return, IInv, TypeOK,
     RequestTypes
<1>10. CASE BackgroundManualDone
  BY <1>10, Zenon DEF BackgroundManualDone, BgReady, EndCall, SignalAll, IInv, TypeOK,
     RequestTypes
<1>11. CASE WorkFails
  <2>1. (manual \in Clients \cup {None})'
    BY <1>11, Zenon DEF WorkFails, FinishCompaction, EndCall, SignalAll, IInv, TypeOK
  <2>2. (left \in [Clients -> Nat])'
    BY <1>11, Zenon DEF WorkFails, FinishCompaction, EndCall, SignalAll, IInv, TypeOK,
       JobProtocol
  <2>3. (done \in [Clients -> BOOLEAN])'
    BY ZenonT(30), <1>11 DEF WorkFails, FinishCompaction, EndCall, SignalAll,
       IInv, TypeOK, Outcomes
  <2> QED
    BY <2>1, <2>2, <2>3, Zenon DEF RequestTypes, WorkTypes
<1>12. CASE CompactionInstalled
  <2>1. (manual \in Clients \cup {None})'
    BY <1>12, Zenon DEF CompactionInstalled, Installed, DeleteObsoleteFiles,
       FinishCompaction, EndCall, SignalAll, IInv, TypeOK
  <2>2. (left \in [Clients -> Nat])'
    BY <1>12 DEF CompactionInstalled, Installed, DeleteObsoleteFiles,
       FinishCompaction, EndCall, SignalAll, IInv, TypeOK, JobProtocol
  <2>3. (done \in [Clients -> BOOLEAN])'
    BY ZenonT(30), <1>12 DEF CompactionInstalled, Installed,
       DeleteObsoleteFiles, FinishCompaction, EndCall, SignalAll, IInv,
       TypeOK, Outcomes
  <2> QED
    BY <2>1, <2>2, <2>3, Zenon DEF RequestTypes, WorkTypes
<1> QED
  BY ZenonT(30), <1>1, <1>2, <1>3, <1>4, <1>5, <1>6, <1>7, <1>8, <1>9, <1>10,
     <1>11, <1>12
  DEF Next, Begin, Step, Background, Quiet, Crashed, vars, WriteCalls,
     InsertCalls

\* The queued item.
LEMMA ItemStep ==
  ASSUME IInv, [Next]_vars PROVE ItemTypes'
<1> USE DEF config, clientVars, manualVars, freeze, gates, itemVars, bgVars,
      memVars, version
<1>1. ASSUME NEW t \in Clients,
       \/ (\E o \in WriteCalls : WriteBegin(t, o))
       \/ (\E o \in InsertCalls : InsertBegin(t, o)) \/ DrainBegin(t)
       \/ FreezeDbCompaction(t) \/ CloseBegin(t)
     PROVE  UNCHANGED itemVars
  BY <1>1, Zenon DEF WriteBegin, Start, InsertBegin, InsertCall, DrainBegin,
     FreezeDbCompaction, CloseBegin
<1>2. ASSUME NEW t \in Clients,
       \/ RoomError(t) \/ RoomDelay(t) \/ RoomReady(t) \/ RoomWait(t)
       \/ RoomSwitchFails(t) \/ RoomNoMemtable(t) \/ WriteLogged(t)
       \/ FlushWait(t) \/ InsertEnter(t) \/ InsertBuilt(t) \/ Close(t)
     PROVE  UNCHANGED itemVars
  BY ZenonT(30), <1>2 DEF RoomError, InRoom, LeaveQueue, Proceed, AfterWrite,
     RoomDelay, RoomReady, RoomWait, Wait, RoomSwitchFails, RoomNoMemtable,
     WriteLogged, RecordBackgroundError, SignalAll, Return, FlushWait,
     InsertEnter, EnterUnless, InsertBuilt, Close
<1>3. ASSUME
       \/ BackgroundMemTable \/ BackgroundManual \/ BackgroundAuto
       \/ MemTableBuilt \/ WorkMemTable \/ WorkPause \/ WorkResume \/ WorkDone
       \/ SpuriousWakeup
     PROVE  UNCHANGED itemVars
  BY <1>3, Zenon DEF BackgroundMemTable, BgReady, BackgroundManual, BackgroundAuto,
     PickCompaction, MemTableBuilt, WorkMemTable, WorkPause, WorkResume,
     ResumeUnless, Wait, WorkDone, SpuriousWakeup
<1>4. CASE UNCHANGED itemVars
  BY <1>4, Zenon DEF IInv, TypeOK, ItemTypes
<1>5. ASSUME NEW t \in Clients,
       \/ ResumeDbCompaction(t) \/ GetUpdateStats(t)
     PROVE  ItemTypes'
  BY <1>5, QueueType, ScheduleType, Zenon DEF ResumeDbCompaction, GetUpdateStats,
     IInv, TypeOK, ItemTypes
<1>6. ASSUME NEW t \in Clients,
       \/ RoomSwitch(t) \/ InsertBuildFails(t) \/ InsertApplied(t)
       \/ TEST_CompactRange(t) \/ DrainCompactions(t)
     PROVE  ItemTypes'
  BY ZenonT(30), <1>6, QueueType, ScheduleType DEF RoomSwitch, NewMemTable,
     InsertBuildFails, InsertEnd, InsertTail, InsertApplied,
     TEST_CompactRange, CompactRangeStep, DrainCompactions, IInv, TypeOK,
     ItemTypes
<1>7. ASSUME
       \/ BackgroundCallAborts \/ BackgroundManualDone \/ BackgroundAutoNothing
       \/ TrivialMoved
     PROVE  ItemTypes'
  BY <1>7, QueueType, ScheduleType, Zenon DEF BackgroundCallAborts, EndCall,
     BackgroundManualDone, BgReady, BackgroundAutoNothing, TrivialMoved,
     Installed, IInv, TypeOK, ItemTypes
<1>8. ASSUME \/ MemTableBuildFails \/ MemTableApplied PROVE ItemTypes'
  BY ZenonT(30), <1>8, QueueType, ScheduleType DEF MemTableBuildFails,
     AfterMemTable, EndCall, MemTableApplied, DeleteObsoleteFiles, IInv,
     TypeOK, ItemTypes
<1>9. ASSUME \/ WorkFails \/ CompactionInstalled PROVE ItemTypes'
  BY ZenonT(30), <1>9, QueueType, ScheduleType DEF WorkFails,
     FinishCompaction, EndCall, CompactionInstalled, Installed,
     DeleteObsoleteFiles, IInv, TypeOK, ItemTypes
<1> QED
  BY <1>1, <1>2, <1>3, <1>4, <1>5, <1>6, <1>7, <1>8, <1>9, Zenon
  DEF Next, Begin, Step, Background, Quiet, Crashed, vars, WriteCalls,
     InsertCalls

\* The running work item.
LEMMA WorkStep ==
  ASSUME IInv, [Next]_vars PROVE WorkTypes'
<1> USE DEF config, clientVars, manualVars, freeze, gates, itemVars, bgVars,
      memVars, version
<1>1. ASSUME NEW t \in Clients,
       \/ (\E o \in WriteCalls : WriteBegin(t, o))
       \/ (\E o \in InsertCalls : InsertBegin(t, o)) \/ DrainBegin(t)
       \/ FreezeDbCompaction(t) \/ GetUpdateStats(t) \/ CloseBegin(t)
       \/ ResumeDbCompaction(t)
     PROVE  UNCHANGED bgVars
  BY <1>1, Zenon DEF WriteBegin, Start, InsertBegin, InsertCall, DrainBegin,
     FreezeDbCompaction, GetUpdateStats, CloseBegin, ResumeDbCompaction
<1>2. ASSUME NEW t \in Clients,
       \/ RoomError(t) \/ RoomDelay(t) \/ RoomReady(t) \/ RoomWait(t)
       \/ RoomSwitch(t) \/ RoomSwitchFails(t) \/ RoomNoMemtable(t)
       \/ WriteLogged(t) \/ FlushWait(t) \/ InsertEnter(t) \/ InsertBuilt(t)
       \/ InsertBuildFails(t) \/ InsertApplied(t) \/ TEST_CompactRange(t)
       \/ DrainCompactions(t) \/ Close(t)
     PROVE  UNCHANGED bgVars
  BY ZenonT(30), <1>2 DEF RoomError, InRoom, LeaveQueue, Proceed, AfterWrite,
     RoomDelay, RoomReady, RoomWait, Wait, RoomSwitch, NewMemTable,
     RoomSwitchFails, RoomNoMemtable, WriteLogged, RecordBackgroundError,
     SignalAll, Return, FlushWait, InsertEnter, EnterUnless, InsertBuilt,
     InsertBuildFails, InsertEnd, InsertTail, InsertApplied,
     TEST_CompactRange, CompactRangeStep, DrainCompactions, Close
<1>3. ASSUME SpuriousWakeup PROVE UNCHANGED bgVars
  BY <1>3, Zenon DEF SpuriousWakeup
<1>4. CASE UNCHANGED bgVars
  BY <1>4, Zenon DEF IInv, TypeOK, BgPCs, Jobs, WorkTypes
<1>5. ASSUME
       \/ BackgroundCallAborts \/ BackgroundManualDone \/ BackgroundAutoNothing
     PROVE  WorkTypes'
  <2>1. (inProgress \in BOOLEAN)'
    BY ZenonT(30), <1>5 DEF BackgroundCallAborts, EndCall, SignalAll,
       BackgroundManualDone, BgReady, BackgroundAutoNothing, IInv, TypeOK
  <2>2. (bgpc \in BgPCs)'
    BY <1>5, Zenon DEF BackgroundCallAborts, EndCall, SignalAll, BackgroundManualDone,
       BgReady, BackgroundAutoNothing, IInv, TypeOK, BgPCs
  <2>3. (job \in Jobs)'
    BY <1>5, Zenon DEF BackgroundCallAborts, EndCall, SignalAll, BackgroundManualDone,
       BgReady, BackgroundAutoNothing, IInv, TypeOK, Jobs
  <2>4. (jobIn \in Nat)'
    BY <1>5 DEF BackgroundCallAborts, EndCall, SignalAll, BackgroundManualDone,
       BgReady, BackgroundAutoNothing, IInv, TypeOK
  <2> QED
    BY <2>1, <2>2, <2>3, <2>4, Zenon DEF RequestTypes, WorkTypes
<1>6. CASE BackgroundMemTable
  BY <1>6, Zenon DEF BackgroundMemTable, BgReady, IInv, TypeOK, BgPCs, Jobs, WorkTypes
<1>7. CASE BackgroundManual
  BY <1>7 DEF BackgroundManual, BgReady, IInv, TypeOK, BgPCs, Jobs, WorkTypes
<1>8. CASE BackgroundAuto
  BY <1>8 DEF BackgroundAuto, BgReady, PickCompaction, IInv, TypeOK, BgPCs,
     Jobs, WorkTypes
<1>9. ASSUME
       \/ MemTableBuilt \/ WorkMemTable \/ WorkPause \/ WorkResume \/ WorkDone
     PROVE  WorkTypes'
  BY ZenonT(30), <1>9 DEF MemTableBuilt, WorkMemTable, WorkPause, WorkResume,
     ResumeUnless, Wait, WorkDone, IInv, TypeOK, BgPCs, Jobs, WorkTypes
<1>10. CASE MemTableBuildFails
  <2>1. (inProgress \in BOOLEAN)'
    BY ZenonT(30), <1>10 DEF MemTableBuildFails, AfterMemTable, EndCall,
       SignalAll, IInv, TypeOK
  <2>2. (bgpc \in BgPCs)'
    BY <1>10, Zenon DEF MemTableBuildFails, AfterMemTable, EndCall, SignalAll, IInv,
       TypeOK, BgPCs
  <2>3. (job \in Jobs)'
    BY <1>10, Zenon DEF MemTableBuildFails, AfterMemTable, EndCall, SignalAll, IInv,
       TypeOK, Jobs
  <2>4. (jobIn \in Nat)'
    BY <1>10 DEF MemTableBuildFails, AfterMemTable, EndCall, SignalAll, IInv,
       TypeOK
  <2> QED
    BY <2>1, <2>2, <2>3, <2>4, Zenon DEF RequestTypes, WorkTypes
<1>11. CASE MemTableApplied
  <2>1. (inProgress \in BOOLEAN)'
    BY ZenonT(30), <1>11 DEF MemTableApplied, AfterMemTable, EndCall,
       SignalAll, DeleteObsoleteFiles, IInv, TypeOK
  <2>2. (bgpc \in BgPCs)'
    BY <1>11, Zenon DEF MemTableApplied, AfterMemTable, EndCall, SignalAll,
       DeleteObsoleteFiles, IInv, TypeOK, BgPCs
  <2>3. (job \in Jobs)'
    BY <1>11, Zenon DEF MemTableApplied, AfterMemTable, EndCall, SignalAll,
       DeleteObsoleteFiles, IInv, TypeOK, Jobs
  <2>4. (jobIn \in Nat)'
    BY <1>11 DEF MemTableApplied, AfterMemTable, EndCall, SignalAll,
       DeleteObsoleteFiles, IInv, TypeOK
  <2> QED
    BY <2>1, <2>2, <2>3, <2>4, Zenon DEF RequestTypes, WorkTypes
<1>12. CASE WorkFails
  <2>1. (inProgress \in BOOLEAN)'
    BY ZenonT(30), <1>12 DEF WorkFails, FinishCompaction, EndCall, SignalAll,
       IInv, TypeOK
  <2>2. (bgpc \in BgPCs)'
    BY <1>12, Zenon DEF WorkFails, FinishCompaction, EndCall, SignalAll, IInv, TypeOK,
       BgPCs
  <2>3. (job \in Jobs)'
    BY <1>12, Zenon DEF WorkFails, FinishCompaction, EndCall, SignalAll, IInv, TypeOK,
       Jobs
  <2>4. (jobIn \in Nat)'
    BY <1>12 DEF WorkFails, FinishCompaction, EndCall, SignalAll, IInv, TypeOK
  <2> QED
    BY <2>1, <2>2, <2>3, <2>4, Zenon DEF RequestTypes, WorkTypes
<1>13. CASE CompactionInstalled
  <2>1. (inProgress \in BOOLEAN)'
    BY ZenonT(30), <1>13 DEF CompactionInstalled, Installed,
       DeleteObsoleteFiles, FinishCompaction, EndCall, SignalAll, IInv, TypeOK
  <2>2. (bgpc \in BgPCs)'
    BY <1>13, Zenon DEF CompactionInstalled, Installed, DeleteObsoleteFiles,
       FinishCompaction, EndCall, SignalAll, IInv, TypeOK, BgPCs
  <2>3. (job \in Jobs)'
    BY <1>13, Zenon DEF CompactionInstalled, Installed, DeleteObsoleteFiles,
       FinishCompaction, EndCall, SignalAll, IInv, TypeOK, Jobs
  <2>4. (jobIn \in Nat)'
    BY <1>13 DEF CompactionInstalled, Installed, DeleteObsoleteFiles,
       FinishCompaction, EndCall, SignalAll, IInv, TypeOK
  <2> QED
    BY <2>1, <2>2, <2>3, <2>4, Zenon DEF RequestTypes, WorkTypes
<1>14. CASE TrivialMoved
  <2>1. (inProgress \in BOOLEAN)'
    BY ZenonT(30), <1>14 DEF TrivialMoved, Installed, EndCall, SignalAll,
       IInv, TypeOK
  <2>2. (bgpc \in BgPCs)'
    BY <1>14, Zenon DEF TrivialMoved, Installed, EndCall, SignalAll, IInv, TypeOK,
       BgPCs
  <2>3. (job \in Jobs)'
    BY <1>14, Zenon DEF TrivialMoved, Installed, EndCall, SignalAll, IInv, TypeOK,
       Jobs
  <2>4. (jobIn \in Nat)'
    BY <1>14 DEF TrivialMoved, Installed, EndCall, SignalAll, IInv, TypeOK
  <2> QED
    BY <2>1, <2>2, <2>3, <2>4, Zenon DEF RequestTypes, WorkTypes
<1> QED
  BY ZenonT(30), <1>1, <1>2, <1>3, <1>4, <1>5, <1>6, <1>7, <1>8, <1>9, <1>10,
     <1>11, <1>12,
     <1>13, <1>14
  DEF Next, Begin, Step, Background, Quiet, Crashed, vars, WriteCalls,
     InsertCalls

\* The counters never go below zero.
LEMMA CounterStep ==
  ASSUME IInv, [Next]_vars PROVE CounterTypes'
<1> USE DEF config, clientVars, manualVars, freeze, gates, itemVars, bgVars,
      memVars, version
<1>1. ASSUME NEW t \in Clients,
       \/ (\E o \in WriteCalls : WriteBegin(t, o)) \/ DrainBegin(t)
       \/ GetUpdateStats(t) \/ CloseBegin(t)
     PROVE  UNCHANGED <<paused, bulk, disabled, l0, deep>>
  BY <1>1, Zenon DEF WriteBegin, Start, DrainBegin, GetUpdateStats, CloseBegin
<1>2. ASSUME NEW t \in Clients,
       \/ RoomError(t) \/ RoomDelay(t) \/ RoomReady(t) \/ RoomWait(t)
       \/ RoomSwitch(t) \/ RoomSwitchFails(t) \/ WriteLogged(t) \/ FlushWait(t)
       \/ InsertBuilt(t) \/ TEST_CompactRange(t) \/ DrainCompactions(t)
       \/ Close(t)
     PROVE  UNCHANGED <<paused, bulk, disabled, l0, deep>>
  BY ZenonT(30), <1>2 DEF RoomError, InRoom, LeaveQueue, Proceed, AfterWrite,
     RoomDelay, RoomReady, RoomWait, Wait, RoomSwitch, NewMemTable,
     RoomSwitchFails, WriteLogged, RecordBackgroundError, SignalAll, Return,
     FlushWait, InsertBuilt, TEST_CompactRange, CompactRangeStep,
     DrainCompactions, Close
<1>3. ASSUME
       \/ BackgroundCallAborts \/ BackgroundMemTable \/ BackgroundManualDone
       \/ BackgroundManual \/ BackgroundAutoNothing \/ BackgroundAuto
       \/ MemTableBuilt \/ MemTableBuildFails \/ WorkMemTable \/ WorkPause
       \/ WorkResume \/ WorkDone \/ WorkFails \/ SpuriousWakeup
     PROVE  UNCHANGED <<paused, bulk, disabled, l0, deep>>
  BY ZenonT(30), <1>3 DEF BackgroundCallAborts, EndCall, SignalAll,
     BackgroundMemTable, BgReady, BackgroundManualDone, BackgroundManual,
     BackgroundAutoNothing, BackgroundAuto, PickCompaction, MemTableBuilt,
     MemTableBuildFails, AfterMemTable, WorkMemTable, WorkPause, WorkResume,
     ResumeUnless, Wait, WorkDone, WorkFails, FinishCompaction, SpuriousWakeup
<1>4. CASE UNCHANGED <<paused, bulk, disabled, l0, deep>>
  BY <1>4, Zenon DEF IInv, TypeOK, CounterTypes
<1>5. ASSUME NEW t \in Clients, NEW o \in InsertCalls, InsertBegin(t, o)
     PROVE  CounterTypes'
  BY <1>5 DEF InsertBegin, InsertCall, Start, IInv, TypeOK, CounterTypes
<1>6. ASSUME NEW t \in Clients,
       \/ FreezeDbCompaction(t) \/ ResumeDbCompaction(t)
     PROVE  CounterTypes'
  <2>1. CASE FreezeDbCompaction(t)
    BY <2>1 DEF FreezeDbCompaction, Start, IInv, TypeOK, CounterTypes
  <2>2. CASE ResumeDbCompaction(t)
    BY <2>2 DEF ResumeDbCompaction, IInv, TypeOK, CounterTypes
  <2> QED BY <1>6, <2>1, <2>2, Zenon
<1>7. ASSUME NEW t \in Clients, RoomNoMemtable(t) PROVE CounterTypes'
  BY <1>7 DEF RoomNoMemtable, InRoom, LeaveQueue, Proceed, AfterWrite, IInv,
     TypeOK, CounterTypes
<1>8. ASSUME NEW t \in Clients, InsertEnter(t) PROVE CounterTypes'
  BY ZenonT(30), <1>8 DEF InsertEnter, EnterUnless, Wait, IInv, TypeOK,
     CounterTypes
<1>9. ASSUME NEW t \in Clients, InsertBuildFails(t) PROVE CounterTypes'
  <2>1. t \in Inserting
    BY <1>9, Zenon DEF InsertBuildFails, Inserting
  <2>2. paused > 0
    BY <2>1, InsertingFinite, FS_EmptySet DEF IInv, TypeOK, PauseProtocol
  <2>3. (paused \in Nat)'
    BY <1>9, <2>2 DEF InsertBuildFails, InsertEnd,
       InsertTail, Return, SignalAll, IInv, TypeOK
  <2>4. (l0 \in Nat)'
    BY <1>9, OptionsAssumption, Zenon DEF InsertBuildFails,
       InsertEnd, InsertTail, Return, SignalAll, IInv, TypeOK
  <2> QED
    BY ZenonT(30), <1>9, <2>3, <2>4 DEF InsertBuildFails, InsertEnd,
       InsertTail, Return, SignalAll, IInv, TypeOK, CounterTypes
<1>10. ASSUME NEW t \in Clients, InsertApplied(t) PROVE CounterTypes'
  <2>1. t \in Inserting
    BY <1>10, Zenon DEF InsertApplied, Inserting
  <2>2. paused > 0
    BY <2>1, InsertingFinite, FS_EmptySet DEF IInv, TypeOK, PauseProtocol
  <2>3. (paused \in Nat)'
    BY <1>10, <2>2 DEF InsertApplied, InsertEnd,
       InsertTail, Return, SignalAll, IInv, TypeOK
  <2>4. (l0 \in Nat)'
    BY <1>10, OptionsAssumption DEF InsertApplied,
       InsertEnd, InsertTail, Return, SignalAll, IInv, TypeOK
  <2> QED
    BY ZenonT(30), <1>10, <2>3, <2>4 DEF InsertApplied, InsertEnd, InsertTail,
       Return, SignalAll, IInv, TypeOK, CounterTypes
<1>11. CASE MemTableApplied
  BY <1>11 DEF MemTableApplied, AfterMemTable, EndCall, SignalAll,
     DeleteObsoleteFiles, IInv, TypeOK, CounterTypes
<1>12. CASE CompactionInstalled
  BY <1>12 DEF CompactionInstalled, Installed, DeleteObsoleteFiles,
     FinishCompaction, EndCall, SignalAll, IInv, TypeOK, CounterTypes,
     JobProtocol
<1>13. CASE TrivialMoved
  BY <1>13 DEF TrivialMoved, Installed, EndCall, SignalAll, IInv, TypeOK,
     CounterTypes, JobProtocol
<1> QED
  BY ZenonT(30), <1>1, <1>2, <1>3, <1>4, <1>5, <1>6, <1>7, <1>8, <1>9, <1>10,
     <1>11, <1>12,
     <1>13
  DEF Next, Begin, Step, Background, Quiet, Crashed, vars, WriteCalls,
     InsertCalls

\* The flags.
LEMMA FlagStep ==
  ASSUME IInv, [Next]_vars PROVE FlagTypes'
<1> USE DEF config, clientVars, manualVars, freeze, gates, itemVars, bgVars,
      memVars, version
<1>1. ASSUME NEW t \in Clients,
       \/ (\E o \in WriteCalls : WriteBegin(t, o))
       \/ (\E o \in InsertCalls : InsertBegin(t, o)) \/ DrainBegin(t)
       \/ FreezeDbCompaction(t) \/ ResumeDbCompaction(t)
     PROVE  UNCHANGED <<memVars, seek, bgError, shuttingDown>>
  BY ZenonT(30), <1>1 DEF WriteBegin, Start, InsertBegin, InsertCall,
     DrainBegin, FreezeDbCompaction, ResumeDbCompaction
<1>2. ASSUME NEW t \in Clients,
       \/ RoomError(t) \/ RoomDelay(t) \/ RoomReady(t) \/ RoomWait(t)
       \/ RoomSwitchFails(t) \/ RoomNoMemtable(t) \/ FlushWait(t)
       \/ InsertEnter(t) \/ InsertBuilt(t) \/ TEST_CompactRange(t)
       \/ DrainCompactions(t) \/ Close(t)
     PROVE  UNCHANGED <<memVars, seek, bgError, shuttingDown>>
  BY ZenonT(30), <1>2 DEF RoomError, InRoom, LeaveQueue, Proceed, AfterWrite,
     RoomDelay, RoomReady, RoomWait, Wait, RoomSwitchFails, RoomNoMemtable,
     FlushWait, InsertEnter, EnterUnless, InsertBuilt, TEST_CompactRange,
     CompactRangeStep, Return, DrainCompactions, Close
<1>3. ASSUME
       \/ BackgroundCallAborts \/ BackgroundMemTable \/ BackgroundManualDone
       \/ BackgroundManual \/ BackgroundAutoNothing \/ BackgroundAuto
       \/ MemTableBuilt \/ WorkMemTable \/ WorkPause \/ WorkResume \/ WorkDone
       \/ SpuriousWakeup
     PROVE  UNCHANGED <<memVars, seek, bgError, shuttingDown>>
  BY ZenonT(30), <1>3 DEF BackgroundCallAborts, EndCall, SignalAll,
     BackgroundMemTable, BgReady, BackgroundManualDone, BackgroundManual,
     BackgroundAutoNothing, BackgroundAuto, PickCompaction, MemTableBuilt,
     WorkMemTable, WorkPause, WorkResume, ResumeUnless, Wait, WorkDone,
     SpuriousWakeup
<1>4. CASE UNCHANGED <<memVars, seek, bgError, shuttingDown>>
  BY <1>4, Zenon DEF IInv, TypeOK, Outcomes, FlagTypes
<1>5. ASSUME NEW t \in Clients,
       \/ GetUpdateStats(t) \/ CloseBegin(t)
     PROVE  FlagTypes'
  BY ZenonT(30), <1>5 DEF GetUpdateStats, Start, CloseBegin, IInv, TypeOK,
     Outcomes, FlagTypes
<1>6. ASSUME NEW t \in Clients,
       \/ RoomSwitch(t) \/ WriteLogged(t)
     PROVE  FlagTypes'
  BY ZenonT(30), <1>6 DEF RoomSwitch, NewMemTable, InRoom, WriteLogged,
     RecordBackgroundError, SignalAll, Return, IInv, TypeOK, Outcomes,
     FlagTypes
<1>7. ASSUME NEW t \in Clients, InsertBuildFails(t) PROVE FlagTypes'
  BY <1>7, Zenon DEF InsertBuildFails, InsertEnd, InsertTail, Return, SignalAll, IInv,
     TypeOK, Outcomes, FlagTypes
<1>8. ASSUME NEW t \in Clients, InsertApplied(t) PROVE FlagTypes'
  BY ZenonT(30), <1>8 DEF InsertApplied, InsertEnd, InsertTail, Return,
     SignalAll, IInv, TypeOK, Outcomes, FlagTypes
<1>9. ASSUME \/ MemTableBuildFails \/ MemTableApplied PROVE FlagTypes'
  BY ZenonT(30), <1>9 DEF MemTableBuildFails, AfterMemTable, EndCall,
     SignalAll, MemTableApplied, DeleteObsoleteFiles, IInv, TypeOK, Outcomes,
     FlagTypes
<1>10. ASSUME
       \/ WorkFails \/ CompactionInstalled \/ TrivialMoved
     PROVE  FlagTypes'
  BY ZenonT(30), <1>10 DEF WorkFails, FinishCompaction, EndCall, SignalAll,
     CompactionInstalled, Installed, DeleteObsoleteFiles, TrivialMoved, IInv,
     TypeOK, Outcomes, FlagTypes
<1> QED
  BY ZenonT(30), <1>1, <1>2, <1>3, <1>4, <1>5, <1>6, <1>7, <1>8, <1>9, <1>10
  DEF Next, Begin, Step, Background, Quiet, Crashed, vars, WriteCalls,
     InsertCalls

-----------------------------------------------------------------------------
(* The other parts of the invariant.                                       *)

\* A running compaction stays in step with the version and its request.
LEMMA JobStep ==
  ASSUME IInv, [Next]_vars PROVE JobProtocol'
<1> USE DEF config, clientVars, manualVars, freeze, gates, itemVars, bgVars,
      memVars, version
<1>0. /\ JobProtocol
     /\ pc \in [Clients -> PCs] /\ jobIn \in Nat /\ l0 \in Nat /\ deep \in Nat
     /\ manual \in Clients \cup {None} /\ left \in [Clients -> Nat]
     /\ done \in [Clients -> BOOLEAN]
  BY Zenon DEF IInv, TypeOK
<1>1. ASSUME NEW t \in Clients,
       \/ ResumeDbCompaction(t)
     PROVE  UNCHANGED <<jobIn, l0, job, deep, bgpc, manualVars, pc, bgError, shuttingDown>>
  BY <1>1, Zenon DEF ResumeDbCompaction
<1>2. ASSUME NEW t \in Clients,
       \/ RoomDelay(t) \/ RoomWait(t) \/ RoomSwitch(t)
     PROVE  UNCHANGED <<jobIn, l0, job, deep, bgpc, manualVars, pc, bgError, shuttingDown>>
  BY <1>2, Zenon DEF RoomDelay, InRoom, RoomWait, Wait, RoomSwitch, NewMemTable
<1>3. ASSUME
       \/ SpuriousWakeup
     PROVE  UNCHANGED <<jobIn, l0, job, deep, bgpc, manualVars, pc, bgError, shuttingDown>>
  BY <1>3, Zenon DEF SpuriousWakeup
<1>4. CASE UNCHANGED <<jobIn, l0, job, deep, bgpc, manualVars, pc, bgError, shuttingDown>>
  BY <1>4, <1>0, ThreadsAssumption, Zenon DEF JobProtocol, Awake
<1>5. ASSUME NEW t \in Clients, NEW o \in WriteCalls, WriteBegin(t, o)
     PROVE  JobProtocol'
  BY <1>5, <1>0, ThreadsAssumption, Zenon DEF WriteBegin, Start, JobProtocol, Awake
<1>6. ASSUME NEW t \in Clients, NEW o \in InsertCalls, InsertBegin(t, o)
     PROVE  JobProtocol'
  BY <1>6, <1>0, ThreadsAssumption, Zenon DEF InsertBegin, InsertCall, Start,
     JobProtocol, Awake
<1>7. ASSUME NEW t \in Clients,
       \/ DrainBegin(t) \/ FreezeDbCompaction(t)
     PROVE  JobProtocol'
  <2>1. CASE DrainBegin(t)
    BY <2>1, <1>0, ThreadsAssumption, Zenon DEF DrainBegin, Start, JobProtocol, Awake
  <2>2. CASE FreezeDbCompaction(t)
    BY <2>2, <1>0, ThreadsAssumption, Zenon DEF Start, FreezeDbCompaction, JobProtocol, Awake
  <2> QED BY <1>7, <2>1, <2>2, Zenon
<1>8. ASSUME NEW t \in Clients,
       \/ GetUpdateStats(t) \/ CloseBegin(t)
     PROVE  JobProtocol'
  <2>1. CASE GetUpdateStats(t)
    BY <2>1, <1>0, ThreadsAssumption, Zenon DEF GetUpdateStats, Start, JobProtocol, Awake
  <2>2. CASE CloseBegin(t)
    BY <2>2, <1>0, ThreadsAssumption, Zenon DEF CloseBegin, JobProtocol, Awake
  <2> QED BY <1>8, <2>1, <2>2, Zenon
<1>9. ASSUME NEW t \in Clients,
       \/ RoomError(t) \/ RoomReady(t)
     PROVE  JobProtocol'
  <2>1. CASE RoomError(t)
    BY <2>1, <1>0, ThreadsAssumption, Zenon DEF RoomError, InRoom, LeaveQueue, Proceed,
       AfterWrite, JobProtocol, Awake
  <2>2. CASE RoomReady(t)
    BY <2>2, <1>0, ThreadsAssumption, Zenon DEF InRoom, LeaveQueue, Proceed, AfterWrite,
       RoomReady, JobProtocol, Awake
  <2> QED BY <1>9, <2>1, <2>2, Zenon
<1>10. ASSUME NEW t \in Clients, RoomSwitchFails(t) PROVE JobProtocol'
  BY <1>10, <1>0, ThreadsAssumption, Zenon DEF RoomSwitchFails, InRoom, LeaveQueue,
     Proceed, AfterWrite, JobProtocol, Awake
<1>11. ASSUME NEW t \in Clients, RoomNoMemtable(t) PROVE JobProtocol'
  BY <1>11, <1>0, ThreadsAssumption, Zenon DEF RoomNoMemtable, InRoom, LeaveQueue,
     Proceed, AfterWrite, JobProtocol, Awake
<1>12. ASSUME NEW t \in Clients, WriteLogged(t) PROVE JobProtocol'
  BY ZenonT(30), <1>12, <1>0, ThreadsAssumption DEF WriteLogged,
     RecordBackgroundError, SignalAll, Return, JobProtocol, Awake
<1>13. ASSUME NEW t \in Clients, FlushWait(t) PROVE JobProtocol'
  BY <1>13, <1>0, ThreadsAssumption, Zenon DEF FlushWait, Wait, Proceed, JobProtocol,
     Awake
<1>14. ASSUME NEW t \in Clients,
       \/ InsertEnter(t) \/ InsertBuilt(t)
     PROVE  JobProtocol'
  <2>1. CASE InsertEnter(t)
    BY <2>1, <1>0, ThreadsAssumption, Zenon DEF InsertEnter, EnterUnless, Wait, JobProtocol,
       Awake
  <2>2. CASE InsertBuilt(t)
    BY <2>2, <1>0, ThreadsAssumption, Zenon DEF Wait, InsertBuilt, JobProtocol, Awake
  <2> QED BY <1>14, <2>1, <2>2, Zenon
<1>15. ASSUME NEW t \in Clients, InsertBuildFails(t) PROVE JobProtocol'
  BY ZenonT(30), <1>15, <1>0, ThreadsAssumption DEF InsertBuildFails,
     InsertEnd, InsertTail, Return, SignalAll, JobProtocol, Awake
<1>16. ASSUME NEW t \in Clients, InsertApplied(t) PROVE JobProtocol'
  <2>1. /\ UNCHANGED <<jobIn, job, deep, bgpc, manualVars, shuttingDown>>
        /\ pc' = [pc EXCEPT ![t] = "idle"] /\ pc[t] = "apply"
        /\ bgError => bgError'
    BY ZenonT(30), <1>16 DEF InsertApplied, InsertEnd, InsertTail, Return
  <2>2. l0' \in Nat /\ l0' >= l0
    BY <1>16, <1>0 DEF InsertApplied
  <2> QED
    BY <2>1, <2>2, <1>0, ThreadsAssumption DEF JobProtocol, PCs
<1>17. ASSUME NEW t \in Clients, TEST_CompactRange(t) PROVE JobProtocol'
  BY <1>17, <1>0, ThreadsAssumption, Zenon DEF TEST_CompactRange, CompactRangeStep,
     Wait, Return, JobProtocol, Awake
<1>18. ASSUME NEW t \in Clients,
       \/ DrainCompactions(t) \/ Close(t)
     PROVE  JobProtocol'
  <2>1. CASE DrainCompactions(t)
    BY <2>1, <1>0, ThreadsAssumption, Zenon DEF DrainCompactions, Wait, Return, JobProtocol,
       Awake
  <2>2. CASE Close(t)
    BY <2>2, <1>0, ThreadsAssumption, Zenon DEF Wait, Close, JobProtocol, Awake
  <2> QED BY <1>18, <2>1, <2>2, Zenon
<1>19. ASSUME
       \/ BackgroundCallAborts \/ BackgroundMemTable \/ BackgroundManualDone
     PROVE  JobProtocol'
  <2>1. CASE BackgroundCallAborts
    BY <2>1, <1>0, ThreadsAssumption DEF BackgroundCallAborts, EndCall, SignalAll,
       JobProtocol, Awake
  <2>2. CASE BackgroundMemTable
    BY <2>2, <1>0, ThreadsAssumption, Zenon DEF BackgroundMemTable, BgReady, JobProtocol, Awake
  <2>3. CASE BackgroundManualDone
    BY <2>3, <1>0, ThreadsAssumption DEF EndCall, SignalAll, BgReady,
       BackgroundManualDone, JobProtocol, Awake
  <2> QED BY <1>19, <2>1, <2>2, <2>3, Zenon
<1>20. ASSUME \/ BackgroundManual \/ BackgroundAutoNothing PROVE JobProtocol'
  <2>1. CASE BackgroundManual
    BY <2>1, <1>0, ThreadsAssumption DEF BackgroundManual, BgReady, JobProtocol, Awake
  <2>2. CASE BackgroundAutoNothing
    BY <2>2, <1>0, ThreadsAssumption DEF BgReady, BackgroundAutoNothing, EndCall,
       SignalAll, JobProtocol, Awake
  <2> QED BY <1>20, <2>1, <2>2, Zenon
<1>21. CASE BackgroundAuto
  BY <1>21, <1>0, ThreadsAssumption DEF BackgroundAuto, BgReady,
     PickCompaction, JobProtocol, Awake, Jobs
<1>22. CASE MemTableBuilt
  BY <1>22, <1>0, ThreadsAssumption, Zenon DEF MemTableBuilt, JobProtocol, Awake
<1>23. CASE MemTableBuildFails
  BY <1>23, <1>0, ThreadsAssumption DEF MemTableBuildFails, AfterMemTable,
     EndCall, SignalAll, JobProtocol, Awake
<1>24. CASE MemTableApplied
  BY <1>24, <1>0, ThreadsAssumption DEF MemTableApplied, AfterMemTable,
     EndCall, SignalAll, DeleteObsoleteFiles, JobProtocol, Awake
<1>25. CASE WorkMemTable
  BY <1>25, <1>0, ThreadsAssumption, Zenon DEF WorkMemTable, JobProtocol, Awake
<1>26. CASE WorkPause
  BY <1>26, <1>0, ThreadsAssumption, Zenon DEF WorkPause, JobProtocol, Awake
<1>27. CASE WorkResume
  BY <1>27, <1>0, ThreadsAssumption, Zenon DEF WorkResume, ResumeUnless, Wait,
     JobProtocol, Awake
<1>28. CASE WorkDone
  BY <1>28, <1>0, ThreadsAssumption, Zenon DEF WorkDone, JobProtocol, Awake
<1>29. CASE WorkFails
  BY <1>29, <1>0, ThreadsAssumption DEF WorkFails, FinishCompaction, EndCall,
     SignalAll, JobProtocol, Awake
<1>30. CASE CompactionInstalled
  BY <1>30, <1>0, ThreadsAssumption DEF CompactionInstalled, Installed,
     DeleteObsoleteFiles, FinishCompaction, EndCall, SignalAll, JobProtocol,
     Awake
<1>31. CASE TrivialMoved
  BY <1>31, <1>0, ThreadsAssumption DEF TrivialMoved, Installed, EndCall,
     SignalAll, JobProtocol, Awake
<1> QED
  BY ZenonT(30), <1>1, <1>2, <1>3, <1>4, <1>5, <1>6, <1>7, <1>8, <1>9, <1>10,
     <1>11, <1>12,
     <1>13, <1>14, <1>15, <1>16, <1>17, <1>18, <1>19, <1>20, <1>21, <1>22,
     <1>23, <1>24, <1>25, <1>26, <1>27, <1>28, <1>29, <1>30, <1>31
  DEF Next, Begin, Step, Background, Quiet, Crashed, vars, WriteCalls,
     InsertCalls

\* Garbage collection happens while no other thread has a bare table.
LEMMA TableStep ==
  ASSUME IInv, [Next]_vars PROVE TableProtocol'
<1> USE DEF config, clientVars, manualVars, freeze, gates, itemVars, bgVars,
      memVars, version
<1>0. /\ TableProtocol /\ PauseProtocol
     /\ pc \in [Clients -> PCs]
     /\ table \in [Threads -> {"none", "pending", "bare", "deleted"}]
  BY Zenon DEF IInv, TypeOK
<1>1. ASSUME NEW t \in Clients,
       \/ ResumeDbCompaction(t)
     PROVE  UNCHANGED <<table, pc, bgpc>>
  BY <1>1, Zenon DEF ResumeDbCompaction
<1>2. ASSUME NEW t \in Clients,
       \/ RoomDelay(t) \/ RoomWait(t) \/ RoomSwitch(t)
     PROVE  UNCHANGED <<table, pc, bgpc>>
  BY <1>2, Zenon DEF RoomDelay, InRoom, RoomWait, Wait, RoomSwitch, NewMemTable
<1>3. ASSUME SpuriousWakeup PROVE UNCHANGED <<table, pc, bgpc>>
  BY <1>3, Zenon DEF SpuriousWakeup
<1>4. CASE UNCHANGED <<table, pc, bgpc>>
  BY <1>4, <1>0, ThreadsAssumption, Zenon DEF PauseProtocol, TableProtocol,
     NoFreshTableCollected, Threads, Active
<1>5. ASSUME NEW t \in Clients, NEW o \in WriteCalls, WriteBegin(t, o)
     PROVE  TableProtocol'
  BY <1>5, <1>0, ThreadsAssumption, Zenon DEF WriteBegin, Start, PauseProtocol,
     TableProtocol, NoFreshTableCollected, Threads, Active
<1>6. ASSUME NEW t \in Clients, NEW o \in InsertCalls, InsertBegin(t, o)
     PROVE  TableProtocol'
  BY <1>6, <1>0, ThreadsAssumption, Zenon DEF InsertBegin, InsertCall, Start,
     PauseProtocol, TableProtocol, NoFreshTableCollected, Threads, Active
<1>7. ASSUME NEW t \in Clients,
       \/ DrainBegin(t) \/ FreezeDbCompaction(t) \/ GetUpdateStats(t)
       \/ CloseBegin(t)
     PROVE  TableProtocol'
  BY <1>7, <1>0, ThreadsAssumption, Zenon DEF DrainBegin, Start, FreezeDbCompaction,
     GetUpdateStats, CloseBegin, PauseProtocol, TableProtocol,
     NoFreshTableCollected, Threads, Active
<1>8. ASSUME NEW t \in Clients,
       \/ RoomError(t) \/ RoomReady(t)
     PROVE  TableProtocol'
  <2>1. CASE RoomError(t)
    BY <2>1, <1>0, ThreadsAssumption, Zenon DEF RoomError, InRoom, LeaveQueue, Proceed,
       AfterWrite, PauseProtocol, TableProtocol, NoFreshTableCollected, Threads, Active
  <2>2. CASE RoomReady(t)
    BY <2>2, <1>0, ThreadsAssumption, Zenon DEF InRoom, LeaveQueue, Proceed, AfterWrite,
       RoomReady, PauseProtocol, TableProtocol, NoFreshTableCollected, Threads, Active
  <2> QED BY <1>8, <2>1, <2>2, Zenon
<1>9. ASSUME NEW t \in Clients, RoomSwitchFails(t) PROVE TableProtocol'
  BY <1>9, <1>0, ThreadsAssumption, Zenon DEF RoomSwitchFails, InRoom, LeaveQueue,
     Proceed, AfterWrite, PauseProtocol, TableProtocol, NoFreshTableCollected,
     Threads, Active
<1>10. ASSUME NEW t \in Clients, RoomNoMemtable(t) PROVE TableProtocol'
  BY <1>10, <1>0, ThreadsAssumption, Zenon DEF RoomNoMemtable, InRoom, LeaveQueue,
     Proceed, AfterWrite, PauseProtocol, TableProtocol, NoFreshTableCollected,
     Threads, Active
<1>11. ASSUME NEW t \in Clients, WriteLogged(t) PROVE TableProtocol'
  BY <1>11, <1>0, ThreadsAssumption, Zenon DEF WriteLogged, RecordBackgroundError,
     SignalAll, Return, PauseProtocol, TableProtocol, NoFreshTableCollected,
     Threads, Active
<1>12. ASSUME NEW t \in Clients, FlushWait(t) PROVE TableProtocol'
  BY <1>12, <1>0, ThreadsAssumption, Zenon DEF FlushWait, Wait, Proceed,
     PauseProtocol, TableProtocol, NoFreshTableCollected, Threads, Active
<1>13. ASSUME NEW t \in Clients,
       \/ InsertEnter(t) \/ InsertBuilt(t)
     PROVE  TableProtocol'
  <2>1. CASE InsertEnter(t)
    BY <2>1, <1>0, ThreadsAssumption, Zenon DEF InsertEnter, EnterUnless, Wait, PauseProtocol,
       TableProtocol, NoFreshTableCollected, Threads, Active
  <2>2. CASE InsertBuilt(t)
    BY <2>2, <1>0, ThreadsAssumption, Zenon DEF Wait, InsertBuilt, PauseProtocol,
       TableProtocol, NoFreshTableCollected, Threads, Active
  <2> QED BY <1>13, <2>1, <2>2, Zenon
<1>14. ASSUME NEW t \in Clients, InsertBuildFails(t) PROVE TableProtocol'
  BY <1>14, <1>0, ThreadsAssumption, Zenon DEF InsertBuildFails, InsertEnd,
     InsertTail, Return, SignalAll, PauseProtocol, TableProtocol,
     NoFreshTableCollected, Threads, Active
<1>15. ASSUME NEW t \in Clients, InsertApplied(t) PROVE TableProtocol'
  BY <1>15, <1>0, ThreadsAssumption, Zenon DEF InsertApplied, InsertEnd, InsertTail,
     Return, SignalAll, PauseProtocol, TableProtocol, NoFreshTableCollected,
     Threads, Active
<1>16. ASSUME NEW t \in Clients,
       \/ TEST_CompactRange(t) \/ DrainCompactions(t) \/ Close(t)
     PROVE  TableProtocol'
  <2>1. CASE TEST_CompactRange(t)
    BY <2>1, <1>0, ThreadsAssumption, Zenon DEF TEST_CompactRange, CompactRangeStep, Wait,
       Return, PauseProtocol, TableProtocol, NoFreshTableCollected, Threads, Active
  <2>2. CASE DrainCompactions(t)
    BY <2>2, <1>0, ThreadsAssumption, Zenon DEF Wait, Return, DrainCompactions, PauseProtocol,
       TableProtocol, NoFreshTableCollected, Threads, Active
  <2>3. CASE Close(t)
    BY <2>3, <1>0, ThreadsAssumption, Zenon DEF Wait, Close, PauseProtocol, TableProtocol,
       NoFreshTableCollected, Threads, Active
  <2> QED BY <1>16, <2>1, <2>2, <2>3, Zenon
<1>17. ASSUME
       \/ BackgroundCallAborts \/ BackgroundMemTable \/ BackgroundManualDone
     PROVE  TableProtocol'
  BY <1>17, <1>0, ThreadsAssumption, Zenon DEF BackgroundCallAborts, EndCall,
     SignalAll, BackgroundMemTable, BgReady, BackgroundManualDone,
     PauseProtocol, TableProtocol, NoFreshTableCollected, Threads, Active
<1>18. ASSUME
       \/ BackgroundManual \/ BackgroundAutoNothing \/ BackgroundAuto
     PROVE  TableProtocol'
  BY <1>18, <1>0, ThreadsAssumption, Zenon DEF BackgroundManual, BgReady,
     BackgroundAutoNothing, EndCall, SignalAll, BackgroundAuto, PickCompaction,
     PauseProtocol, TableProtocol, NoFreshTableCollected, Threads, Active
<1>19. CASE MemTableBuilt
  BY <1>19, <1>0, ThreadsAssumption, Zenon DEF MemTableBuilt, PauseProtocol,
     TableProtocol, NoFreshTableCollected, Threads, Active
<1>20. CASE MemTableBuildFails
  BY <1>20, <1>0, ThreadsAssumption, Zenon DEF MemTableBuildFails, AfterMemTable,
     EndCall, SignalAll, PauseProtocol, TableProtocol, NoFreshTableCollected,
     Threads, Active
<1>21. CASE MemTableApplied
  BY <1>21, <1>0, ThreadsAssumption DEF MemTableApplied, AfterMemTable,
     EndCall, SignalAll, DeleteObsoleteFiles, PauseProtocol, TableProtocol,
     NoFreshTableCollected, Threads, Active
<1>22. CASE WorkMemTable
  BY <1>22, <1>0, ThreadsAssumption, Zenon DEF WorkMemTable, PauseProtocol,
     TableProtocol, NoFreshTableCollected, Threads, Active
<1>23. CASE WorkPause
  BY <1>23, <1>0, ThreadsAssumption, Zenon DEF WorkPause, PauseProtocol,
     TableProtocol, NoFreshTableCollected, Threads, Active
<1>24. CASE WorkResume
  BY <1>24, <1>0, ThreadsAssumption, Zenon DEF WorkResume, ResumeUnless, Wait,
     PauseProtocol, TableProtocol, NoFreshTableCollected, Threads, Active
<1>25. CASE WorkDone
  BY <1>25, <1>0, ThreadsAssumption, Zenon DEF WorkDone, PauseProtocol, TableProtocol,
     NoFreshTableCollected, Threads, Active
<1>26. ASSUME \/ WorkFails \/ TrivialMoved PROVE TableProtocol'
  BY ZenonT(30), <1>26, <1>0, ThreadsAssumption DEF WorkFails,
     FinishCompaction, EndCall, SignalAll, TrivialMoved, Installed,
     PauseProtocol, TableProtocol, NoFreshTableCollected, Threads, Active
<1>27. CASE CompactionInstalled
  BY <1>27, <1>0, ThreadsAssumption, Zenon DEF CompactionInstalled, Installed,
     DeleteObsoleteFiles, FinishCompaction, EndCall, SignalAll, PauseProtocol,
     TableProtocol, NoFreshTableCollected, Threads, Active
<1> QED
  BY ZenonT(30), <1>1, <1>2, <1>3, <1>4, <1>5, <1>6, <1>7, <1>8, <1>9, <1>10,
     <1>11, <1>12,
     <1>13, <1>14, <1>15, <1>16, <1>17, <1>18, <1>19, <1>20, <1>21, <1>22,
     <1>23, <1>24, <1>25, <1>26, <1>27
  DEF Next, Begin, Step, Background, Quiet, Crashed, vars, WriteCalls,
     InsertCalls

\* The queued item keeps its memtable or its request.
LEMMA FrozenStep ==
  ASSUME IInv, [Next]_vars PROVE FrozenItem'
<1> USE DEF config, clientVars, manualVars, freeze, gates, itemVars, bgVars,
      memVars, version
<1>0. FrozenItem /\ JobProtocol
  BY Zenon DEF IInv
<1>1. ASSUME NEW t \in Clients,
       \/ (\E o \in WriteCalls : WriteBegin(t, o))
       \/ (\E o \in InsertCalls : InsertBegin(t, o)) \/ DrainBegin(t)
       \/ FreezeDbCompaction(t)
     PROVE  UNCHANGED <<itemVars, bgpc, imm, manual, bgError, shuttingDown>>
  BY <1>1, Zenon DEF WriteBegin, Start, InsertBegin, InsertCall, DrainBegin,
     FreezeDbCompaction
<1>2. ASSUME NEW t \in Clients,
       \/ RoomError(t) \/ RoomDelay(t) \/ RoomReady(t) \/ RoomWait(t)
       \/ RoomSwitchFails(t) \/ RoomNoMemtable(t) \/ FlushWait(t)
       \/ InsertEnter(t) \/ InsertBuilt(t) \/ Close(t)
     PROVE  UNCHANGED <<itemVars, bgpc, imm, manual, bgError, shuttingDown>>
  BY ZenonT(30), <1>2 DEF RoomError, InRoom, LeaveQueue, Proceed, AfterWrite,
     RoomDelay, RoomReady, RoomWait, Wait, RoomSwitchFails, RoomNoMemtable,
     FlushWait, InsertEnter, EnterUnless, InsertBuilt, Close
<1>3. ASSUME
       \/ SpuriousWakeup
     PROVE  UNCHANGED <<itemVars, bgpc, imm, manual, bgError, shuttingDown>>
  BY <1>3, Zenon DEF SpuriousWakeup
<1>4. CASE UNCHANGED <<itemVars, bgpc, imm, manual, bgError, shuttingDown>>
  BY <1>4, <1>0, QueueFrozen, Zenon DEF FrozenItem, JobProtocol,
     MaybeScheduleCompaction
<1>5. ASSUME NEW t \in Clients,
       \/ GetUpdateStats(t) \/ CloseBegin(t) \/ ResumeDbCompaction(t)
     PROVE  FrozenItem'
  BY ZenonT(30), <1>5, <1>0, QueueFrozen DEF GetUpdateStats, Start,
     CloseBegin, ResumeDbCompaction, FrozenItem, JobProtocol,
     MaybeScheduleCompaction
<1>6. ASSUME NEW t \in Clients,
       \/ RoomSwitch(t) \/ WriteLogged(t)
     PROVE  FrozenItem'
  BY ZenonT(30), <1>6, <1>0, QueueFrozen DEF RoomSwitch, NewMemTable, InRoom,
     WriteLogged, RecordBackgroundError, SignalAll, Return, FrozenItem,
     JobProtocol, MaybeScheduleCompaction
<1>7. ASSUME NEW t \in Clients, InsertBuildFails(t) PROVE FrozenItem'
  BY ZenonT(30), <1>7, <1>0, QueueFrozen DEF InsertBuildFails, InsertEnd,
     InsertTail, Return, SignalAll, FrozenItem, JobProtocol,
     MaybeScheduleCompaction
<1>8. ASSUME NEW t \in Clients, InsertApplied(t) PROVE FrozenItem'
  <2>1. /\ UNCHANGED <<bgpc, imm, manual, shuttingDown>>
        /\ bgError => bgError'
    BY <1>8, Zenon DEF InsertApplied, InsertEnd, InsertTail, bgVars, memVars, manualVars
  <2>2. Queue \/ itemFrozen' = itemFrozen
    BY <1>8, Zenon DEF InsertApplied, MaybeScheduleCompaction, itemVars
  <2> QED
    BY ZenonT(30), <2>1, <2>2, QueueFrozen DEF IInv, FrozenItem
<1>9. ASSUME NEW t \in Clients,
       \/ TEST_CompactRange(t) \/ DrainCompactions(t)
     PROVE  FrozenItem'
  BY ZenonT(30), <1>9, <1>0, QueueFrozen DEF TEST_CompactRange,
     CompactRangeStep, Wait, Return, DrainCompactions, FrozenItem,
     JobProtocol, MaybeScheduleCompaction
<1>10. ASSUME
       \/ BackgroundCallAborts \/ BackgroundMemTable \/ BackgroundManualDone
     PROVE  FrozenItem'
  BY <1>10, <1>0, QueueFrozen, Zenon DEF BackgroundCallAborts, EndCall, SignalAll,
     BackgroundMemTable, BgReady, BackgroundManualDone, FrozenItem,
     JobProtocol, MaybeScheduleCompaction
<1>11. ASSUME
       \/ BackgroundManual \/ BackgroundAutoNothing \/ BackgroundAuto
     PROVE  FrozenItem'
  BY <1>11, <1>0, QueueFrozen, Zenon DEF BackgroundManual, BgReady,
     BackgroundAutoNothing, EndCall, SignalAll, BackgroundAuto, PickCompaction,
     FrozenItem, JobProtocol, MaybeScheduleCompaction
<1>12. CASE MemTableBuilt
  BY ZenonT(30), <1>12, <1>0, QueueFrozen DEF MemTableBuilt, FrozenItem,
     JobProtocol, MaybeScheduleCompaction
<1>13. CASE MemTableBuildFails
  BY <1>13, <1>0, QueueFrozen, Zenon DEF MemTableBuildFails, AfterMemTable, EndCall,
     SignalAll, FrozenItem, JobProtocol, MaybeScheduleCompaction
<1>14. CASE MemTableApplied
  BY <1>14, <1>0, QueueFrozen, Zenon DEF MemTableApplied, AfterMemTable, EndCall,
     SignalAll, DeleteObsoleteFiles, FrozenItem, JobProtocol,
     MaybeScheduleCompaction
<1>15. CASE WorkMemTable
  BY ZenonT(30), <1>15, <1>0, QueueFrozen DEF WorkMemTable, FrozenItem,
     JobProtocol, MaybeScheduleCompaction
<1>16. CASE WorkPause
  BY <1>16, <1>0, QueueFrozen, Zenon DEF WorkPause, FrozenItem, JobProtocol,
     MaybeScheduleCompaction
<1>17. CASE WorkResume
  BY <1>17, <1>0, QueueFrozen, Zenon DEF WorkResume, ResumeUnless, Wait, FrozenItem,
     JobProtocol, MaybeScheduleCompaction
<1>18. CASE WorkDone
  BY ZenonT(30), <1>18, <1>0, QueueFrozen DEF WorkDone, FrozenItem,
     JobProtocol, MaybeScheduleCompaction
<1>19. CASE WorkFails
  BY <1>19, <1>0, QueueFrozen, Zenon DEF WorkFails, FinishCompaction, EndCall,
     SignalAll, FrozenItem, JobProtocol, MaybeScheduleCompaction
<1>20. CASE CompactionInstalled
  BY <1>20, <1>0, QueueFrozen, Zenon DEF CompactionInstalled, Installed,
     DeleteObsoleteFiles, FinishCompaction, EndCall, SignalAll, FrozenItem,
     JobProtocol, MaybeScheduleCompaction
<1>21. CASE TrivialMoved
  BY <1>21, <1>0, QueueFrozen, Zenon DEF TrivialMoved, Installed, EndCall, SignalAll,
     FrozenItem, JobProtocol, MaybeScheduleCompaction
<1> QED
  BY ZenonT(30), <1>1, <1>2, <1>3, <1>4, <1>5, <1>6, <1>7, <1>8, <1>9, <1>10,
     <1>11, <1>12,
     <1>13, <1>14, <1>15, <1>16, <1>17, <1>18, <1>19, <1>20, <1>21
  DEF Next, Begin, Step, Background, Quiet, Crashed, vars, WriteCalls,
     InsertCalls

\* What a step does to the freeze and to the item, unless it freezes, thaws or starts.
Requeues ==
  \/ UNCHANGED itemVars /\ (bgpc' = bgpc \/ bgpc' # "idle")
  \/ Queue

LEMMA RequeuedOnce ==
  ASSUME OneStart, startedFrozen \in BOOLEAN, UNCHANGED freeze, Requeues
  PROVE  OneStart' /\ startedFrozen' \in BOOLEAN
<1>1. UNCHANGED <<disabled, startedFrozen>>
  BY Zenon DEF freeze
<1>2. CASE UNCHANGED itemVars /\ (bgpc' = bgpc \/ bgpc' # "idle")
  BY <1>1, <1>2, Zenon DEF OneStart, itemVars
<1>3. CASE Queue
  BY <1>1, <1>3, Zenon DEF OneStart, Queue
<1> QED
  BY <1>2, <1>3, Zenon DEF Requeues

\* A second compaction is not started in a freeze.
LEMMA FreezeStep ==
  ASSUME IInv, [Next]_vars PROVE OneStart' /\ startedFrozen' \in BOOLEAN
<1> USE DEF config, clientVars, manualVars, gates, bgVars
<1>0. OneStart /\ startedFrozen \in BOOLEAN /\ disabled \in Nat
  BY Zenon DEF IInv, TypeOK
<1>1. ASSUME NEW t \in Clients,
       \/ (\E o \in WriteCalls : WriteBegin(t, o))
       \/ (\E o \in InsertCalls : InsertBegin(t, o)) \/ DrainBegin(t)
       \/ GetUpdateStats(t) \/ CloseBegin(t)
     PROVE  UNCHANGED freeze /\ Requeues
  BY ZenonT(30), <1>1 DEF WriteBegin, InsertBegin, InsertCall, DrainBegin,
     GetUpdateStats, CloseBegin, MaybeScheduleCompaction, Requeues
<1>2. ASSUME NEW t \in Clients,
       \/ RoomError(t) \/ RoomDelay(t) \/ RoomReady(t) \/ RoomWait(t)
       \/ RoomSwitch(t) \/ RoomSwitchFails(t) \/ RoomNoMemtable(t)
       \/ WriteLogged(t) \/ FlushWait(t)
     PROVE  UNCHANGED freeze /\ Requeues
  BY ZenonT(30), <1>2 DEF RoomError, RoomDelay, RoomReady, RoomWait, RoomSwitch,
     NewMemTable, RoomSwitchFails, RoomNoMemtable, WriteLogged, FlushWait,
     MaybeScheduleCompaction, Requeues
<1>3. ASSUME NEW t \in Clients,
       \/ InsertEnter(t) \/ InsertBuilt(t) \/ InsertBuildFails(t) \/ InsertApplied(t)
       \/ TEST_CompactRange(t) \/ DrainCompactions(t) \/ Close(t)
     PROVE  UNCHANGED freeze /\ Requeues
  BY ZenonT(30), <1>3 DEF InsertEnter, EnterUnless, InsertBuilt, InsertBuildFails,
     InsertEnd, InsertTail, InsertApplied, TEST_CompactRange, CompactRangeStep,
     DrainCompactions, Close, MaybeScheduleCompaction, Requeues
<1>4. ASSUME
       \/ BackgroundCallAborts \/ BackgroundMemTable \/ BackgroundManualDone
       \/ BackgroundManual \/ BackgroundAutoNothing \/ MemTableBuilt
       \/ MemTableBuildFails \/ MemTableApplied
     PROVE  UNCHANGED freeze /\ Requeues
  BY ZenonT(30), <1>4 DEF BackgroundCallAborts, EndCall, BackgroundMemTable,
     BackgroundManualDone, BackgroundManual, BackgroundAutoNothing, MemTableBuilt,
     MemTableBuildFails, AfterMemTable, MemTableApplied, Requeues
<1>5. ASSUME
       \/ WorkMemTable \/ WorkPause \/ WorkResume \/ WorkDone \/ WorkFails
       \/ CompactionInstalled \/ TrivialMoved \/ SpuriousWakeup
     PROVE  UNCHANGED freeze /\ Requeues
  BY ZenonT(30), <1>5 DEF WorkMemTable, WorkPause, WorkResume, ResumeUnless,
     WorkDone, WorkFails, FinishCompaction, EndCall, CompactionInstalled,
     TrivialMoved, SpuriousWakeup, Requeues
<1>6. CASE UNCHANGED vars
  <2>1. UNCHANGED freeze /\ Requeues
    BY <1>6, Zenon DEF vars, Requeues
  <2> QED
    BY <1>0, <2>1, RequeuedOnce, Zenon
<1>7. ASSUME NEW t \in Clients, FreezeDbCompaction(t)
      PROVE  OneStart' /\ startedFrozen' \in BOOLEAN
  <2>1. disabled' = disabled + 1 /\ UNCHANGED <<startedFrozen, itemVars, bgpc>>
    BY <1>7, Zenon DEF FreezeDbCompaction
  <2>2. disabled' > 0
    BY <1>0, <2>1
  <2> QED
    BY <1>0, <2>1, <2>2, Zenon DEF OneStart, itemVars
<1>8. ASSUME NEW t \in Clients, ResumeDbCompaction(t)
      PROVE  OneStart' /\ startedFrozen' \in BOOLEAN
  <2>1. /\ disabled' = disabled - 1 /\ startedFrozen' = (startedFrozen /\ disabled > 1)
        /\ UNCHANGED bgpc /\ Requeues
    BY <1>8, Zenon DEF ResumeDbCompaction, MaybeScheduleCompaction, Requeues
  <2>2. disabled > 1 => disabled' > 0
    BY <1>0, <2>1
  <2>3. startedFrozen' => startedFrozen /\ disabled' > 0
    BY <2>1, <2>2, Zenon
  <2>4. startedFrozen' \in BOOLEAN
    BY <2>1, Zenon
  <2>5. startedFrozen' /\ scheduled' /\ bgpc' = "idle" => itemFrozen'
    BY <1>0, <2>1, <2>3, Zenon DEF OneStart, Requeues, Queue, itemVars
  <2> QED
    BY <2>3, <2>4, <2>5, Zenon DEF OneStart
<1>9. CASE BackgroundAuto
  <2>1. /\ startedFrozen' = (disabled > 0) /\ disabled' = disabled
        /\ bgpc' \in {"work", "move"}
    BY <1>9, Zenon DEF BackgroundAuto
  <2>2. bgpc' # "idle"
    BY <2>1, Zenon
  <2>3. startedFrozen' \in BOOLEAN
    BY <2>1
  <2> QED
    BY <2>1, <2>2, <2>3, Zenon DEF OneStart
<1>10. ASSUME UNCHANGED freeze /\ Requeues
       PROVE  OneStart' /\ startedFrozen' \in BOOLEAN
  BY <1>0, <1>10, RequeuedOnce, Zenon
<1> QED
  BY ZenonT(30), <1>1, <1>2, <1>3, <1>4, <1>5, <1>6, <1>7, <1>8, <1>9, <1>10
  DEF Next, Begin, Step, Background, Quiet, Crashed, WriteCalls, InsertCalls

\* PauseProtocol without the count of the insertions.
Exclusion ==
  /\ bulk => ~inProgress
  /\ bulk <=> \E t \in Clients : pc[t] \in {"dump", "apply"}
  /\ \A t, u \in Clients :
       pc[t] \in {"dump", "apply"} /\ pc[u] \in {"dump", "apply"} => t = u
  /\ bgpc \in Active => inProgress
  /\ bgpc \in {"idle", "paused"} => ~inProgress
  /\ bgpc \in Active \cup {"paused"} => scheduled

\* The work item starts or resumes only when nothing is paused.
LEMMA ExclusionStep ==
  ASSUME IInv, [Next]_vars PROVE Exclusion'
<1> USE DEF config, clientVars, manualVars, freeze, gates, itemVars, bgVars,
      memVars, version
<1>0. PauseProtocol /\ pc \in [Clients -> PCs] /\ bulk \in BOOLEAN /\ paused \in Nat
  BY Zenon DEF IInv, TypeOK
<1>1. ASSUME NEW t \in Clients,
       \/ RoomDelay(t) \/ RoomWait(t)
     PROVE  UNCHANGED <<pc, bulk, inProgress, bgpc, scheduled>>
  BY <1>1, Zenon DEF RoomDelay, InRoom, RoomWait, Wait
<1>2. ASSUME
       \/ SpuriousWakeup
     PROVE  UNCHANGED <<pc, bulk, inProgress, bgpc, scheduled>>
  BY <1>2, Zenon DEF SpuriousWakeup
<1>3. CASE UNCHANGED <<pc, bulk, inProgress, bgpc, scheduled>>
  BY <1>3, <1>0, Zenon DEF PauseProtocol, Exclusion, Active
<1>4. ASSUME NEW t \in Clients, NEW o \in WriteCalls, WriteBegin(t, o)
     PROVE  Exclusion'
  BY <1>4, <1>0, Zenon DEF WriteBegin, Start, PauseProtocol, Exclusion, Active
<1>5. ASSUME NEW t \in Clients, NEW o \in InsertCalls, InsertBegin(t, o)
     PROVE  Exclusion'
  BY <1>5, <1>0, Zenon DEF InsertBegin, InsertCall, Start, PauseProtocol, Exclusion,
     Active
<1>6. ASSUME NEW t \in Clients, DrainBegin(t) PROVE Exclusion'
  BY <1>6, <1>0, Zenon DEF DrainBegin, Start, PauseProtocol, Exclusion, Active
<1>7. ASSUME NEW t \in Clients, FreezeDbCompaction(t) PROVE Exclusion'
  BY <1>7, <1>0, Zenon DEF FreezeDbCompaction, Start, PauseProtocol, Exclusion, Active
<1>8. ASSUME NEW t \in Clients, CloseBegin(t) PROVE Exclusion'
  BY <1>8, <1>0, Zenon DEF CloseBegin, PauseProtocol, Exclusion, Active
<1>9. ASSUME NEW t \in Clients,
       \/ GetUpdateStats(t) \/ ResumeDbCompaction(t)
     PROVE  Exclusion'
  <2>1. CASE GetUpdateStats(t)
    BY <2>1, <1>0, Zenon DEF GetUpdateStats, Start, PauseProtocol, Exclusion, Active,
       MaybeScheduleCompaction
  <2>2. CASE ResumeDbCompaction(t)
    BY <2>2, <1>0, Zenon DEF ResumeDbCompaction, PauseProtocol, Exclusion, Active,
       MaybeScheduleCompaction
  <2> QED BY <1>9, <2>1, <2>2, Zenon
<1>10. ASSUME NEW t \in Clients,
       \/ RoomError(t) \/ RoomReady(t)
     PROVE  Exclusion'
  <2>1. CASE RoomError(t)
    BY <2>1, <1>0, Zenon DEF RoomError, InRoom, LeaveQueue, Proceed, AfterWrite, PauseProtocol,
       Exclusion, Active
  <2>2. CASE RoomReady(t)
    BY <2>2, <1>0 DEF InRoom, LeaveQueue, Proceed, AfterWrite, RoomReady, PauseProtocol,
       Exclusion, Active
  <2> QED BY <1>10, <2>1, <2>2, Zenon
<1>11. ASSUME NEW t \in Clients, RoomSwitch(t) PROVE Exclusion'
  BY <1>11, <1>0, Zenon DEF RoomSwitch, NewMemTable, InRoom, PauseProtocol, Exclusion,
     Active, MaybeScheduleCompaction
<1>12. ASSUME NEW t \in Clients, RoomSwitchFails(t) PROVE Exclusion'
  BY <1>12, <1>0, Zenon DEF RoomSwitchFails, InRoom, LeaveQueue, Proceed, AfterWrite,
     PauseProtocol, Exclusion, Active
<1>13. ASSUME NEW t \in Clients, RoomNoMemtable(t) PROVE Exclusion'
  BY <1>13, <1>0 DEF RoomNoMemtable, InRoom, LeaveQueue, Proceed, AfterWrite,
     PauseProtocol, Exclusion, Active
<1>14. ASSUME NEW t \in Clients, WriteLogged(t) PROVE Exclusion'
  BY <1>14, <1>0, Zenon DEF WriteLogged, RecordBackgroundError, SignalAll, Return,
     PauseProtocol, Exclusion, Active
<1>15. ASSUME NEW t \in Clients, FlushWait(t) PROVE Exclusion'
  BY <1>15, <1>0, Zenon DEF FlushWait, Wait, Proceed, PauseProtocol, Exclusion, Active
<1>16. ASSUME NEW t \in Clients,
       \/ InsertEnter(t) \/ InsertBuilt(t)
     PROVE  Exclusion'
  <2>1. CASE InsertEnter(t)
    BY <2>1, <1>0, Zenon DEF InsertEnter, EnterUnless, Wait, PauseProtocol, Exclusion, Active
  <2>2. CASE InsertBuilt(t)
    BY <2>2, <1>0, Zenon DEF Wait, InsertBuilt, PauseProtocol, Exclusion, Active
  <2> QED BY <1>16, <2>1, <2>2, Zenon
<1>17. ASSUME NEW t \in Clients, InsertBuildFails(t) PROVE Exclusion'
  BY <1>17, <1>0, Zenon DEF InsertBuildFails, InsertEnd, InsertTail, Return,
     SignalAll, PauseProtocol, Exclusion, Active, MaybeScheduleCompaction
<1>18. ASSUME NEW t \in Clients, InsertApplied(t) PROVE Exclusion'
  BY <1>18, <1>0 DEF InsertApplied, InsertEnd, InsertTail, Return, SignalAll,
     PauseProtocol, Exclusion, Active, MaybeScheduleCompaction
<1>19. ASSUME NEW t \in Clients, TEST_CompactRange(t) PROVE Exclusion'
  BY <1>19, <1>0, Zenon DEF TEST_CompactRange, CompactRangeStep, Wait, Return,
     PauseProtocol, Exclusion, Active, MaybeScheduleCompaction
<1>20. ASSUME NEW t \in Clients, DrainCompactions(t) PROVE Exclusion'
  BY <1>20, <1>0, Zenon DEF DrainCompactions, Wait, Return, PauseProtocol, Exclusion,
     Active, MaybeScheduleCompaction
<1>21. ASSUME NEW t \in Clients, Close(t) PROVE Exclusion'
  BY <1>21, <1>0, Zenon DEF Close, Wait, PauseProtocol, Exclusion, Active,
     MaybeScheduleCompaction
<1>22. CASE BackgroundCallAborts
  BY <1>22, <1>0, Zenon DEF BackgroundCallAborts, EndCall, SignalAll, PauseProtocol,
     Exclusion, Active
<1>23. CASE BackgroundManualDone
  BY <1>23, <1>0, Zenon DEF BackgroundManualDone, BgReady, EndCall, SignalAll,
     PauseProtocol, Exclusion, Active
<1>24. CASE BackgroundAutoNothing
  BY <1>24, <1>0, Zenon DEF BackgroundAutoNothing, BgReady, EndCall, SignalAll,
     PauseProtocol, Exclusion, Active
<1>25. CASE BackgroundMemTable
  BY <1>25, <1>0, NotPaused, Zenon DEF BackgroundMemTable, BgReady, PauseProtocol,
     Exclusion, Active
<1>26. CASE BackgroundManual
  BY <1>26, <1>0, NotPaused, Zenon DEF BackgroundManual, BgReady, PauseProtocol,
     Exclusion, Active
<1>27. CASE BackgroundAuto
  BY <1>27, <1>0, NotPaused, Zenon DEF BackgroundAuto, BgReady, PickCompaction,
     PauseProtocol, Exclusion, Active
<1>28. CASE MemTableBuilt
  BY <1>28, <1>0, Zenon DEF MemTableBuilt, PauseProtocol, Exclusion, Active
<1>29. CASE MemTableBuildFails
  BY ZenonT(30), <1>29, <1>0 DEF MemTableBuildFails, AfterMemTable, EndCall,
     SignalAll, PauseProtocol, Exclusion, Active
<1>30. CASE MemTableApplied
  BY ZenonT(30), <1>30, <1>0 DEF MemTableApplied, AfterMemTable, EndCall,
     SignalAll, DeleteObsoleteFiles, PauseProtocol, Exclusion, Active
<1>31. CASE WorkMemTable
  BY <1>31, <1>0, Zenon DEF WorkMemTable, PauseProtocol, Exclusion, Active
<1>32. CASE WorkPause
  BY <1>32, <1>0, Zenon DEF WorkPause, PauseProtocol, Exclusion, Active
<1>33. CASE WorkDone
  BY <1>33, <1>0, Zenon DEF WorkDone, PauseProtocol, Exclusion, Active
<1>34. CASE WorkResume
  BY <1>34, <1>0, NotPaused DEF WorkResume, ResumeUnless, Wait, PauseProtocol,
     Exclusion, Active
<1>35. CASE WorkFails
  BY ZenonT(30), <1>35, <1>0 DEF WorkFails, FinishCompaction, EndCall,
     SignalAll, PauseProtocol, Exclusion, Active
<1>36. CASE CompactionInstalled
  BY ZenonT(30), <1>36, <1>0 DEF CompactionInstalled, Installed,
     DeleteObsoleteFiles, FinishCompaction, EndCall, SignalAll, PauseProtocol,
     Exclusion, Active
<1>37. CASE TrivialMoved
  BY <1>37, <1>0, Zenon DEF TrivialMoved, Installed, EndCall, SignalAll,
     PauseProtocol, Exclusion, Active
<1> QED
  BY ZenonT(30), <1>1, <1>2, <1>3, <1>4, <1>5, <1>6, <1>7, <1>8, <1>9, <1>10,
     <1>11, <1>12,
     <1>13, <1>14, <1>15, <1>16, <1>17, <1>18, <1>19, <1>20, <1>21, <1>22,
     <1>23, <1>24, <1>25, <1>26, <1>27, <1>28, <1>29, <1>30, <1>31, <1>32,
     <1>33, <1>34, <1>35, <1>36, <1>37
  DEF Next, Begin, Step, Background, Quiet, Crashed, vars, WriteCalls,
     InsertCalls

\* bg_compaction_paused_ counts the insertions.
LEMMA CountStep ==
  ASSUME IInv, [Next]_vars PROVE (paused = Cardinality(Inserting))'
<1> USE DEF config, clientVars, manualVars, freeze, gates, itemVars, bgVars,
      memVars, version
<1>1. ASSUME NEW t \in Clients,
       \/ ResumeDbCompaction(t)
     PROVE  UNCHANGED <<pc, paused>>
  BY <1>1, Zenon DEF ResumeDbCompaction
<1>2. ASSUME NEW t \in Clients,
       \/ RoomDelay(t) \/ RoomWait(t) \/ RoomSwitch(t)
     PROVE  UNCHANGED <<pc, paused>>
  BY <1>2, Zenon DEF RoomDelay, InRoom, RoomWait, Wait, RoomSwitch, NewMemTable
<1>3. ASSUME
       \/ BackgroundCallAborts \/ BackgroundMemTable \/ BackgroundManualDone
       \/ BackgroundManual \/ BackgroundAutoNothing \/ BackgroundAuto
       \/ MemTableBuilt \/ MemTableBuildFails \/ MemTableApplied
       \/ WorkMemTable \/ WorkPause \/ WorkResume \/ WorkDone \/ WorkFails
       \/ CompactionInstalled \/ TrivialMoved \/ SpuriousWakeup
     PROVE  UNCHANGED <<pc, paused>>
  BY ZenonT(30), <1>3 DEF BackgroundCallAborts, EndCall, SignalAll,
     BackgroundMemTable, BgReady, BackgroundManualDone, BackgroundManual,
     BackgroundAutoNothing, BackgroundAuto, PickCompaction, MemTableBuilt,
     MemTableBuildFails, AfterMemTable, MemTableApplied, DeleteObsoleteFiles,
     WorkMemTable, WorkPause, WorkResume, ResumeUnless, Wait, WorkDone,
     WorkFails, FinishCompaction, CompactionInstalled, Installed,
     TrivialMoved, SpuriousWakeup
<1>4. CASE UNCHANGED <<pc, paused>>
  BY <1>4, Zenon DEF IInv, PauseProtocol, Inserting
<1>5. ASSUME NEW t \in Clients, NEW o \in WriteCalls, WriteBegin(t, o)
     PROVE  (paused = Cardinality(Inserting))'
  <2>1. Inserting' = Inserting /\ paused' = paused
    BY <1>5, Zenon DEF WriteBegin,
       Start, IInv, TypeOK, Inserting
  <2> QED
    BY <2>1, Zenon DEF IInv, PauseProtocol
<1>6. ASSUME NEW t \in Clients, NEW o \in InsertCalls, InsertBegin(t, o)
     PROVE  (paused = Cardinality(Inserting))'
  <2>1. Inserting' = Inserting \cup {t} /\ t \notin Inserting /\ paused' = paused + 1
    BY <1>6, Zenon DEF
       InsertBegin, InsertCall, Start, IInv, TypeOK, Inserting
  <2> QED
    BY ZenonT(30), <2>1, InsertingFinite, FS_AddElement DEF IInv,
       PauseProtocol
<1>7. ASSUME NEW t \in Clients,
       \/ DrainBegin(t) \/ FreezeDbCompaction(t) \/ GetUpdateStats(t)
       \/ CloseBegin(t)
     PROVE  (paused = Cardinality(Inserting))'
  <2>1. Inserting' = Inserting /\ paused' = paused
    BY ZenonT(30), <1>7 DEF DrainBegin, Start, FreezeDbCompaction,
       GetUpdateStats, CloseBegin, IInv, TypeOK, Inserting
  <2> QED
    BY <2>1, Zenon DEF IInv, PauseProtocol
<1>8. ASSUME NEW t \in Clients,
       \/ RoomError(t) \/ RoomReady(t) \/ RoomSwitchFails(t)
     PROVE  (paused = Cardinality(Inserting))'
  <2>1. Inserting' = Inserting /\ paused' = paused
    BY ZenonT(30), <1>8 DEF RoomError, InRoom, LeaveQueue, Proceed,
       AfterWrite, RoomReady, RoomSwitchFails, IInv, TypeOK, Inserting
  <2> QED
    BY <2>1, Zenon DEF IInv, PauseProtocol
<1>9. ASSUME NEW t \in Clients,
       \/ RoomNoMemtable(t)
     PROVE  (paused = Cardinality(Inserting))'
  <2>1. CASE op[t] = "write"
    <3>1. Inserting' = Inserting \cup {t} /\ t \notin Inserting /\ paused' = paused + 1
      BY <1>9, <2>1, Zenon DEF RoomNoMemtable, InRoom, IInv, TypeOK, Inserting
    <3> QED
      BY ZenonT(30), <3>1, InsertingFinite, FS_AddElement DEF IInv,
         PauseProtocol
  <2>2. CASE op[t] # "write"
    <3>1. Inserting' = Inserting /\ paused' = paused
      BY <1>9, <2>2, Zenon DEF RoomNoMemtable, InRoom, LeaveQueue, Proceed, AfterWrite,
         IInv, TypeOK, Inserting
    <3> QED
      BY <3>1, Zenon DEF IInv, PauseProtocol
  <2> QED
    BY <2>1, <2>2, Zenon
<1>10. ASSUME NEW t \in Clients,
       \/ WriteLogged(t) \/ FlushWait(t)
     PROVE  (paused = Cardinality(Inserting))'
  <2>1. Inserting' = Inserting /\ paused' = paused
    BY ZenonT(30), <1>10 DEF WriteLogged, RecordBackgroundError, SignalAll,
       Return, FlushWait, Wait, Proceed, IInv, TypeOK, Inserting
  <2> QED
    BY <2>1, Zenon DEF IInv, PauseProtocol
<1>11. ASSUME NEW t \in Clients,
       \/ InsertEnter(t) \/ InsertBuilt(t)
     PROVE  (paused = Cardinality(Inserting))'
  <2>1. Inserting' = Inserting /\ paused' = paused
    BY <1>11, Zenon DEF
       InsertEnter, EnterUnless, Wait, InsertBuilt, IInv, TypeOK, Inserting
  <2> QED
    BY <2>1, Zenon DEF IInv, PauseProtocol
<1>12. ASSUME NEW t \in Clients,
       \/ InsertBuildFails(t)
     PROVE  (paused = Cardinality(Inserting))'
  <2>1. Inserting' = Inserting \ {t} /\ t \in Inserting /\ paused' = paused - 1
    BY <1>12, Zenon DEF
       InsertBuildFails, InsertEnd, InsertTail, Return, SignalAll, IInv,
       TypeOK, Inserting
  <2> QED
    BY <2>1, InsertingFinite, FS_RemoveElement, Zenon DEF IInv, PauseProtocol
<1>13. ASSUME NEW t \in Clients,
       \/ InsertApplied(t)
     PROVE  (paused = Cardinality(Inserting))'
  <2>1. Inserting' = Inserting \ {t} /\ t \in Inserting /\ paused' = paused - 1
    BY ZenonT(30), <1>13 DEF InsertApplied, InsertEnd, InsertTail, Return,
       SignalAll, IInv, TypeOK, Inserting
  <2> QED
    BY <2>1, InsertingFinite, FS_RemoveElement, Zenon DEF IInv, PauseProtocol
<1>14. ASSUME NEW t \in Clients,
       \/ TEST_CompactRange(t) \/ DrainCompactions(t) \/ Close(t)
     PROVE  (paused = Cardinality(Inserting))'
  <2>1. Inserting' = Inserting /\ paused' = paused
    BY ZenonT(30), <1>14 DEF TEST_CompactRange, CompactRangeStep, Wait,
       Return, DrainCompactions, Close, IInv, TypeOK, Inserting
  <2> QED
    BY <2>1, Zenon DEF IInv, PauseProtocol
<1> QED
  BY ZenonT(30), <1>1, <1>2, <1>3, <1>4, <1>5, <1>6, <1>7, <1>8, <1>9, <1>10,
     <1>11, <1>12,
     <1>13, <1>14
  DEF Next, Begin, Step, Background, Quiet, Crashed, vars, WriteCalls,
     InsertCalls

\* Every step of the DB keeps the invariant.
LEMMA TypeStep ==
  ASSUME IInv, [Next]_vars PROVE TypeOK'
BY ConfigStep, ClientStep, ThreadStep, RequestStep, ItemStep, WorkStep,
   CounterStep, FlagStep, FreezeStep, Zenon
   DEF TypeOK, ConfigTypes, ClientTypes, ThreadTypes, RequestTypes, ItemTypes,
       WorkTypes, CounterTypes, FlagTypes
LEMMA StepIInv == IInv /\ [Next]_vars => IInv'
<1> SUFFICES ASSUME IInv, [Next]_vars PROVE IInv'
  BY Zenon
<1>1. PauseProtocol'
  BY CountStep, ExclusionStep, Zenon DEF PauseProtocol, Exclusion
<1> QED
  BY <1>1, TypeStep, JobStep, TableStep, FrozenStep, FreezeStep, Zenon DEF IInv

-----------------------------------------------------------------------------
(* The theorems.                                                           *)

\* The inductive invariant holds in every state of DBImpl's background work.
THEOREM Invariant == Spec => []IInv
BY InitIInv, StepIInv, PTL DEF Spec

\* The fields of DBImpl and its threads keep their types: in particular
\* bg_compaction_paused_, bg_compaction_disabled_ and the number of level-0
\* tables never go below zero.
THEOREM TypeCorrect == Spec => []TypeOK
<1>1. IInv => TypeOK
  BY Zenon DEF IInv
<1> QED
  BY <1>1, Invariant, PTL

\* Insertions and the work item follow the pause protocol in every state.
THEOREM PauseProtocolHolds == Spec => []PauseProtocol
<1>1. IInv => PauseProtocol
  BY Zenon DEF IInv
<1> QED
  BY <1>1, Invariant, PTL

\* The running compaction and the manual request never fall out of step.
THEOREM JobProtocolHolds == Spec => []JobProtocol
<1>1. IInv => JobProtocol
  BY Zenon DEF IInv
<1> QED
  BY <1>1, Invariant, PTL

\* Two threads are never inside LogAndApply: an insertion there holds
\* bulk_insert_in_progress_, an item there bg_compaction_in_progress_.
THEOREM ApplyExclusive == Spec => []LogAndApplyExclusive
<1>1. IInv => LogAndApplyExclusive
  <2> SUFFICES ASSUME IInv, NEW t \in Applying, NEW u \in Applying PROVE t = u
    BY Zenon DEF LogAndApplyExclusive
  <2>1. bgpc \in {"apply", "install", "move"} => ~bulk
    BY Zenon DEF IInv, PauseProtocol, Active
  <2>2. bulk <=> \E c \in Clients : pc[c] \in {"dump", "apply"}
    BY Zenon DEF IInv, PauseProtocol
  <2>3. CASE bgpc \in {"apply", "install", "move"}
    BY <2>1, <2>2, <2>3, Zenon DEF Applying
  <2>4. CASE bgpc \notin {"apply", "install", "move"}
    BY <2>4, Zenon DEF Applying, IInv, PauseProtocol
  <2> QED
    BY <2>3, <2>4, Zenon
<1> QED
  BY <1>1, Invariant, PTL

\* DeleteObsoleteFiles never collects a table on its way into a version.
THEOREM NoTableLost == Spec => []NoFreshTableCollected
<1>1. IInv => NoFreshTableCollected
  BY Zenon DEF IInv, TableProtocol
<1> QED
  BY <1>1, Invariant, PTL


\* Only BackgroundAuto picks a compaction, with no memtable and no request left.
LEMMA StartStep ==
  ASSUME IInv, [Next]_vars PROVE (job = "none" /\ job' \in {"level0", "deep", "seek"} => ~itemFrozen /\ ~startedFrozen)
<1> USE DEF config, clientVars, manualVars, freeze, gates, itemVars, bgVars,
      memVars, version
<1>1. ASSUME NEW t \in Clients,
       \/ (\E o \in WriteCalls : WriteBegin(t, o))
       \/ (\E o \in InsertCalls : InsertBegin(t, o)) \/ DrainBegin(t)
       \/ FreezeDbCompaction(t) \/ GetUpdateStats(t) \/ CloseBegin(t)
       \/ ResumeDbCompaction(t)
     PROVE  UNCHANGED job
  BY ZenonT(30), <1>1 DEF WriteBegin, Start, InsertBegin, InsertCall,
     DrainBegin, FreezeDbCompaction, GetUpdateStats, CloseBegin,
     ResumeDbCompaction
<1>2. ASSUME NEW t \in Clients,
       \/ RoomError(t) \/ RoomDelay(t) \/ RoomReady(t) \/ RoomWait(t)
       \/ RoomSwitch(t) \/ RoomSwitchFails(t) \/ RoomNoMemtable(t)
       \/ WriteLogged(t) \/ FlushWait(t) \/ InsertEnter(t) \/ InsertBuilt(t)
       \/ InsertBuildFails(t) \/ InsertApplied(t) \/ TEST_CompactRange(t)
       \/ DrainCompactions(t) \/ Close(t)
     PROVE  UNCHANGED job
  BY ZenonT(30), <1>2 DEF RoomError, InRoom, LeaveQueue, Proceed, AfterWrite,
     RoomDelay, RoomReady, RoomWait, Wait, RoomSwitch, NewMemTable,
     RoomSwitchFails, RoomNoMemtable, WriteLogged, RecordBackgroundError,
     SignalAll, Return, FlushWait, InsertEnter, EnterUnless, InsertBuilt,
     InsertBuildFails, InsertEnd, InsertTail, InsertApplied,
     TEST_CompactRange, CompactRangeStep, DrainCompactions, Close
<1>3. ASSUME
       \/ BackgroundMemTable \/ MemTableBuilt \/ WorkMemTable \/ WorkPause
       \/ WorkResume \/ WorkDone \/ SpuriousWakeup
     PROVE  UNCHANGED job
  BY ZenonT(30), <1>3 DEF BackgroundMemTable, BgReady, MemTableBuilt,
     WorkMemTable, WorkPause, WorkResume, ResumeUnless, Wait, WorkDone,
     SpuriousWakeup
<1>4. CASE UNCHANGED job
  BY <1>4, Zenon DEF IInv, TypeOK, FrozenItem
<1>5. ASSUME
       \/ BackgroundCallAborts \/ BackgroundManualDone \/ BackgroundManual
       \/ BackgroundAutoNothing
     PROVE  (job = "none" /\ job' \in {"level0", "deep", "seek"} => ~itemFrozen /\ ~startedFrozen)
  BY ZenonT(30), <1>5 DEF BackgroundCallAborts, EndCall, SignalAll,
     BackgroundManualDone, BgReady, BackgroundManual, BackgroundAutoNothing,
     IInv, TypeOK, FrozenItem
<1>6. CASE BackgroundAuto
  BY <1>6, Zenon DEF BackgroundAuto, BgReady, PickCompaction, IInv, TypeOK, FrozenItem, OneStart
<1>7. ASSUME
       \/ MemTableBuildFails \/ MemTableApplied
     PROVE  (job = "none" /\ job' \in {"level0", "deep", "seek"} => ~itemFrozen /\ ~startedFrozen)
  BY ZenonT(30), <1>7 DEF MemTableBuildFails, AfterMemTable, EndCall,
     SignalAll, MemTableApplied, DeleteObsoleteFiles, IInv, TypeOK, FrozenItem
<1>8. ASSUME
       \/ WorkFails \/ CompactionInstalled \/ TrivialMoved
     PROVE  (job = "none" /\ job' \in {"level0", "deep", "seek"} => ~itemFrozen /\ ~startedFrozen)
  BY ZenonT(30), <1>8 DEF WorkFails, FinishCompaction, EndCall, SignalAll,
     CompactionInstalled, Installed, DeleteObsoleteFiles, TrivialMoved, IInv,
     TypeOK, FrozenItem
<1> QED
  BY ZenonT(30), <1>1, <1>2, <1>3, <1>4, <1>5, <1>6, <1>7, <1>8
  DEF Next, Begin, Step, Background, Quiet, Crashed, vars, WriteCalls,
     InsertCalls

\* FreezeDbCompaction (db_impl.cc) does not stop an item that is queued already, but that is
\* all: in a freeze at most one automatic compaction starts, and no item that was queued
\* during the freeze starts one.
THEOREM FreezesHold == Spec => FreezeHolds
<1>1. IInv /\ [Next]_vars
        => [job = "none" /\ job' \in {"level0", "deep", "seek"} => ~itemFrozen /\ ~startedFrozen]_vars
  BY StartStep, Zenon
<1> QED
  BY <1>1, Invariant, PTL DEF Spec, FreezeHolds
=============================================================================
