----------------------------- MODULE MCRecovery -----------------------------
(***************************************************************************)
(* What a restart finds, for TLC: the manifest with the files it names,    *)
(* the log files under it, RepairDB for a database that is damaged, and    *)
(* the lock and the mappings of the POSIX environment, which processes and *)
(* threads that open a database share.  A behaviour is one of one          *)
(* component, while the others keep one of their initial states.           *)
(***************************************************************************)
EXTENDS Manifest, LogFile, Repair, PosixEnv

CONSTANT Parts   \* the components to explore

VARIABLE part

-----------------------------------------------------------------------------
(* Scenarios                                                               *)

Scenario(layouts, log, calls, seqs, works, falls) ==
  [layouts |-> layouts, wal |-> log, calls |-> calls, maxSeq |-> seqs,
   maxWork |-> works, maxCrashes |-> falls]

\* CURRENT only, with memtables: compactions, dumps and iterators side by side.
\* Without a write-ahead log: insertions of each kind, in the layouts given.
\* Either layout, with memtables: two crashes, the second while reopening.
MCScenarios ==
  { Scenario({FALSE}, TRUE, {"write", "compact", "iterate"}, 2, 3, 0),
    Scenario({FALSE}, FALSE, {"write", "compact", "iterate"}, 2, 2, 1),
    Scenario({FALSE}, TRUE, {"write", "compact"}, 1, 1, 2),
    Scenario({FALSE}, FALSE, {"bulk", "compact", "iterate"}, 2, 2, 1),
    Scenario({FALSE}, FALSE, {"insert", "compact"}, 2, 2, 2),
    Scenario({FALSE}, FALSE, {"direct", "compact"}, 2, 2, 2),
    Scenario(BOOLEAN, TRUE, {"write", "compact"}, 1, 1, 2),
    Scenario(BOOLEAN, FALSE, {"bulk", "insert", "direct", "compact"}, 1, 2, 2) }

LogScenario(bufSize, follow, offset, kinds, syncs) ==
  [bufSize |-> bufSize, follow |-> follow, offset |-> offset, damage |-> kinds, syncs |-> syncs]

\* Recovery of a buffered file, reads from an offset, damage, a follower.
MCLogScenarios ==
  {LogScenario(s, FALSE, 0, {"none"}, TRUE) : s \in {0, 5}}
  \cup {LogScenario(0, FALSE, o, {"none"}, FALSE) : o \in {1, 7, 8, 14, 17}}
  \cup {LogScenario(0, FALSE, 0, {"crc", "length"}, FALSE)}
  \cup {LogScenario(0, TRUE, 0, {}, FALSE)}

E(k, q) == [k |-> k, q |-> q]
Chunk(S, b) == [e |-> S, bad |-> b]
MCGarbage == E("?", 9)

Sound(S) == [open |-> TRUE, blocks |-> <<Chunk(S, FALSE)>>]
Hurt(S, T) == [open |-> TRUE, blocks |-> <<Chunk(S, FALSE), Chunk(T, TRUE)>>]

\* Only the manifest is gone; a table is damaged and another cannot be opened; a log is.
MCDamaged ==
  {[paranoid |-> TRUE, mans |-> {2},
    tables |-> [n \in {4, 5} |-> IF n = 4 THEN Sound({E("a", 1)}) ELSE Sound({E("a", 3), E("b", 2)})],
    logs |-> [n \in {6, 8} |-> IF n = 6 THEN <<Chunk({E("b", 4)}, FALSE)>> ELSE <<>>]],
   [paranoid |-> TRUE, mans |-> {2, 7},
    tables |-> [n \in {5, 6} |-> IF n = 5 THEN Hurt({E("a", 1)}, {E("b", 2)})
                                 ELSE [open |-> FALSE, blocks |-> <<Chunk({E("a", 3)}, FALSE)>>]],
    logs |-> [n \in {8} |-> <<Chunk({E("b", 4)}, FALSE)>>]],
   [paranoid |-> FALSE, mans |-> {},
    tables |-> [n \in {5} |-> Hurt({E("a", 1)}, {E("b", 2)})],
    logs |-> [n \in {8} |-> <<Chunk({E("b", 3)}, FALSE), Chunk({E("b", 4)}, TRUE),
                              Chunk({E("a", 5)}, FALSE)>>]]}

\* Two processes, one with two threads.
MCProcessOf == [t \in {"a1", "a2", "b1"} |-> IF t = "b1" THEN "B" ELSE "A"]

-----------------------------------------------------------------------------
Init ==
  /\ part \in Parts
  /\ IF part = "manifest" THEN TRUE ELSE opt = CHOOSE o \in Scenarios : TRUE
  /\ IF part = "log" THEN TRUE ELSE logOpt = CHOOSE o \in LogScenarios : TRUE
  /\ IF part = "repair" THEN TRUE ELSE damage = CHOOSE d \in Damaged : TRUE
  /\ ManInit /\ LogInit /\ RepairInit /\ PosixInit

ManifestStep == part = "manifest" /\ ManNext /\ UNCHANGED <<part, logVars, repairVars, posixVars>>
LogStep      == part = "log" /\ LogNext /\ UNCHANGED <<part, manVars, repairVars, posixVars>>
RepairStep   == part = "repair" /\ RepairNext /\ UNCHANGED <<part, manVars, logVars, posixVars>>
EnvStep      == part = "env" /\ PosixNext /\ UNCHANGED <<part, manVars, logVars, repairVars>>

Next == ManifestStep \/ LogStep \/ RepairStep \/ EnvStep

Spec == Init /\ [][Next]_<<part, manVars, logVars, repairVars, posixVars>>

-----------------------------------------------------------------------------
(* Properties                                                              *)

\* Whenever a DB stops, in LogAndApply, while it creates, names or removes files or while
\* it reopens, it can be opened again, with everything it promised and with sequence
\* numbers beyond all it stored (VersionSet::Recover, DBImpl::Recover).
RestartFindsAll ==
  part = "manifest" => ManTypeOK /\ Reopens /\ NothingLost /\ SequencesCovered

\* log::Reader returns records that were added, all of those that were synced, and loses
\* to a damaged block no more than that block and the records that cross its edges.
LogExact == part = "log" => RecordsGenuine /\ RecoveryComplete /\ DamageContained

\* RepairDB, killed and started over, leaves a database that opens and holds whatever could
\* be read.
RepairExact == part = "repair" => RepairKeeps /\ RepairedOpens
=============================================================================
