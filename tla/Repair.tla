------------------------------ MODULE Repair -------------------------------
(***************************************************************************)
(* RepairDB (src/leveldb/db/repair.cc): a database whose descriptor cannot *)
(* be read is rebuilt from its logs and its tables.  Every step that       *)
(* changes a file is an action, so that the repair can be interrupted      *)
(* between any two of them and started over.                               *)
(*                                                                         *)
(* An entry is [k, q], a key and a sequence number.  A table is its blocks *)
(* and whether it can be opened at all; a log is a sequence of records.  A *)
(* block or a record is [e, bad]: its entries, and whether it is damaged.  *)
(***************************************************************************)
EXTENDS Naturals, Sequences, FiniteSets, SequencesExt

CONSTANTS Damaged,      \* databases to repair: [tables, logs, mans, paranoid]
          Garbage,      \* an entry nobody wrote, which a damaged record may hold
          MaxKills, MaxFaults   \* bounds: interruptions, failing file operations

VARIABLES damage,   \* the database as it was found
          tabs,     \* table files in the directory
          wals,     \* log files in the directory
          descs,    \* manifests: number -> descriptor, or Old
          tmp,      \* the temporary descriptor file, NoDesc if there is none
          cur,      \* the manifest that CURRENT names
          rp,       \* the Repairer
          dropped,  \* history: readable entries that a failure or a kill has cost
          kills, faults

repairVars == <<damage, tabs, wals, descs, tmp, cur, rp, dropped, kills, faults>>

Old    == [files |-> {}, next |-> 0, last |-> 0]     \* what it says is not used
NoDesc == [files |-> {}, next |-> 1, last |-> 0]
NotRun == [pc |-> "idle", logs |-> <<>>, nums |-> <<>>, infos |-> {}, next |-> 4,
           old |-> {}, got |-> {}, copy |-> 0]

Put(f, n, v) == [m \in DOMAIN f \cup {n} |-> IF m = n THEN v ELSE f[m]]
Cut(f, n)    == [m \in DOMAIN f \ {n} |-> f[m]]
Ascending(S) == SetToSortSeq(S, <)

GoodRecords(parts)  == UNION {parts[i].e : i \in {j \in DOMAIN parts : ~parts[j].bad}}
AllOf(ents)  == [open |-> TRUE, blocks |-> <<[e |-> ents, bad |-> FALSE]>>]
Partial      == [open |-> FALSE, blocks |-> <<>>]
ReadableOf(t)  == IF t.open THEN GoodRecords(t.blocks) ELSE {}
\* BuildTable: no entries, no file.
BuildTable(ts, n, ents) == IF ents = {} THEN ts ELSE Put(ts, n, AllOf(ents))

MaxSeq(ents) == Max({0} \cup {x.q : x \in ents})

\* What iterating over a table yields.  Checksums are verified with paranoid_checks; then
\* a damaged block is passed over and the iterator's status says so.  Without them the
\* damage may go unnoticed.
Scans(t) ==
  IF ~t.open THEN {[ents |-> {}, ok |-> FALSE]}
  ELSE IF GoodRecords(t.blocks) = UNION {t.blocks[i].e : i \in DOMAIN t.blocks}
       THEN {[ents |-> GoodRecords(t.blocks), ok |-> TRUE]}
  ELSE {[ents |-> GoodRecords(t.blocks), ok |-> FALSE]} \cup
       (IF damage.paranoid THEN {} ELSE {[ents |-> GoodRecords(t.blocks) \cup {Garbage}, ok |-> TRUE]})

RepairInit ==
  /\ damage \in Damaged
  /\ tabs = damage.tables /\ wals = damage.logs
  /\ descs = [n \in damage.mans |-> Old] /\ cur = Max({0} \cup damage.mans) /\ tmp = NoDesc
  /\ rp = NotRun /\ dropped = {} /\ kills = 0 /\ faults = 0

Fault == faults < MaxFaults /\ faults' = faults + 1

----------------------------------------------------------------------------
(* Repairer::Run *)

FindFiles ==
  /\ rp.pc = "idle" /\ DOMAIN tabs \cup DOMAIN wals \cup DOMAIN descs # {}
  /\ rp' = [NotRun EXCEPT !.pc = "logs", !.old = DOMAIN descs,
              !.next = Max({4} \cup {n + 1 : n \in DOMAIN tabs \cup DOMAIN wals}),
              !.logs = Ascending(DOMAIN wals), !.nums = Ascending(DOMAIN tabs)]
  /\ UNCHANGED <<damage, tabs, wals, descs, tmp, cur, dropped, kills, faults>>

\* What ReadRecord and InsertInto make of a log: a damaged record may be dropped, or,
\* since the reader is told not to checksum, taken for what it is not.
Replays(log) ==
  {GoodRecords(log)} \cup
  (IF \E i \in DOMAIN log : log[i].bad THEN {GoodRecords(log) \cup {Garbage}} ELSE {})

\* ConvertLogToTable: the log becomes a table with a new number, unless it cannot be read
\* or the table cannot be built, which is only reported.
ConvertLogToTable ==
  /\ rp.pc = "logs" /\ rp.logs # <<>>
  /\ \/ \E ents \in Replays(wals[Head(rp.logs)]) :
          /\ tabs' = BuildTable(tabs, rp.next, ents)
          /\ rp' = [rp EXCEPT !.pc = "log", !.next = @ + 1,
                              !.nums = IF ents = {} THEN @ ELSE Append(@, rp.next)]
          /\ UNCHANGED <<dropped, faults>>
     \/ /\ Fault
        /\ dropped' = dropped \cup GoodRecords(wals[Head(rp.logs)])
        /\ rp' = [rp EXCEPT !.pc = "log", !.next = @ + 1]
        /\ UNCHANGED tabs
  /\ UNCHANGED <<damage, wals, descs, tmp, cur, kills>>

\* ArchiveFile(fname) for the log, converted or not.
ArchiveLog ==
  /\ rp.pc = "log"
  /\ wals' = Cut(wals, Head(rp.logs))
  /\ rp' = [rp EXCEPT !.pc = "logs", !.logs = Tail(@)]
  /\ UNCHANGED <<damage, tabs, descs, tmp, cur, dropped, kills, faults>>

Info(n, ents) == [n |-> n, max |-> MaxSeq(ents), ents |-> ents]

\* Mutant: a table that cannot be read to its end is left out.
ScanTableDrops ==
  /\ rp.pc = "logs" /\ rp.logs = <<>> /\ rp.nums # <<>>
  /\ \E s \in Scans(tabs[Head(rp.nums)]) :
       rp' = [rp EXCEPT !.nums = Tail(@),
                        !.infos = IF s.ok THEN @ \cup {Info(Head(rp.nums), s.ents)} ELSE @]
  /\ UNCHANGED <<damage, tabs, wals, descs, tmp, cur, dropped, kills, faults>>

\* ScanTable: a table that can be read to its end is kept as it is.
ScanTable ==
  /\ rp.pc = "logs" /\ rp.logs = <<>> /\ rp.nums # <<>>
  /\ \E s \in Scans(tabs[Head(rp.nums)]) :
       rp' = IF s.ok
             THEN [rp EXCEPT !.infos = @ \cup {Info(Head(rp.nums), s.ents)}, !.nums = Tail(@)]
             ELSE [rp EXCEPT !.pc = "copy", !.got = s.ents]
  /\ UNCHANGED <<damage, tabs, wals, descs, tmp, cur, dropped, kills, faults>>

\* RepairTable starts a copy, under a new number, of what can be read.
RepairTable ==
  /\ rp.pc = "copy"
  /\ \/ /\ tabs' = Put(tabs, rp.next, Partial)
        /\ rp' = [rp EXCEPT !.pc = "copied", !.copy = rp.next, !.next = @ + 1]
        /\ UNCHANGED <<dropped, faults>>
     \/ /\ Fault
        /\ dropped' = dropped \cup rp.got
        /\ rp' = [rp EXCEPT !.pc = "logs", !.nums = Tail(@), !.next = @ + 1]
        /\ UNCHANGED tabs
  /\ UNCHANGED <<damage, wals, descs, tmp, cur, kills>>

\* ArchiveFile(src), before the copy is finished.
ArchiveTable ==
  /\ rp.pc = "copied"
  /\ tabs' = Cut(tabs, Head(rp.nums))
  /\ rp' = [rp EXCEPT !.pc = "finish"]
  /\ UNCHANGED <<damage, wals, descs, tmp, cur, dropped, kills, faults>>

\* The copy is finished and closed; with nothing to save it is abandoned, and its file
\* stays; if that fails the file is deleted.
FinishCopy ==
  /\ rp.pc = "finish"
  /\ \/ /\ tabs' = IF rp.got = {} THEN tabs ELSE Put(tabs, rp.copy, AllOf(rp.got))
        /\ rp' = IF rp.got = {} THEN [rp EXCEPT !.pc = "logs", !.nums = Tail(@)]
                 ELSE [rp EXCEPT !.pc = "rename"]
        /\ UNCHANGED <<dropped, faults>>
     \/ /\ Fault
        /\ dropped' = dropped \cup rp.got
        /\ tabs' = Cut(tabs, rp.copy)
        /\ rp' = [rp EXCEPT !.pc = "logs", !.nums = Tail(@)]
  /\ UNCHANGED <<damage, wals, descs, tmp, cur, kills>>

\* The copy takes the name of its source.
RenameCopy ==
  /\ rp.pc = "rename"
  /\ \/ /\ tabs' = Put(Cut(tabs, rp.copy), Head(rp.nums), tabs[rp.copy])
        /\ rp' = [rp EXCEPT !.pc = "logs", !.nums = Tail(@),
                            !.infos = @ \cup {Info(Head(rp.nums), rp.got)}]
        /\ UNCHANGED <<dropped, faults>>
     \/ /\ Fault
        /\ dropped' = dropped \cup rp.got
        /\ tabs' = Cut(tabs, rp.copy)
        /\ rp' = [rp EXCEPT !.pc = "logs", !.nums = Tail(@)]
  /\ UNCHANGED <<damage, wals, descs, tmp, cur, kills>>

Descriptor == [files |-> {i.n : i \in rp.infos}, next |-> rp.next,
               last |-> Max({0} \cup {i.max : i \in rp.infos})]

\* WriteDescriptor: every table at level 0, into a temporary file ...
WriteDescriptor ==
  /\ rp.pc = "logs" /\ rp.logs = <<>> /\ rp.nums = <<>>
  /\ \/ tmp' = Descriptor /\ rp' = [rp EXCEPT !.pc = "manifests"] /\ UNCHANGED faults
     \/ Fault /\ tmp' = NoDesc /\ rp' = NotRun
  /\ UNCHANGED <<damage, tabs, wals, descs, cur, dropped, kills>>

\* ... the manifests found are archived, one after the other ...
ArchiveManifest ==
  /\ rp.pc = "manifests" /\ rp.old # {}
  /\ LET n == Min(rp.old) IN
       descs' = Cut(descs, n) /\ rp' = [rp EXCEPT !.old = @ \ {n}]
  /\ UNCHANGED <<damage, tabs, wals, tmp, cur, dropped, kills, faults>>

\* ... and the file becomes MANIFEST-3.
InstallManifest ==
  /\ rp.pc = "manifests" /\ rp.old = {}
  /\ \/ descs' = Put(descs, 3, tmp) /\ rp' = [rp EXCEPT !.pc = "current"] /\ UNCHANGED faults
     \/ Fault /\ UNCHANGED descs /\ rp' = NotRun
  /\ tmp' = NoDesc
  /\ UNCHANGED <<damage, tabs, wals, cur, dropped, kills>>

SetCurrentFile ==
  /\ rp.pc = "current"
  /\ \/ cur' = 3 /\ rp' = [rp EXCEPT !.pc = "done"] /\ UNCHANGED faults
     \/ Fault /\ UNCHANGED cur /\ rp' = NotRun
  /\ UNCHANGED <<damage, tabs, wals, descs, tmp, dropped, kills>>

\* The process is killed.  Between ArchiveTable and FinishCopy no file in the directory
\* holds what was read.
Kill ==
  /\ rp.pc \notin {"idle", "done"} /\ kills < MaxKills
  /\ kills' = kills + 1
  /\ dropped' = IF rp.pc = "finish" THEN dropped \cup rp.got ELSE dropped
  /\ rp' = NotRun
  /\ UNCHANGED <<damage, tabs, wals, descs, tmp, cur, faults>>

RepairNext ==
  \/ FindFiles \/ ConvertLogToTable \/ ArchiveLog \/ ScanTable \/ RepairTable \/ ArchiveTable
  \/ FinishCopy \/ RenameCopy \/ WriteDescriptor \/ ArchiveManifest \/ InstallManifest
  \/ SetCurrentFile \/ Kill

RepairSpec == RepairInit /\ [][RepairNext]_repairVars

----------------------------------------------------------------------------
(* Properties *)

Repaired == rp.pc = "done"
Listed   == {n \in DOMAIN tabs : n \in descs[3].files}
Found    == UNION {ReadableOf(damage.tables[n]) : n \in DOMAIN damage.tables}
              \cup UNION {GoodRecords(damage.logs[n]) : n \in DOMAIN damage.logs}

(* When RepairDB returns OK, everything that could be read when it was first called is in
   the repaired database, however often it was killed and started over, except what a
   failed file operation, or a kill between archiving a table and finishing its copy,
   has moved to the directory of lost files. *)
RepairKeeps ==
  Repaired => Found \subseteq dropped \cup UNION {ReadableOf(tabs[n]) : n \in Listed}

(* The database that RepairDB leaves can be opened and written: CURRENT names the new
   manifest, its tables exist and can be opened, its last sequence number hides no later
   write, and no file has a number that will be given out again. *)
RepairedOpens ==
  Repaired =>
    /\ cur \in DOMAIN descs /\ DOMAIN descs = {3}
    /\ Listed = descs[3].files
    /\ \A n \in Listed : tabs[n].open /\ MaxSeq(ReadableOf(tabs[n])) <= descs[3].last
    /\ \A n \in DOMAIN tabs \cup DOMAIN wals : n < descs[3].next
=============================================================================
