----------------------------- MODULE MCVersions -----------------------------
(***************************************************************************)
(* What a version is made of, for TLC: the levels of tables, the tables    *)
(* AddL0Tables adds with their offsets, the records of version edits, and  *)
(* the directories of a database that is kept in two environments.  A      *)
(* behaviour is one of one component, while the others keep one of their   *)
(* initial states.                                                         *)
(***************************************************************************)
EXTENDS LevelTree, BulkLoad, VersionEdit, RadosDbEnv

CONSTANTS Parts,   \* the components to explore
          a, b     \* keys of BulkLoad

VARIABLE part

-----------------------------------------------------------------------------
(* The scenarios of LevelTree.  Those of the passing run stay clear of two *)
(* things the code does not handle: a table boundary between two entries   *)
(* of a user key (Split, which takes a snapshot and small tables) and a    *)
(* dump placed below level 0 inside a compaction.                          *)

\* No snapshots and one-entry tables: every output is cut, levels fill up and
\* files move.  A dump comes inside a compaction, into level 0.
Small == [tableSize |-> 1, memLevel |-> 0, busyDumps |-> TRUE,
          maxSeq |-> 4, maxSnapshots |-> 0, maxManual |-> 0]
\* Snapshots, with tables that hold every entry.
Snaps == [tableSize |-> 9, memLevel |-> 0, busyDumps |-> TRUE,
          maxSeq |-> 3, maxSnapshots |-> 1, maxManual |-> 0]
\* Dumps placed as deep as they go, and files taken along in SetupOtherInputs.
Deep  == [tableSize |-> 2, memLevel |-> 2, busyDumps |-> FALSE,
          maxSeq |-> 4, maxSnapshots |-> 0, maxManual |-> 1]
MCScenarios == {Small, Snaps, Deep}

\* A snapshot and one-entry tables: an output is cut between the entries of a
\* user key.
Split == [tableSize |-> 1, memLevel |-> 0, busyDumps |-> FALSE,
          maxSeq |-> 2, maxSnapshots |-> 1, maxManual |-> 0]
MCSplit == {Split}

\* A directory of two tables whose numbers overlap, and one of a single table with large
\* numbers, so that offsets of either sign and offset 0 arise.
MCDirs == {<<{[k |-> a, q |-> 1], [k |-> b, q |-> 2]}, {[k |-> a, q |-> 1], [k |-> a, q |-> 3]}>>,
           <<{[k |-> a, q |-> 5], [k |-> b, q |-> 6]}>>}

\* Offsets, names and internal keys of edits: of either sign, empty, with a zero byte.
MCOffs == {3, -64}
MCNames == {<<>>, <<7, 0, 1, 4>>}
MCInternalKeys == {<<6, 1>>}

\* The files of a database that the two environments treat differently.
MCDbFiles == {"CURRENT", "000001.log", "000002.dbtmp", "LOCK"}
MCTypeOf == [f \in MCDbFiles |-> CASE f = "CURRENT" -> "current"
                                   [] f = "000001.log" -> "log"
                                   [] f = "000002.dbtmp" -> "temp"
                                   [] OTHER -> "lock"]

-----------------------------------------------------------------------------
Init ==
  /\ part \in Parts
  /\ IF part = "tree" THEN TRUE ELSE opt = CHOOSE o \in Scenarios : TRUE
  /\ TreeInit /\ BulkInit /\ EditInit /\ EnvInit

TreeStep == part = "tree" /\ TreeNext /\ UNCHANGED <<part, bulkVars, editVars, envVars>>
BulkStep == part = "bulk" /\ BulkNext /\ UNCHANGED <<part, treeVars, editVars, envVars>>
EditStep == part = "edit" /\ EditNext /\ UNCHANGED <<part, treeVars, bulkVars, envVars>>
EnvStep  == part = "env" /\ EnvNext /\ UNCHANGED <<part, treeVars, bulkVars, editVars>>

Next == TreeStep \/ BulkStep \/ EditStep \/ EnvStep

Spec == Init /\ [][Next]_<<part, treeVars, bulkVars, editVars, envVars>>

-----------------------------------------------------------------------------
(* Properties                                                              *)

\* Dumps, compactions and moves keep the shape of the levels that Version::Get relies on:
\* levels above 0 are sorted and disjoint, and newer entries of a key are higher up.
TreeSound == part = "tree" => TreeTypeOK /\ LevelsDisjoint /\ NewestOnTop

\* Readers, with a snapshot or without, see the last write of each key, whatever dumps and
\* compactions moved or dropped meanwhile.
TreeReadsAgree == part = "tree" => ReadsAgree

\* Whatever AddL0Tables inserts, beside readers and failures, is numbered in order and is
\* read at its numbers through the table cache (table_cache.cc).
LoadsExact == part = "bulk" => RangesInOrder /\ OffsetsExact /\ SequenceMonotone

\* A version edit is decoded as it was encoded, and a record that was cut off is refused or
\* decodes to its first fields (version_edit.cc).
EditsExact == part = "edit" => RoundTrip /\ CutAtField
=============================================================================
