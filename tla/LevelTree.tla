----------------------------- MODULE LevelTree -----------------------------
(***************************************************************************)
(* The levels of tables of a DB: where a memtable's table is placed, which *)
(* files a compaction takes, what it drops, and what DBImpl::Get finds.    *)
(*                                                                         *)
(* An entry is a user key, its sequence number and whether it is a         *)
(* deletion; its value is its sequence number.  A table is the sorted      *)
(* sequence of its entries and its size is their number.  That one thread  *)
(* at a time changes the version is proved of BgCompaction; here a         *)
(* compaction is two steps, so that writes, snapshots and the dump of a    *)
(* memtable come in between, as in the loop of DoCompactionWork.           *)
(***************************************************************************)
EXTENDS Naturals, Sequences, FiniteSets, FiniteSetsExt, TLC

CONSTANTS
  None,
  NumKeys, NumLevels,   \* user keys 1..NumKeys; config::kNumLevels
  LevelFactor,          \* options: level_factor
  L0Trigger, L1Trigger, \* options: l0_compaction_trigger, l1_compaction_trigger
  Scenarios             \* what varies: table_file_size, max_mem_compact_level,
                        \* whether a dump may come inside a compaction, and
                        \* bounds on writes, snapshots and manual compactions

ASSUME OptionsAssumption ==
  /\ {NumKeys, NumLevels, LevelFactor, L0Trigger, L1Trigger} \subseteq Nat \ {0}
  /\ \A o \in Scenarios :
       /\ o.busyDumps \in BOOLEAN
       /\ {o.tableSize, o.memLevel, o.maxSeq, o.maxSnapshots, o.maxManual}
            \subseteq Nat

VARIABLES
  opt,       \* the scenario of this behaviour
  mem, imm,  \* the entries of mem_ and imm_ (None: NULL)
  version,   \* current_: the files of each level, sorted by smallest key
  seek,      \* file_to_compact_ and its level, None without one
  pointer,   \* compact_pointer_ of each level, None if empty
  comp,      \* the compaction at work, None without one
  lastSeq, nextFile,
  snapshots, \* the sequence numbers of snapshots_
  manual,    \* manual compactions so far
  written    \* every entry written so far: what reads are compared with

treeVars == <<opt, mem, imm, version, seek, pointer, comp, lastSeq, nextFile,
          snapshots, manual, written>>

Keys   == 1..NumKeys
Levels == 0..(NumLevels - 1)

-----------------------------------------------------------------------------
(* Internal keys, files and ranges.                                        *)

\* InternalKeyComparator::Compare: by user key, then by decreasing sequence.
Before(a, b) == a.key < b.key \/ (a.key = b.key /\ a.seq > b.seq)

\* The elements of S in the order of Less.
Sorted(S, Less(_, _)) ==
  SortSeq(FoldSet(LAMBDA x, s : Append(s, x), <<>>, S), Less)

Elements(s) == {s[i] : i \in DOMAIN s}

Smallest(f) == f.data[1]
Largest(f)  == f.data[Len(f.data)]
Size(f)     == Len(f.data)

BySmallestKey(f, g) ==
  Before(Smallest(f), Smallest(g)) \/ (Smallest(f) = Smallest(g) /\ f.num < g.num)
NewestFirst(f, g) == f.num > g.num

TotalFileSize(files) == MapThenSumSet(Size, Elements(files))

GetRange(files) ==
  [smallest |-> CHOOSE e \in {Smallest(f) : f \in Elements(files)} :
                  \A f \in Elements(files) : ~Before(Smallest(f), e),
   largest  |-> CHOOSE e \in {Largest(f) : f \in Elements(files)} :
                  \A f \in Elements(files) : ~Before(e, Largest(f))]

\* The index of the first file whose largest key is at or after "ikey".
FindFile(files, ikey) ==
  LET Search[left \in 1..(Len(files) + 1), right \in 1..(Len(files) + 1)] ==
        LET mid == (left + right) \div 2 IN
        IF left >= right THEN right
        ELSE IF Before(Largest(files[mid]), ikey) THEN Search[mid + 1, right]
        ELSE Search[left, mid]
  IN Search[1, Len(files) + 1]

AfterFile(key, f)  == key # None /\ key > Largest(f).key
BeforeFile(key, f) == key # None /\ key < Smallest(f).key

\* The key before every entry of a user key (kMaxSequenceNumber).
SeekKey(key) == [key |-> key, seq |-> opt.maxSeq + 1]

SomeFileOverlapsRange(disjoint, files, begin, end) ==
  IF ~disjoint
  THEN \E f \in Elements(files) : ~AfterFile(begin, f) /\ ~BeforeFile(end, f)
  ELSE LET index == IF begin = None THEN 1 ELSE FindFile(files, SeekKey(begin))
       IN index <= Len(files) /\ ~BeforeFile(end, files[index])

\* Version::GetOverlappingInputs.  In level 0 a file that sticks out widens the
\* range and the search restarts: after as many rounds as there are files the
\* range is the one at which the code stops.
GetOverlappingInputs(v, level, begin, end) ==
  LET In(b, e) == SelectSeq(v[level], LAMBDA f : ~AfterFile(b, f) /\ ~BeforeFile(e, f))
      Wider(b, e) ==
        LET got == GetRange(In(b, e)) IN
        IF In(b, e) = <<>> THEN <<b, e>>
        ELSE <<IF b = None THEN b ELSE Min({b, got.smallest.key}),
               IF e = None THEN e ELSE Max({e, got.largest.key})>>
      Widened[n \in Nat] ==
        IF n = 0 THEN <<begin, end>>
        ELSE LET r == Widened[n - 1] IN Wider(r[1], r[2])
      wide == IF level = 0 THEN Widened[Len(v[0])] ELSE <<begin, end>>
  IN In(wide[1], wide[2])

-----------------------------------------------------------------------------
(* Reads.                                                                  *)

\* Where a seek for "key" at "snapshot" stops, None past the end.
SeekTo(data, key, snapshot) ==
  LET at == {i \in DOMAIN data : ~Before(data[i], [key |-> key, seq |-> snapshot])}
  IN IF at = {} THEN None ELSE data[Min(at)]

\* Table::InternalGet, and SaveValue, which takes the entry if its key is ours.
TableGet(f, key, snapshot) ==
  LET e == SeekTo(f.data, key, snapshot) IN IF e # None /\ e.key = key THEN e ELSE None

MemTableGet(entries, key, snapshot) ==
  LET e == SeekTo(Sorted(entries, Before), key, snapshot)
  IN IF e # None /\ e.key = key THEN e ELSE None

\* Version::Get, ForEachOverlapping: the files searched, in order, with levels.
Searched(v, key, snapshot) ==
  LET tmp   == {f \in Elements(v[0]) : ~AfterFile(key, f) /\ ~BeforeFile(key, f)}
      young == Sorted(tmp, NewestFirst)
      At(level) ==
        LET index == FindFile(v[level], [key |-> key, seq |-> snapshot]) IN
        IF index > Len(v[level]) \/ BeforeFile(key, v[level][index]) THEN <<>>
        ELSE <<[file |-> v[level][index], level |-> level]>>
      Below[level \in Nat] ==
        IF level >= NumLevels THEN <<>> ELSE At(level) \o Below[level + 1]
  IN [i \in DOMAIN young |-> [file |-> young[i], level |-> 0]] \o Below[1]

VersionGet(v, key, snapshot) ==
  LET files == Searched(v, key, snapshot)
      hits  == {i \in DOMAIN files : TableGet(files[i].file, key, snapshot) # None}
  IN IF hits = {} THEN None ELSE TableGet(files[Min(hits)].file, key, snapshot)

\* DBImpl::Get: first the memtable, then the immutable memtable (if any), then
\* the version.  The value found, None for a deletion or for nothing.
Get(key, snapshot) ==
  LET inMem == MemTableGet(mem, key, snapshot)
      inImm == IF imm = None THEN None ELSE MemTableGet(imm, key, snapshot)
      found == IF inMem # None THEN inMem
               ELSE IF inImm # None THEN inImm
               ELSE VersionGet(version, key, snapshot)
  IN IF found = None \/ found.del THEN None ELSE found.seq

-----------------------------------------------------------------------------
(* Limits, scores and the choice of inputs.                                *)

MaxGrandParentOverlapBytes == LevelFactor * opt.tableSize
ExpandedCompactionByteSizeLimit == (2 * (LevelFactor + 2) + 1) * opt.tableSize
MaxBytesForLevel(level) == L1Trigger * LevelFactor^(level - 1) * opt.tableSize

\* VersionSet::Finalize: the score of a level is score[1] / score[2].
Score(v, level) ==
  IF level = 0 THEN <<Len(v[0]), L0Trigger>>
  ELSE <<TotalFileSize(v[level]), MaxBytesForLevel(level)>>
CompactionLevel(v) ==
  LET Less(a, b) == a[1] * b[2] < b[1] * a[2]
      scored == 0..(NumLevels - 2)
  IN Min({l \in scored : \A m \in scored : ~Less(Score(v, l), Score(v, m))})
NeedsSizeCompaction(v) ==
  LET score == Score(v, CompactionLevel(v)) IN score[1] >= score[2]

OverlapInLevel(v, level, begin, end) ==
  SomeFileOverlapsRange(level > 0, v[level], begin, end)

\* Version::PickLevelForMemTableOutput.
PickLevelForMemTableOutput(v, begin, end) ==
  LET Stops(level) ==
        \/ level >= opt.memLevel
        \/ OverlapInLevel(v, level + 1, begin, end)
        \/ /\ level + 2 < NumLevels
           /\ TotalFileSize(GetOverlappingInputs(v, level + 2, begin, end))
                > MaxGrandParentOverlapBytes
  IN IF OverlapInLevel(v, 0, begin, end) THEN 0
     ELSE CHOOSE level \in Levels : Stops(level) /\ \A l \in 0..(level - 1) : ~Stops(l)

\* VersionSet::PickCompaction: the files of inputs_[0], for a level with too
\* much data or for a file that took too many seeks.
SizeInputs(v, level) ==
  LET rest == {i \in DOMAIN v[level] :
                 pointer[level] = None \/ Before(pointer[level], Largest(v[level][i]))}
  IN <<v[level][IF rest = {} THEN 1 ELSE Min(rest)]>>
\* Mutant: only the picked file of level 0.
PickedFileOnly(v, level, files) == files

WithOverlapping0(v, level, files) ==
  LET r == GetRange(files) IN
  IF level > 0 THEN files
  ELSE GetOverlappingInputs(v, 0, r.smallest.key, r.largest.key)

\* VersionSet::CompactRange: at most a table's worth of files above level 0.
RangeInputs(v, level, begin, end) ==
  LET files == GetOverlappingInputs(v, level, begin, end)
      full  == {i \in DOMAIN files : TotalFileSize(SubSeq(files, 1, i)) >= opt.tableSize}
  IN IF level = 0 \/ full = {} THEN files ELSE SubSeq(files, 1, Min(full))

\* VersionSet::SetupOtherInputs: the compaction of "in0" and what goes with it.
SetupOtherInputs(v, level, in0) ==
  LET Over(l, files) == GetOverlappingInputs(v, l, GetRange(files).smallest.key,
                                             GetRange(files).largest.key)
      in1       == Over(level + 1, in0)
      expanded0 == Over(level, in0 \o in1)
      expanded1 == Over(level + 1, expanded0)
      expand    == /\ in1 # <<>>
                   /\ Len(expanded0) > Len(in0)
                   /\ TotalFileSize(in1) + TotalFileSize(expanded0)
                        < ExpandedCompactionByteSizeLimit
                   /\ Len(expanded1) = Len(in1)
      first     == IF expand THEN expanded0 ELSE in0
      second    == IF expand THEN expanded1 ELSE in1
  IN [level  |-> level, in0 |-> first, in1 |-> second,
      grandparents |-> IF level + 2 < NumLevels THEN Over(level + 2, first \o second)
                       ELSE <<>>,
      base   |-> v]

IsTrivialMove(c) ==
  /\ Len(c.in0) = 1 /\ c.in1 = <<>>
  /\ TotalFileSize(c.grandparents) <= MaxGrandParentOverlapBytes

-----------------------------------------------------------------------------
(* The output of a compaction.                                             *)

\* Compaction::IsBaseLevelForKey.
IsBaseLevelForKey(c, key) ==
  \A level \in (c.level + 2)..(NumLevels - 1) :
    LET ahead == {i \in DOMAIN c.base[level] : ~AfterFile(key, c.base[level][i])}
    IN ahead = {} \/ BeforeFile(key, c.base[level][Min(ahead)])

\* Mutant: an older entry is dropped although a snapshot sees it.
DropsOlder(c, last, e) ==
  \/ last # None
  \/ e.del /\ e.seq <= c.snapshot /\ IsBaseLevelForKey(c, e.key)

\* DoCompactionWork: an entry hidden by a newer one that every snapshot sees,
\* or a deletion with nothing below it.  "last" is the sequence number of the
\* entry before it for the same key, None for the first one.
Drops(c, last, e) ==
  \/ last # None /\ last <= c.snapshot
  \/ e.del /\ e.seq <= c.snapshot /\ IsBaseLevelForKey(c, e.key)

\* Compaction::ShouldStopBefore, with grandparent_index_, seen_key_ and
\* overlapped_bytes_ in st: sets st.stop.
Restarted(st) == IF st.bytes > MaxGrandParentOverlapBytes
                 THEN [st EXCEPT !.bytes = 0, !.stop = TRUE]
                 ELSE [st EXCEPT !.stop = FALSE]
ShouldStopBefore(c, st, e) ==
  LET passed == {i \in (st.index + 1)..Len(c.grandparents) :
                   Before(Largest(c.grandparents[i]), e)}
  IN Restarted([st EXCEPT
       !.index = @ + Cardinality(passed),
       !.bytes = IF st.seen THEN @ + MapThenSumSet(LAMBDA i : Size(c.grandparents[i]), passed)
                 ELSE @,
       !.seen  = TRUE])

\* FinishCompactionOutputFile, for an output that has entries.
FinishOutput(st) ==
  IF st.open = <<>> THEN st
  ELSE [st EXCEPT !.outs = Append(@, st.open), !.open = <<>>]

\* One round of the loop, after ShouldStopBefore.  st: the finished outputs, the
\* entries of the open one, the previous entry, and the state of ShouldStopBefore.
Stopped(st) == IF st.stop THEN FinishOutput(st) ELSE st
AddToOutput(st, e) ==
  IF Len(st.open) + 1 >= opt.tableSize THEN FinishOutput([st EXCEPT !.open = Append(@, e)])
  ELSE [st EXCEPT !.open = Append(@, e)]
Processed(c, st, e) ==
  LET last == IF st.prev # None /\ st.prev.key = e.key THEN st.prev.seq ELSE None
  IN IF Drops(c, last, e) THEN [st EXCEPT !.prev = e]
     ELSE AddToOutput([st EXCEPT !.prev = e], e)
CompactEntry(c, st, e) == Processed(c, Stopped(ShouldStopBefore(c, st, e)), e)

\* The tables the loop builds from the merged inputs.
Outputs(c) ==
  LET input == Sorted(UNION {Elements(f.data) : f \in Elements(c.in0 \o c.in1)}, Before)
      Loop[i \in 0..Len(input)] ==
        IF i = 0
        THEN [outs |-> <<>>, open |-> <<>>, prev |-> None, stop |-> FALSE, seen |-> FALSE,
              index |-> 0, bytes |-> 0]
        ELSE CompactEntry(c, Loop[i - 1], input[i])
  IN FinishOutput(Loop[Len(input)]).outs

\* VersionSet::Builder: "v" without the files numbered in gone[level] and with
\* the files of new[level].
Applied(v, gone, new) ==
  [level \in Levels |->
     Sorted({f \in Elements(v[level]) : f.num \notin gone[level]} \cup new[level],
            BySmallestKey)]

At(level, S) == [l \in Levels |-> IF l = level THEN S ELSE {}]
Nums(files)  == {f.num : f \in Elements(files)}

-----------------------------------------------------------------------------
TreeInit ==
  /\ opt \in Scenarios
  /\ mem = {} /\ imm = None
  /\ version = [l \in Levels |-> <<>>]
  /\ seek = None
  /\ pointer = [l \in Levels |-> None]
  /\ comp = None
  /\ lastSeq = 0 /\ nextFile = 1
  /\ snapshots = {}
  /\ manual = 0
  /\ written = {}

\* AppendVersion: the new version has no file_to_compact_ yet.
Install(v) == version' = v /\ seek' = None

\* DBImpl::Put, DBImpl::Delete.
Write(key, del) ==
  /\ lastSeq < opt.maxSeq
  /\ lastSeq' = lastSeq + 1
  /\ LET e == [key |-> key, seq |-> lastSeq + 1, del |-> del] IN
     mem' = mem \cup {e} /\ written' = written \cup {e}
  /\ UNCHANGED <<opt, imm, version, seek, pointer, comp, nextFile, snapshots, manual>>

\* MakeRoomForWrite or FlushMemTable: switch to a new memtable.
SwitchMemTable ==
  /\ mem # {} /\ imm = None
  /\ imm' = mem /\ mem' = {}
  /\ UNCHANGED <<opt, version, seek, pointer, comp, lastSeq, nextFile, snapshots, manual, written>>

\* DBImpl::CompactMemTable, WriteLevel0Table: alone or inside a compaction.
CompactMemTable ==
  /\ imm # None
  /\ comp = None \/ opt.busyDumps
  /\ LET f     == [num |-> nextFile, data |-> Sorted(imm, Before)]
         level == PickLevelForMemTableOutput(version, Smallest(f).key, Largest(f).key)
     IN Install(Applied(version, At(0, {}), At(level, {f})))
  /\ nextFile' = nextFile + 1
  /\ imm' = None
  /\ UNCHANGED <<opt, mem, pointer, comp, lastSeq, snapshots, manual, written>>

\* The start of a compaction of "in0" in BackgroundCompaction: a trivial move
\* is installed at once, anything else is work for DoCompactionWork, which
\* reads the oldest snapshot before it lets go of the mutex.
Compact(level, in0, isManual) ==
  \E c \in {SetupOtherInputs(version, level, in0)} :
  /\ pointer' = [pointer EXCEPT ![level] = GetRange(c.in0).largest]
  /\ IF ~isManual /\ IsTrivialMove(c)
     THEN /\ Install(Applied(version, At(level, Nums(in0)), At(level + 1, Elements(in0))))
          /\ UNCHANGED comp
     ELSE /\ comp' = [level |-> level, in0 |-> c.in0, in1 |-> c.in1, base |-> c.base,
                      grandparents |-> c.grandparents,
                      snapshot |-> IF snapshots = {} THEN lastSeq ELSE Min(snapshots)]
          /\ UNCHANGED <<version, seek>>
  /\ UNCHANGED <<opt, mem, imm, lastSeq, nextFile, snapshots, written>>

\* DBImpl::BackgroundCompaction runs the dump of imm_ first.
PickCompaction ==
  /\ comp = None /\ imm = None
  /\ IF NeedsSizeCompaction(version)
     THEN LET level == CompactionLevel(version) IN
          Compact(level, WithOverlapping0(version, level, SizeInputs(version, level)), FALSE)
     ELSE /\ seek # None
          /\ Compact(seek.level, WithOverlapping0(version, seek.level, <<seek.file>>), FALSE)
  /\ UNCHANGED manual

\* A piece of a manual compaction (manual_compaction_).
CompactRange(level, begin, end) ==
  /\ comp = None /\ imm = None
  /\ manual < opt.maxManual
  /\ level + 1 < NumLevels
  /\ LET in0 == RangeInputs(version, level, begin, end) IN
     in0 # <<>> /\ Compact(level, in0, TRUE)
  /\ manual' = manual + 1

\* The end of DoCompactionWork: InstallCompactionResults.
FinishCompaction ==
  /\ comp # None
  /\ \E outs \in {Outputs(comp)} :
     LET new  == {[num |-> nextFile + i - 1, data |-> outs[i]] : i \in DOMAIN outs}
         gone == [l \in Levels |-> CASE l = comp.level     -> Nums(comp.in0)
                                     [] l = comp.level + 1 -> Nums(comp.in1)
                                     [] OTHER              -> {}]
     IN /\ Install(Applied(version, gone, At(comp.level + 1, new)))
        /\ nextFile' = nextFile + Len(outs)
  /\ comp' = None
  /\ UNCHANGED <<opt, mem, imm, pointer, lastSeq, snapshots, manual, written>>

\* Version::UpdateStats: a file whose allowed_seeks ran out is to be compacted.
UpdateStats(at) ==
  /\ seek = None
  /\ seek' = at
  /\ UNCHANGED <<opt, mem, imm, version, pointer, comp, lastSeq, nextFile, snapshots, manual, written>>

\* DBImpl::Get charges the first file when it has to read a second one.
GetCharges(key) ==
  /\ \A e \in mem \cup (IF imm = None THEN {} ELSE imm) : e.key # key
  /\ LET files == Searched(version, key, lastSeq) IN
     /\ Len(files) >= 2
     /\ TableGet(files[1].file, key, lastSeq) = None
     /\ UpdateStats(files[1])

\* Version::RecordReadSample: an iterator at an entry that two files may hold.
RecordReadSample(e) ==
  LET files == Searched(version, e.key, e.seq) IN
  /\ Len(files) >= 2
  /\ UpdateStats(files[1])

GetSnapshot ==
  /\ Cardinality(snapshots) < opt.maxSnapshots
  /\ lastSeq \notin snapshots
  /\ snapshots' = snapshots \cup {lastSeq}
  /\ UNCHANGED <<opt, mem, imm, version, seek, pointer, comp, lastSeq, nextFile, manual, written>>

ReleaseSnapshot ==
  /\ \E s \in snapshots : snapshots' = snapshots \ {s}
  /\ UNCHANGED <<opt, mem, imm, version, seek, pointer, comp, lastSeq, nextFile, manual, written>>

TreeNext ==
  \/ \E k \in Keys, d \in BOOLEAN : Write(k, d)
  \/ SwitchMemTable
  \/ CompactMemTable
  \/ PickCompaction
  \/ \E l \in Levels, b, e \in Keys \cup {None} : CompactRange(l, b, e)
  \/ FinishCompaction
  \/ \E k \in Keys : GetCharges(k)
  \/ \E e \in written : RecordReadSample(e)
  \/ GetSnapshot
  \/ ReleaseSnapshot

TreeSpec == TreeInit /\ [][TreeNext]_treeVars

-----------------------------------------------------------------------------
Files == UNION {Elements(version[l]) : l \in Levels}

\* No two files of the version share a number, and every entry is one written.
TreeTypeOK ==
  /\ opt \in Scenarios
  /\ lastSeq \in 0..opt.maxSeq
  /\ nextFile \in Nat \ {0}
  /\ snapshots \subseteq 0..lastSeq
  /\ manual \in 0..opt.maxManual
  /\ \A f \in Files : f.num \in 1..(nextFile - 1) /\ f.data # <<>>
  /\ \A f, g \in Files : f.num = g.num => f = g
  /\ UNION {Elements(f.data) : f \in Files} \cup mem \subseteq written

\* Above level 0 the files of a level are in order and share no entry: the
\* assertion of MaybeAddFile and the abort of SaveTo.
LevelsDisjoint ==
  \A l \in Levels \ {0} : \A i \in 1..(Len(version[l]) - 1) :
    Before(Largest(version[l][i]), Smallest(version[l][i + 1]))

\* Entries never hop across levels (Version::Get): what a lower layer holds of a
\* user key is older than what a higher layer holds of it.
NewestOnTop ==
  LET Level(l) == UNION {Elements(f.data) : f \in Elements(version[l])}
      Layers == <<mem, IF imm = None THEN {} ELSE imm>> \o [i \in 1..NumLevels |-> Level(i - 1)]
  IN \A i \in DOMAIN Layers : \A j \in (i + 1)..Len(Layers) :
       \A a \in Layers[i], b \in Layers[j] : a.key = b.key => a.seq > b.seq

\* A reader sees the last write of each key at or before its snapshot, as if
\* there were no levels (db.h: readers of a snapshot "will all observe a stable
\* snapshot of the current DB state"): dumps, compactions, moves and the entries
\* that compactions drop change nothing of it.
ReadsAgree ==
  \A s \in snapshots \cup {lastSeq}, k \in Keys :
    LET past == {e \in written : e.key = k /\ e.seq <= s}
        last == CHOOSE e \in past : \A d \in past : d.seq <= e.seq
    IN Get(k, s) = IF past = {} \/ last.del THEN None ELSE last.seq
=============================================================================
