------------------------------ MODULE MCReads ------------------------------
(***************************************************************************)
(* How data is found again, for TLC: the skip list of a memtable, table    *)
(* files, the iterators over both, and the file system tables kept in a    *)
(* DB.  A behaviour is one of one component, while the others keep one of  *)
(* their initial states.                                                   *)
(***************************************************************************)
EXTENDS MemTable, SSTable, Iterators, Fsdb

CONSTANT Parts   \* the components to explore

VARIABLE part

-----------------------------------------------------------------------------
(* Layouts for Iterators: every way to spread a few entries over the       *)
(* memtable, a table and a level.                                          *)

\* n entries: one per sequence number.
EntrySets(n, ks, places) ==
  {{[seq |-> s, key |-> f[s][1], del |-> f[s][2], where |-> f[s][3]] : s \in 1..n} :
     f \in [1..n -> ks \X BOOLEAN \X places]}

\* Blocks of one entry and of two, short and full index keys.
Shapes == {[size |-> 1, interval |-> 1, short |-> TRUE],
           [size |-> 2, interval |-> 2, short |-> FALSE]}

Layout(E, q, sh, hurt) ==
  [entries |-> E, seq |-> q, size |-> sh.size, interval |-> sh.interval,
   short |-> sh.short, bad |-> hurt]

\* Three entries anywhere in all shapes, read from the end or from before the last of them,
\* or with a bad block; and four entries of three keys in a table and a level, at most one
\* of them a deletion, in blocks of up to four.
MCLayouts ==
  {Layout(E, c[1], sh, c[2]) : E \in EntrySets(3, {1, 3}, {"mem", "table", "level"}),
                               sh \in Shapes, c \in {<<2, 0>>, <<3, 0>>, <<3, 2>>}}
  \cup
  {Layout(E, 3, [size |-> 4, interval |-> 2, short |-> TRUE], 0) :
     E \in {S \in EntrySets(4, {1, 2, 4}, {"table", "level"}) :
              Cardinality({e \in S : e.del}) <= 1}}

-----------------------------------------------------------------------------
(* Keys of tables, of which some are prefixes of others, options, and the  *)
(* directories and names of the file system tables.                        *)

MCUserKeys == {<<1>>, <<1, 1>>, <<1, 3>>, <<3, 1>>}
MCProbes == MCUserKeys \cup {<<2>>, <<1, 2>>, <<3>>, <<3, 2>>}
MCHashOfKey == [u \in MCProbes |-> (u[1] * 5 + Len(u) * 3 + Last(u)) % 16]
Option(f, bpk, c, p, k) == [filter |-> f, bits_per_key |-> bpk, compression |-> c,
                            paranoid |-> p, cache |-> k]
MCTableOptions == {Option(TRUE, 2, "none", TRUE, TRUE), Option(FALSE, 1, "snappy", TRUE, TRUE),
                   Option(TRUE, 4, "snappy", FALSE, FALSE)}

Id(d, r, s, i) == [dno |-> d, reg |-> r, snap |-> s, ino |-> i]
MCDirIds == {Id(0, 0, 0, 1), Id(0, 0, 0, 5)}
MCNames == {<<1>>, <<1, 2>>}
StatOf(v) == [f \in {"dno", "reg", "snap", "ino", "size", "mode", "zserver", "uid",
                     "gid", "mtime", "ctime"} |->
   CASE f = "ino" -> v [] f = "size" -> 1 [] f = "mode" -> 2 [] f = "dno" -> 3
     [] f = "reg" -> 4 [] f = "snap" -> 5 [] f = "zserver" -> 6 [] f = "uid" -> 7
     [] f = "gid" -> 8 [] f = "mtime" -> 9 [] f = "ctime" -> 10]
MCStats == {StatOf(11)}
MCHash == [n \in MCNames |-> IF n = <<1>> THEN 2 ELSE 1]

-----------------------------------------------------------------------------
Init ==
  /\ part \in Parts
  /\ IF part = "table" THEN TRUE
     ELSE opts = (CHOOSE o \in TableOptions : TRUE) /\ io = 0
  /\ IF part = "iter" THEN IterInit
     ELSE layout = Nought /\ it = Nought /\ at = None
  /\ IF part = "fsdb" THEN TRUE ELSE build = CHOOSE d \in Builds : TRUE
  /\ MemInit /\ SstInit /\ FsInit

MemStep   == part = "mem" /\ MemNext /\ UNCHANGED <<part, sstVars, iterVars, fsVars>>
TableStep == part = "table" /\ SstNext /\ UNCHANGED <<part, memVars, iterVars, fsVars>>
IterStep  == part = "iter" /\ IterNext /\ UNCHANGED <<part, memVars, sstVars, fsVars>>
FsStep    == part = "fsdb" /\ FsNext /\ UNCHANGED <<part, memVars, sstVars, iterVars>>

Next == MemStep \/ TableStep \/ IterStep \/ FsStep

Spec == Init /\ [][Next]_<<part, memVars, sstVars, iterVars, fsVars>>

-----------------------------------------------------------------------------
(* Properties                                                              *)

\* A reader of the skip list that takes no lock (skiplist.h) follows initialised links
\* only, misses no entry of its snapshot, and a Get finds the newest version it may see.
MemTableExact == part = "mem" => LinksInitialised /\ SearchExact /\ GetNewest

\* A table answers for exactly the entries it was built from (table_builder.cc, table.cc),
\* with filters, compression, caching, damage and builds that fail.
SstExact == part = "table" => TableExact /\ FinishedOpens /\ OffsetsMonotone

\* DBIter over merging, two-level and block iterators stands, after any sequence of moves in
\* both directions, where a walk over the live entries would, or reports the bad block.
IteratorsExact == part = "iter" => IteratorAgrees /\ ChildrenPlaced

\* What the tables of TableFS, IndexFS and DeltaFS return is what was put there, beside
\* other users' transactions and scans (fsdb0.h).
FsdbExact == part = "fsdb" => ReadsExact /\ ScansExact
=============================================================================
