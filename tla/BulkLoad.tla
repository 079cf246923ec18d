----------------------------- MODULE BulkLoad ------------------------------
(***************************************************************************)
(* AddL0Tables (src/leveldb/db/db_impl.cc) and what readers make of the    *)
(* tables it adds (src/leveldb/db/table_cache.cc).  The tables of another  *)
(* database are moved into level 0 as they are; their sequence numbers are *)
(* shifted by an offset kept in the version, which the table cache applies *)
(* to every key it hands out and to every key it is asked for.             *)
(*                                                                         *)
(* An entry is [k, q]: a user key and a sequence number.  Values need no   *)
(* name: an entry is known by its key, its number and its table.           *)
(***************************************************************************)
EXTENDS Integers, Sequences, FiniteSets, FiniteSetsExt

CONSTANTS BulkKeys,
          Dirs,        \* directories to insert, sequences of tables (sets of entries)
          Loaders,     \* callers of AddL0Tables
          Suggested,   \* suggested_max_seq
          Careful,     \* clients write before or after an insertion, never during one
          MaxLoads, MaxFailures, MaxWrites   \* bounds

ASSUME BulkAssumption ==
  /\ Suggested \in Nat /\ Careful \in BOOLEAN
  /\ \A d \in Dirs : \A i \in DOMAIN d : d[i] # {} /\ \A e \in d[i] : e.k \in BulkKeys /\ e.q \in Nat

VARIABLES last,       \* last_sequence_
          nextTable,   \* next_file_number_
          disk,       \* disk[n]: entries of table file n
          tables,     \* tables[n]: offset of table n of the current version
          cache,      \* cache[n]: [off, ents] of an open table, a TableAndFile
          bulk,       \* bulk_insert_in_progress_
          ld,         \* ld[l]: [at, dir, nums, props, next, offs] of loader l
          wr,         \* the writer at the front: its sequence number, 0 if there is none
          bulkMem,        \* entries of the memtable
          renumbered, \* numbers given back while their table was still cached
          badOff,     \* FindTable reported "Changing table sequence number offset"
          backwards,  \* SetLastSequence was given a smaller number
          loads, failures, writes

bulkVars == <<last, nextTable, disk, tables, cache, bulk, ld, wr, bulkMem, renumbered,
              badOff, backwards, loads, failures, writes>>

NoTable == [n \in {} |-> 0]
NoLoad == [at |-> "idle", dir |-> <<>>, nums |-> <<>>, props |-> <<>>,
           next |-> 0, offs |-> <<>>]
Opened(f, n, v) == [m \in DOMAIN f \cup {n} |-> IF m = n THEN v ELSE f[m]]
Closed(f, n) == [m \in DOMAIN f \ {n} |-> f[m]]

BulkInit ==
  /\ last = 0 /\ nextTable = 1 /\ disk = NoTable /\ tables = NoTable /\ cache = NoTable
  /\ bulk = FALSE /\ ld = [l \in Loaders |-> NoLoad] /\ wr = 0 /\ bulkMem = {}
  /\ renumbered = {} /\ badOff = FALSE /\ backwards = FALSE
  /\ loads = 0 /\ failures = 0 /\ writes = 0

----------------------------------------------------------------------------
(* TableCache *)

\* A table opened from its file, with the offset of the version.
OpenTable(d, n, off) == [off |-> off, ents |-> d[n]]

\* FindTable: a table that is not cached is opened from its file.  A cached one that was
\* opened without an offset, when it was inserted, takes the offset of the version.
FindTable(c, d, n, off) ==
  IF n \notin DOMAIN c THEN [ok |-> TRUE, cache |-> Opened(c, n, OpenTable(d, n, off))]
  ELSE IF c[n].off = off THEN [ok |-> TRUE, cache |-> c]
  ELSE IF c[n].off = 0 THEN [ok |-> TRUE, cache |-> Opened(c, n, [c[n] EXCEPT !.off = off])]
  ELSE [ok |-> FALSE, cache |-> c]

\* NewDirectIterator, for compactions and dumps, reads the file past the cache.
DirectTable(n) == OpenTable(disk, n, tables[n])

\* Mutant: a number below the offset wraps around, and every entry is seen.
UnshiftWraps(q, off) == IF off > 0 /\ q < off THEN 1000 ELSE q - off

\* The number that a reader at sequence number q looks for in a table with offset off.
Unshift(q, off) == IF off > 0 /\ q < off THEN 0 ELSE q - off

\* TableCache::Get, or a SequenceOffsetter that seeks: the newest entry of the key that
\* the unshifted number admits, its own number shifted.
OffsetGet(ents, off, k, q) ==
  LET seen == {e \in ents : e.k = k /\ e.q <= (IF off = 0 THEN q ELSE Unshift(q, off))}
  IN  IF seen = {} THEN {} ELSE {Max({e.q : e \in seen}) + off}

\* A reader opens table n of the current version.
ReadTable(n) ==
  /\ n \in DOMAIN tables
  /\ LET r == FindTable(cache, disk, n, tables[n]) IN
       cache' = r.cache /\ badOff' = (badOff \/ ~r.ok)
  /\ cache' # cache \/ badOff' # badOff
  /\ UNCHANGED <<last, nextTable, disk, tables, bulk, ld, wr, bulkMem, renumbered,
                 backwards, loads, failures, writes>>

\* The cache lets go of a table, for want of room.
Evict(n) ==
  /\ n \in DOMAIN cache
  /\ cache' = Closed(cache, n)
  /\ UNCHANGED <<last, nextTable, disk, tables, bulk, ld, wr, bulkMem, renumbered, badOff,
                 backwards, loads, failures, writes>>

----------------------------------------------------------------------------
(* AddL0Tables *)

\* The background work is paused and no other insertion is under way.
AddL0Tables(l, d) ==
  /\ ld[l].at = "idle" /\ ~bulk /\ loads < MaxLoads
  /\ Careful => wr = 0
  /\ bulk' = TRUE /\ loads' = loads + 1
  /\ ld' = [ld EXCEPT ![l] = [NoLoad EXCEPT !.at = "migrate", !.dir = d]]
  /\ UNCHANGED <<last, nextTable, disk, tables, cache, wr, bulkMem, renumbered, badOff,
                 backwards, failures, writes>>

\* MigrateLevel0Table: a number for the next table of the directory.
NewNumber(l) ==
  /\ ld[l].at = "migrate" /\ Len(ld[l].nums) < Len(ld[l].dir)
  /\ ld' = [ld EXCEPT ![l].nums = Append(@, nextTable), ![l].at = "load"]
  /\ nextTable' = nextTable + 1
  /\ UNCHANGED <<last, disk, tables, cache, bulk, wr, bulkMem, renumbered, badOff,
                 backwards, loads, failures, writes>>

LastOf(l) == ld[l].nums[Len(ld[l].nums)]

\* LoadLevel0Table opens the table, with no offset, through the cache, and takes the range
\* of its sequence numbers from its properties.
LoadLevel0Table(l) ==
  /\ ld[l].at = "load"
  /\ disk' = Opened(disk, LastOf(l), ld[l].dir[Len(ld[l].nums)])
  /\ cache' = FindTable(cache, disk', LastOf(l), 0).cache
  /\ ld' = [ld EXCEPT ![l].at = "migrate", ![l].props = Append(@, cache'[LastOf(l)].ents)]
  /\ UNCHANGED <<last, nextTable, tables, bulk, wr, bulkMem, renumbered, badOff,
                 backwards, loads, failures, writes>>

\* The file cannot be moved, or it cannot be read once it is open: its number is given
\* back, if it is the last one, and the insertion ends.
MigrateFails(l) ==
  /\ ld[l].at = "load" /\ failures < MaxFailures
  /\ failures' = failures + 1
  /\ \E opened \in BOOLEAN :
       LET n == LastOf(l)
           d == Opened(disk, n, ld[l].dir[Len(ld[l].nums)]) IN
       /\ disk' = IF opened THEN d ELSE disk
       /\ cache' = IF opened THEN FindTable(cache, d, n, 0).cache ELSE cache
       /\ nextTable' = IF nextTable = n + 1 THEN n ELSE nextTable
       /\ renumbered' = IF nextTable = n + 1 /\ n \in DOMAIN cache'
                        THEN renumbered \cup {n} ELSE renumbered
  /\ ld' = [ld EXCEPT ![l] = NoLoad]
  /\ bulk' = FALSE
  /\ UNCHANGED <<last, tables, wr, bulkMem, badOff, backwards, loads, writes>>

\* Smallest and largest number of a table, as its properties record them.
MinSeq(ents) == Min({e.q : e \in ents})
MaxSeq(ents) == Max({e.q : e \in ents})

\* InsertLevel0Tables gives the tables consecutive ranges of numbers, in the order of
\* their names, starting at next: the offset of each.
Placement(ts, next) ==
  LET start[i \in 1 .. Len(ts)] ==
        IF i = 1 THEN next
        ELSE start[i - 1] + MaxSeq(ts[i - 1]) - MinSeq(ts[i - 1]) + 1
  IN  [i \in DOMAIN ts |-> start[i] - MinSeq(ts[i])]

\* The number after the last range.
PlacementEnd(ts, next) ==
  next + FoldSet(LAMBDA i, n : n + MaxSeq(ts[i]) - MinSeq(ts[i]) + 1, 0, DOMAIN ts)

\* All tables are in place: their offsets are fixed, and LogAndApply releases the mutex.
InsertLevel0Tables(l) ==
  /\ ld[l].at = "migrate" /\ Len(ld[l].nums) = Len(ld[l].dir)
  /\ LET ts == ld[l].props
     IN  ld' = [ld EXCEPT ![l].at = "apply", ![l].offs = Placement(ts, last + 1),
                          ![l].next = PlacementEnd(ts, last + 1)]
  /\ UNCHANGED <<last, nextTable, disk, tables, cache, bulk, wr, bulkMem, renumbered,
                 badOff, backwards, loads, failures, writes>>

SetLastSequence(s) == last' = s /\ backwards' = (backwards \/ s < last)

\* LogAndApply has logged the edit and installed the version, or has failed.
InsertEnds(l) ==
  /\ ld[l].at = "apply"
  /\ \/ /\ LET n == ld[l].nums
               ts == [m \in DOMAIN tables \cup {n[i] : i \in DOMAIN n} |->
                        IF m \in DOMAIN tables THEN tables[m]
                        ELSE ld[l].offs[CHOOSE i \in DOMAIN n : n[i] = m]]
           IN  tables' = ts
        /\ SetLastSequence(IF ld[l].next > Suggested THEN ld[l].next ELSE Suggested)
        /\ UNCHANGED failures
     \/ /\ failures < MaxFailures /\ failures' = failures + 1
        /\ UNCHANGED <<tables, last, backwards>>
  /\ ld' = [ld EXCEPT ![l] = NoLoad]
  /\ bulk' = FALSE
  /\ UNCHANGED <<nextTable, disk, cache, wr, bulkMem, renumbered, badOff, loads, writes>>

----------------------------------------------------------------------------
(* Writers *)

\* Write takes the next sequence number and releases the mutex ...
WriteBegins ==
  /\ wr = 0 /\ writes < MaxWrites
  /\ Careful => ~bulk
  /\ wr' = last + 1 /\ writes' = writes + 1
  /\ UNCHANGED <<last, nextTable, disk, tables, cache, bulk, ld, bulkMem, renumbered,
                 badOff, backwards, loads, failures>>

\* ... to log the batch and to insert it into the memtable.
WriteEnds ==
  /\ wr # 0
  /\ \E k \in BulkKeys : bulkMem' = bulkMem \cup {[k |-> k, q |-> wr]}
  /\ SetLastSequence(wr)
  /\ wr' = 0
  /\ UNCHANGED <<nextTable, disk, tables, cache, bulk, ld, renumbered, badOff,
                 loads, failures, writes>>

----------------------------------------------------------------------------
BulkNext ==
  \/ \E n \in DOMAIN tables : ReadTable(n)
  \/ \E n \in DOMAIN cache : Evict(n)
  \/ \E l \in Loaders, d \in Dirs : AddL0Tables(l, d)
  \/ \E l \in Loaders : \/ NewNumber(l) \/ LoadLevel0Table(l) \/ MigrateFails(l)
                        \/ InsertLevel0Tables(l) \/ InsertEnds(l)
  \/ WriteBegins \/ WriteEnds

BulkSpec == BulkInit /\ [][BulkNext]_bulkVars

----------------------------------------------------------------------------
(* Properties *)

\* The entries of the tables as the database numbers them.
Numbered(n) == {[k |-> e.k, q |-> e.q + tables[n]] : e \in disk[n]}
Sound == DOMAIN tables \cap renumbered = {}

(* The tables that AddL0Tables adds occupy ranges of sequence numbers of their own, all
   of them used by LastSequence, and ordered as their file numbers are, which is the
   order in which Version::Get searches level 0. *)
RangesInOrder ==
  Sound => \A m, n \in DOMAIN tables :
    /\ MaxSeq(Numbered(n)) <= last
    /\ m < n => MaxSeq(Numbered(m)) < MinSeq(Numbered(n))

(* Reading a table through the cache with the offset of the version (TableCache::Get,
   SequenceOffsetter::Seek) finds the newest entry that a snapshot may see, at every
   sequence number, whether the table was opened by its insertion, by a reader, again
   after its eviction, or past the cache; and FindTable never finds another offset. *)
OffsetsExact ==
  Sound => /\ ~badOff
           /\ \A n \in DOMAIN tables :
                \A t \in {DirectTable(n)} \cup {cache[m] : m \in {n} \cap DOMAIN cache} :
                  /\ t.off \in {0, tables[n]}
                  /\ \A k \in BulkKeys, q \in 0 .. last + 1 :
                       LET seen == {e.q : e \in {x \in Numbered(n) : x.k = k /\ x.q <= q}}
                       IN  OffsetGet(t.ents, tables[n], k, q) =
                             IF seen = {} THEN {} ELSE {Max(seen)}

(* SetLastSequence is never given a smaller number: "assert(s >= last_sequence_)" in
   version_set.h. *)
SequenceMonotone == ~backwards
=============================================================================
