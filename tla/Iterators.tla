----------------------------- MODULE Iterators -----------------------------
(***************************************************************************)
(* The stack of iterators under DBImpl::NewIterator: a DBIter over a       *)
(* MergingIterator over the iterator of a memtable and TwoLevelIterators,  *)
(* each of which walks an index and the prefix-compressed blocks it names. *)
(*                                                                         *)
(* A layout is chosen in Init: where the entries are, how they are cut     *)
(* into blocks, the sequence number read at and a block that cannot be     *)
(* read.  The state is the iterator and the position a map of the visible  *)
(* keys would have after the same calls.  An internal key is the pair of   *)
(* its user key and its sequence number, which is also what two keys share *)
(* a prefix of.  A level's iterator has a table's iterator, itself a       *)
(* TwoLevelIterator, where this module has a block's: the nesting is one   *)
(* deep.                                                                   *)
(***************************************************************************)
EXTENDS Naturals, Sequences, FiniteSets, FiniteSetsExt, TLC

CONSTANTS
  None,
  Layouts   \* sets of entries and how they are stored: see MCIterators

VARIABLES
  layout,   \* the layout of this behaviour
  it,       \* the DBIter
  at        \* where an iterator over the visible keys would be, None: not valid

iterVars == <<layout, it, at>>

Elements(s) == {s[i] : i \in DOMAIN s}

\* InternalKeyComparator::Compare on <<user key, sequence>>.
Before(a, b) == a[1] < b[1] \/ (a[1] = b[1] /\ a[2] > b[2])

Key(e) == <<e.key, e.seq>>
MaxSequence == 99   \* kMaxSequenceNumber: above every sequence number of a layout

Sorted(S) == SortSeq(FoldSet(LAMBDA e, s : Append(s, e), <<>>, S),
                     LAMBDA a, b : Before(Key(a), Key(b)))

-----------------------------------------------------------------------------
(* Blocks: BlockBuilder and Block::Iter.  An offset is an entry's index.   *)

CommonPrefix(a, b) == IF a[1] # b[1] THEN 0 ELSE IF a[2] # b[2] THEN 1 ELSE 2

\* BlockBuilder::Add for each entry of s, then Finish.
BuildBlock(s, interval) ==
  [rows |-> [i \in DOMAIN s |->
     LET shared == IF (i - 1) % interval = 0 THEN 0
                   ELSE CommonPrefix(Key(s[i - 1]), Key(s[i]))
     IN [shared |-> shared, rest |-> SubSeq(Key(s[i]), shared + 1, 2), entry |-> s[i]]],
   restarts |-> [j \in 1..((Len(s) + interval - 1) \div interval) |->
                   (j - 1) * interval + 1]]

\* Block::Iter: current_, the end of value_, restart_index_, key_, status_.
NewBlockIter(b) ==
  [cur |-> Len(b.rows) + 1, next |-> 1, restart |-> Len(b.restarts) + 1,
   key |-> <<>>, ok |-> TRUE]
\* NewErrorIterator.
ErrorIter(b) == [NewBlockIter(b) EXCEPT !.ok = FALSE]

BlockValid(b, d) == d.cur <= Len(b.rows)

ParseNextKey(b, d) ==
  LET row == b.rows[d.next] IN
  IF d.next > Len(b.rows)
  THEN [d EXCEPT !.cur = Len(b.rows) + 1, !.restart = Len(b.restarts) + 1]
  ELSE IF Len(d.key) < row.shared THEN ErrorIter(b)
  ELSE [d EXCEPT !.cur = d.next, !.next = d.next + 1,
                 !.key = SubSeq(d.key, 1, row.shared) \o row.rest,
                 !.restart = Max({d.restart} \cup
                   {r \in d.restart..Len(b.restarts) : b.restarts[r] < d.next})]

SeekToRestartPoint(b, d, r) ==
  [d EXCEPT !.key = <<>>, !.restart = r, !.next = b.restarts[r]]

\* Parse at least one entry, until Stop or the end of the block.
ParseUntil(b, d, Stop(_)) ==
  LET Parsed[n \in Nat] == IF n = 0 THEN d ELSE ParseNextKey(b, Parsed[n - 1])
  IN Parsed[Min({n \in 1..(Len(b.rows) + 1) :
                   Stop(Parsed[n]) \/ ~BlockValid(b, Parsed[n])})]

BlockSeekToFirst(b, d) == ParseNextKey(b, SeekToRestartPoint(b, d, 1))

BlockSeekToLast(b, d) ==
  ParseUntil(b, SeekToRestartPoint(b, d, Len(b.restarts)),
             LAMBDA e : e.next > Len(b.rows))

\* The last restart point with a key before target, then a linear search.
BlockSeek(b, d, target) ==
  LET Search[left \in Nat, right \in Nat] ==
        LET mid == (left + right + 1) \div 2 IN
        IF left >= right THEN left
        ELSE IF Before(b.rows[b.restarts[mid]].rest, target) THEN Search[mid, right]
        ELSE Search[left, mid - 1]
  IN ParseUntil(b, SeekToRestartPoint(b, d, Search[1, Len(b.restarts)]),
                LAMBDA e : ~Before(e.key, target))

BlockPrev(b, d) ==
  LET before == {r \in 1..d.restart : b.restarts[r] < d.cur} IN
  IF before = {}
  THEN [d EXCEPT !.cur = Len(b.rows) + 1, !.restart = Len(b.restarts) + 1]
  ELSE ParseUntil(b, SeekToRestartPoint(b, d, Max(before)),
                  LAMBDA e : e.next >= d.cur)

-----------------------------------------------------------------------------
(* Tables: TableBuilder, the index, TwoLevelIterator.                      *)

\* InternalKeyComparator::FindShortestSeparator and FindShortSuccessor, where
\* the user key after "last" is shorter than it.
IndexKey(last, next, short) ==
  IF short /\ (next = None \/ last[1] + 1 < next[1])
  THEN <<last[1] + 1, MaxSequence>> ELSE last

\* TableBuilder::Add, Flush, Finish: blocks of "size" entries and their index.
BuildTable(s, size, interval, short) ==
  LET count == (Len(s) + size - 1) \div size
      Part(i) == SubSeq(s, (i - 1) * size + 1, Min({i * size, Len(s)}))
      LastOf(i) == Key(Part(i)[Len(Part(i))])
  IN [blocks |-> [i \in 1..count |-> BuildBlock(Part(i), interval)],
      index  |-> [i \in 1..count |->
                    IndexKey(LastOf(i), IF i = count THEN None ELSE Key(Part(i + 1)[1]), short)],
      bad    |-> {}]

\* BlockReader, GetFileIterator.
BlockReader(c, i) == IF i \in c.bad THEN ErrorIter(c.blocks[i]) ELSE NewBlockIter(c.blocks[i])

NewTwoLevelIterator(c) ==
  [idx |-> Len(c.blocks) + 1, data |-> None, handle |-> 0, err |-> FALSE]
IndexValid(c, t) == t.idx <= Len(c.blocks)
DataOf(c, t)     == c.blocks[t.handle]
TwoValid(c, t)   == t.data # None /\ BlockValid(DataOf(c, t), t.data)
TwoStatus(t)     == ~t.err /\ (t.data # None => t.data.ok)

SetDataIterator(t, data) ==
  [t EXCEPT !.err = t.err \/ (t.data # None /\ ~t.data.ok), !.data = data]

InitDataBlock(c, t) ==
  IF ~IndexValid(c, t) THEN SetDataIterator(t, None)
  ELSE IF t.data # None /\ t.handle = t.idx THEN t
  ELSE [SetDataIterator(t, BlockReader(c, t.idx)) EXCEPT !.handle = t.idx]

\* An operation on the data iterator; an error iterator ignores it.
OnData(c, t, Op(_, _)) ==
  IF t.data = None \/ ~t.data.ok THEN t
  ELSE [t EXCEPT !.data = Op(DataOf(c, t), t.data)]

RECURSIVE SkipEmptyDataBlocksForward(_, _)
SkipEmptyDataBlocksForward(c, t) ==
  IF TwoValid(c, t) THEN t
  ELSE IF ~IndexValid(c, t) THEN SetDataIterator(t, None)
  ELSE SkipEmptyDataBlocksForward(c,
         OnData(c, InitDataBlock(c, [t EXCEPT !.idx = t.idx + 1]), BlockSeekToFirst))

RECURSIVE SkipEmptyDataBlocksBackward(_, _)
SkipEmptyDataBlocksBackward(c, t) ==
  IF TwoValid(c, t) THEN t
  ELSE IF ~IndexValid(c, t) THEN SetDataIterator(t, None)
  ELSE LET prev == IF t.idx = 1 THEN Len(c.blocks) + 1 ELSE t.idx - 1
       IN SkipEmptyDataBlocksBackward(c,
            OnData(c, InitDataBlock(c, [t EXCEPT !.idx = prev]), BlockSeekToLast))

TwoSeek(c, t, target) ==
  LET idx == Min({i \in DOMAIN c.index : ~Before(c.index[i], target)}
                 \cup {Len(c.blocks) + 1})
  IN SkipEmptyDataBlocksForward(c,
       OnData(c, InitDataBlock(c, [t EXCEPT !.idx = idx]),
              LAMBDA b, d : BlockSeek(b, d, target)))
TwoSeekToFirst(c, t) ==
  SkipEmptyDataBlocksForward(c,
    OnData(c, InitDataBlock(c, [t EXCEPT !.idx = 1]), BlockSeekToFirst))
TwoSeekToLast(c, t) ==
  SkipEmptyDataBlocksBackward(c,
    OnData(c, InitDataBlock(c, [t EXCEPT !.idx = Len(c.blocks)]), BlockSeekToLast))
TwoNext(c, t) == SkipEmptyDataBlocksForward(c, OnData(c, t, ParseNextKey))
TwoPrev(c, t) == SkipEmptyDataBlocksBackward(c, OnData(c, t, BlockPrev))

-----------------------------------------------------------------------------
(* The children of the MergingIterator: the memtable's iterator, a table's *)
(* and a level's.                                                          *)

\* Version::AddIterators, DBImpl::NewInternalIterator.
Children(l) ==
  LET table == Sorted({e \in l.entries : e.where = "table"})
      files == [f \in 1..Cardinality({e.key : e \in {x \in l.entries : x.where = "level"}}) |->
                  LET keys == {e.key : e \in {x \in l.entries : x.where = "level"}}
                      key  == CHOOSE k \in keys : Cardinality({j \in keys : j < k}) = f - 1
                  IN Sorted({e \in l.entries : e.where = "level" /\ e.key = key})]
      Bad(c) == [c EXCEPT !.bad = {b \in DOMAIN c.blocks : b = l.bad}]
  IN <<[mem |-> Sorted({e \in l.entries : e.where = "mem"})]>>
     \o (IF table = <<>> THEN <<>>
         ELSE <<Bad(BuildTable(table, l.size, l.interval, l.short))>>)
     \o (IF files = <<>> THEN <<>>
         ELSE <<Bad([blocks |-> [f \in DOMAIN files |-> BuildBlock(files[f], l.interval)],
                     index  |-> [f \in DOMAIN files |-> Key(files[f][Len(files[f])])],
                     bad    |-> {}])>>)

\* MemTableIterator over the skip list: a position in the sorted entries.
IsMem(c)   == "mem" \in DOMAIN c
MemEnd(c)  == Len(c.mem) + 1
MemSeek(c, target) == Min({i \in DOMAIN c.mem : ~Before(Key(c.mem[i]), target)} \cup {MemEnd(c)})
MemPrev(c, pos) == IF pos = 1 THEN MemEnd(c) ELSE pos - 1

\* All entries of a child.
EntriesOf(c) ==
  IF IsMem(c) THEN Elements(c.mem)
  ELSE UNION {{r.entry : r \in Elements(b.rows)} : b \in Elements(c.blocks)}

\* IteratorWrapper: the operations of one child, whichever it is.
NewChild(c)    == IF IsMem(c) THEN MemEnd(c) ELSE NewTwoLevelIterator(c)
KidValid(c, k)    == IF IsMem(c) THEN k < MemEnd(c) ELSE TwoValid(c, k)
KidKey(c, k)    == IF IsMem(c) THEN Key(c.mem[k]) ELSE k.data.key
KidEntry(c, k)  == IF IsMem(c) THEN c.mem[k] ELSE DataOf(c, k).rows[k.data.cur].entry
KidSeek(c, k, target) == IF IsMem(c) THEN MemSeek(c, target) ELSE TwoSeek(c, k, target)
KidSeekToFirst(c, k)  == IF IsMem(c) THEN 1 ELSE TwoSeekToFirst(c, k)
KidSeekToLast(c, k)   == IF IsMem(c) THEN MemPrev(c, MemEnd(c)) ELSE TwoSeekToLast(c, k)
KidNext(c, k)        == IF IsMem(c) THEN k + 1 ELSE TwoNext(c, k)
KidPrev(c, k)        == IF IsMem(c) THEN MemPrev(c, k) ELSE TwoPrev(c, k)

-----------------------------------------------------------------------------
(* MergingIterator: kids, current (0 is NULL) and direction.  The          *)
(* children's storage cs is the layout's.                                  *)

MergeKey(cs, m)   == KidKey(cs[m.current], m.kids[m.current])
MergeEntry(cs, m) == KidEntry(cs[m.current], m.kids[m.current])
MergeStatus(cs, m) == \A i \in DOMAIN cs : ~IsMem(cs[i]) => TwoStatus(m.kids[i])

ValidKids(cs, kids) == {i \in DOMAIN cs : KidValid(cs[i], kids[i])}

\* The first of the smallest and the last of the largest.
FindSmallest(cs, kids) ==
  LET V == ValidKids(cs, kids)
  IN Min({i \in V : \A j \in V : ~Before(KidKey(cs[j], kids[j]), KidKey(cs[i], kids[i]))}
         \cup {IF V = {} THEN 0 ELSE Len(cs)})
FindLargest(cs, kids) ==
  LET V == ValidKids(cs, kids)
  IN Max({i \in V : \A j \in V : ~Before(KidKey(cs[i], kids[i]), KidKey(cs[j], kids[j]))}
         \cup {0})

MergeForward(cs, kids) == [kids |-> kids, current |-> FindSmallest(cs, kids), dir |-> "forward"]
MergeReverse(cs, kids) == [kids |-> kids, current |-> FindLargest(cs, kids), dir |-> "reverse"]

MergeSeekToFirst(cs, m) == MergeForward(cs, [i \in DOMAIN cs |-> KidSeekToFirst(cs[i], m.kids[i])])
MergeSeekToLast(cs, m)  == MergeReverse(cs, [i \in DOMAIN cs |-> KidSeekToLast(cs[i], m.kids[i])])
MergeSeek(cs, m, target) == MergeForward(cs, [i \in DOMAIN cs |-> KidSeek(cs[i], m.kids[i], target)])

MergeNext(cs, m) ==
  LET key == MergeKey(cs, m)
      Past(i) == LET k == KidSeek(cs[i], m.kids[i], key)
                 IN IF KidValid(cs[i], k) /\ KidKey(cs[i], k) = key THEN KidNext(cs[i], k) ELSE k
  IN MergeForward(cs, [i \in DOMAIN cs |->
       IF i = m.current THEN KidNext(cs[i], m.kids[i])
       ELSE IF m.dir = "forward" THEN m.kids[i]
       ELSE Past(i)])

\* Mutant: a child with nothing at or after the key is left where it is.
MergePrevAtEnd(cs, m) ==
  LET Back(i) == LET k == KidSeek(cs[i], m.kids[i], MergeKey(cs, m))
                 IN IF KidValid(cs[i], k) THEN KidPrev(cs[i], k) ELSE k
  IN MergeReverse(cs, [i \in DOMAIN cs |->
       IF i = m.current THEN KidPrev(cs[i], m.kids[i])
       ELSE IF m.dir = "reverse" THEN m.kids[i]
       ELSE Back(i)])

MergePrev(cs, m) ==
  LET Back(i) == LET k == KidSeek(cs[i], m.kids[i], MergeKey(cs, m))
                 IN IF KidValid(cs[i], k) THEN KidPrev(cs[i], k) ELSE KidSeekToLast(cs[i], k)
  IN MergeReverse(cs, [i \in DOMAIN cs |->
       IF i = m.current THEN KidPrev(cs[i], m.kids[i])
       ELSE IF m.dir = "reverse" THEN m.kids[i]
       ELSE Back(i)])

-----------------------------------------------------------------------------
(* DBIter: merge, dir, valid, saved (saved_key_ and saved_value_ as the    *)
(* entry they come from, None when cleared).                               *)

NewDBIter(cs) ==
  [merge |-> [kids |-> [i \in DOMAIN cs |-> NewChild(cs[i])], current |-> 0, dir |-> "forward"],
   dir |-> "forward", valid |-> FALSE, saved |-> None]

Done(d, m) == [d EXCEPT !.merge = m, !.valid = FALSE, !.saved = None, !.dir = "forward"]

\* skip is the user key skipped past, 0 for "not skipping".
RECURSIVE FindNextUserEntry(_, _, _)
FindNextUserEntry(d, m, skip) ==
  LET cs == layout.children
      e  == MergeEntry(cs, m)
      seen == e.seq <= layout.seq
  IN IF m.current = 0 THEN Done(d, m)
     ELSE IF seen /\ ~e.del /\ e.key > skip
     THEN [d EXCEPT !.merge = m, !.valid = TRUE, !.saved = None, !.dir = "forward"]
     ELSE FindNextUserEntry(d, MergeNext(cs, m), IF seen /\ e.del THEN e.key ELSE skip)

\* saved is the entry kept so far: None while the last one seen is a deletion.
RECURSIVE FindPrevUserEntry(_, _, _)
FindPrevUserEntry(d, m, saved) ==
  LET cs == layout.children
      e  == MergeEntry(cs, m)
      seen == e.seq <= layout.seq
      stop == m.current = 0 \/ (seen /\ saved # None /\ e.key < saved.key)
  IN IF stop
     THEN IF saved = None THEN Done(d, m)
          ELSE [d EXCEPT !.merge = m, !.valid = TRUE, !.saved = saved, !.dir = "reverse"]
     ELSE FindPrevUserEntry(d, MergePrev(cs, m),
            IF ~seen THEN saved ELSE IF e.del THEN None ELSE e)

\* DBIter::Prev's scan back until the user key changes.
RECURSIVE BeforeUserKey(_, _)
BeforeUserKey(m, key) ==
  IF m.current # 0 /\ MergeEntry(layout.children, m).key >= key
  THEN BeforeUserKey(MergePrev(layout.children, m), key) ELSE m

\* DBIter::key and value.
Current(d) == IF d.dir = "forward" THEN MergeEntry(layout.children, d.merge) ELSE d.saved
Status(d)  == MergeStatus(layout.children, d.merge)

-----------------------------------------------------------------------------
(* What a reader at sequence number layout.seq sees.                       *)

Visible(l) ==
  LET seen == {e \in l.entries : e.seq <= l.seq}
  IN {e \in seen : ~e.del /\ \A f \in seen : f.key = e.key => f.seq <= e.seq}
Least(S)    == IF S = {} THEN None ELSE CHOOSE e \in S : \A f \in S : e.key <= f.key
Greatest(S) == IF S = {} THEN None ELSE CHOOSE e \in S : \A f \in S : e.key >= f.key

\* An iterator call: the new iterator, and where the reference goes.
Call(d, S, Pick(_)) ==
  /\ it' = d
  /\ at' = Pick(S)
  /\ UNCHANGED layout

DoSeek(key) ==
  LET m == MergeSeek(layout.children, it.merge, <<key, layout.seq>>)
  IN Call(FindNextUserEntry(it, m, 0), {e \in layout.visible : e.key >= key}, Least)

DoSeekToFirst ==
  Call(FindNextUserEntry(it, MergeSeekToFirst(layout.children, it.merge), 0),
       layout.visible, Least)

DoSeekToLast ==
  Call(FindPrevUserEntry(it, MergeSeekToLast(layout.children, it.merge), None),
       layout.visible, Greatest)

DoNext ==
  /\ it.valid /\ Status(it)
  /\ LET cs == layout.children
         m  == IF it.dir = "forward" THEN it.merge
               ELSE IF it.merge.current = 0 THEN MergeSeekToFirst(cs, it.merge)
               ELSE MergeNext(cs, it.merge)
     IN Call(FindNextUserEntry(it, m, Current(it).key),
             {e \in layout.visible : e.key > Current(it).key}, Least)

DoPrev ==
  /\ it.valid /\ Status(it)
  /\ LET m == BeforeUserKey(it.merge, Current(it).key)
     IN Call(IF it.dir = "reverse" THEN FindPrevUserEntry(it, it.merge, None)
             ELSE IF m.current = 0 THEN Done(it, m)
             ELSE FindPrevUserEntry(it, m, None),
             {e \in layout.visible : e.key < Current(it).key}, Greatest)

IterInit ==
  /\ \E l \in Layouts :
       layout = [children |-> Children(l), visible |-> Visible(l), entries |-> l.entries,
                 seq |-> l.seq]
  /\ it = NewDBIter(layout.children)
  /\ at = None

IterNext ==
  \/ \E key \in {e.key : e \in layout.entries} : DoSeek(key)
  \/ DoSeekToFirst
  \/ DoSeekToLast
  \/ DoNext
  \/ DoPrev

IterSpec == IterInit /\ [][IterNext]_iterVars

-----------------------------------------------------------------------------
\* As long as status() is ok, the iterator is at the newest visible version of
\* the key it should be at, after any sequence of calls in both directions: a
\* block that could not be read is never skipped without a trace.
IteratorAgrees ==
  Status(it) => /\ it.valid = (at # None)
                /\ it.valid => Current(it) = at

\* "all children are positioned after key()" (before it in reverse): what
\* MergingIterator::Next and Prev rely on when the direction does not change.
\* Each child is exactly at its nearest entry on that side of the current key,
\* so that none of its entries has been passed over or will be seen twice.
ChildrenPlaced ==
  LET m == it.merge
      cs == layout.children
      Side(i) == {k \in {Key(e) : e \in EntriesOf(cs[i])} :
                    IF m.dir = "forward" THEN Before(MergeKey(cs, m), k)
                    ELSE Before(k, MergeKey(cs, m))}
      Nearer(a, b) == IF m.dir = "forward" THEN Before(a, b) ELSE Before(b, a)
  IN (Status(it) /\ m.current # 0) =>
       \A i \in DOMAIN cs \ {m.current} :
         IF Side(i) = {} THEN ~KidValid(cs[i], m.kids[i])
         ELSE /\ KidValid(cs[i], m.kids[i])
              /\ KidKey(cs[i], m.kids[i]) \in Side(i)
              /\ \A k \in Side(i) : ~Nearer(k, KidKey(cs[i], m.kids[i]))
=============================================================================
