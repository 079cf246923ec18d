------------------------------ MODULE MemTable ------------------------------
(***************************************************************************)
(* A memtable: the skip list its one writer inserts into while readers     *)
(* walk it without a lock, and the sequence number that decides what they  *)
(* see.                                                                    *)
(*                                                                         *)
(* Writers are serialized by DBImpl::Write; the writer inserts the entries *)
(* of a batch with the mutex released and publishes their last sequence    *)
(* number under the mutex.  A reader takes its snapshot under the mutex    *)
(* and then loads one link at a time.  Every store of Insert that a reader *)
(* can see is a step, and so is every load of a reader.  Links are stored  *)
(* with release and loaded with acquire by a single writer, so a reader    *)
(* sees a prefix of the stores and stepwise interleaving is exact for      *)
(* them; max_height_ is stored and loaded with no barrier, so a reader may *)
(* see any height.                                                         *)
(***************************************************************************)
EXTENDS Naturals, FiniteSets, TLC

CONSTANTS
  UserKeys,   \* a set of numbers above 0
  MaxSeq,     \* bound on the sequence numbers written
  MaxHeight,  \* kMaxHeight
  MaxBatch,   \* bound on the entries of a batch
  Null,       \* NULL
  Unset       \* the link of a node that has not been stored

ASSUME MemTableAssumption ==
  /\ UserKeys \subseteq Nat \ {0}
  /\ MaxSeq \in Nat /\ MaxBatch \in Nat \ {0} /\ MaxHeight \in Nat \ {0}

VARIABLES
  link,      \* next_ of every node allocated, head included
  height,    \* max_height_
  lastSeq,   \* VersionSet::LastSequence
  insert,    \* the writer: the Insert under way, Null between batches
  reader     \* one reader: the search under way or done

memVars == <<link, height, lastSeq, insert, reader>>

HeadNode    == <<0, 0>>
Entries == UserKeys \X (1..MaxSeq)
Nodes   == Entries \cup {HeadNode}
Levels  == 0..(MaxHeight - 1)

\* MemTable::KeyComparator on <<user key, sequence>>.
Less(a, b) == a[1] < b[1] \/ (a[1] = b[1] /\ a[2] > b[2])

KeyIsAfterNode(key, n) == n # Null /\ Less(n, key)

-----------------------------------------------------------------------------
(* The writer.                                                             *)

\* The node FindGreaterOrEqual stores in prev[level]: the writer's own search.
\* It starts at head_ on the highest level and goes down where it stops.
FindPrev(key) ==
  LET Along[x \in Nodes, level \in Levels] ==
        IF KeyIsAfterNode(key, link[x][level]) THEN Along[link[x][level], level] ELSE x
      Prev[level \in Levels] ==
        IF level >= height THEN HeadNode
        ELSE Along[IF level + 1 < height THEN Prev[level + 1] ELSE HeadNode, level]
  IN Prev

\* The start of SkipList::Insert: the search, RandomHeight, NewNode.
InsertNode(x, h, left) ==
  /\ insert' = [node |-> x, height |-> h, level |-> 0, stored |-> FALSE,
                prev |-> FindPrev(x), left |-> left]
  /\ height' = IF h > height THEN h ELSE height
  /\ link' = link @@ (x :> [l \in 0..(h - 1) |-> Unset])

\* DBImpl::Write inserts a batch of n entries (WriteBatchInternal::InsertInto).
StartBatch(key, h, n) ==
  /\ insert = Null
  /\ lastSeq + n <= MaxSeq
  /\ InsertNode(<<key, lastSeq + 1>>, h, n - 1)
  /\ UNCHANGED <<lastSeq, reader>>

\* Mutant: the new node is published on a level before its own link there.
PublishBeforeStore ==
  /\ insert # Null /\ ~insert.stored /\ insert.level < insert.height
  /\ LET i == insert.level IN
     IF "succ" \in DOMAIN insert
     THEN /\ link' = [link EXCEPT ![insert.node][i] = insert.succ]
          /\ insert' = [f \in DOMAIN insert \ {"succ"} |->
                          IF f = "stored" THEN TRUE ELSE insert[f]]
     ELSE /\ link' = [link EXCEPT ![insert.prev[i]][i] = insert.node]
          /\ insert' = insert @@ [succ |-> link[insert.prev[i]][i]]
  /\ UNCHANGED <<height, lastSeq, reader>>

\* x->NoBarrier_SetNext(i, prev[i]->NoBarrier_Next(i)).
StoreOwnLink ==
  /\ insert # Null /\ ~insert.stored /\ insert.level < insert.height
  /\ LET i == insert.level IN
     /\ link' = [link EXCEPT ![insert.node][i] = link[insert.prev[i]][i]]
     /\ insert' = [insert EXCEPT !.stored = TRUE]
  /\ UNCHANGED <<height, lastSeq, reader>>

\* prev[i]->SetNext(i, x).
PublishLink ==
  /\ insert # Null /\ insert.stored
  /\ LET i == insert.level IN
     /\ link' = [link EXCEPT ![insert.prev[i]][i] = insert.node]
     /\ insert' = [insert EXCEPT !.stored = FALSE, !.level = i + 1]
  /\ UNCHANGED <<height, lastSeq, reader>>

\* MemTableInserter::Put and Delete go on with the next entry of the batch.
NextOfBatch(key, h) ==
  /\ insert # Null /\ insert.level = insert.height /\ insert.left > 0
  /\ InsertNode(<<key, insert.node[2] + 1>>, h, insert.left - 1)
  /\ UNCHANGED <<lastSeq, reader>>

\* versions_->SetLastSequence(last_sequence), under the mutex.
FinishBatch ==
  /\ insert # Null /\ insert.level = insert.height /\ insert.left = 0
  /\ lastSeq' = insert.node[2]
  /\ insert' = Null
  /\ UNCHANGED <<link, height, reader>>

-----------------------------------------------------------------------------
(* A reader: the entries it must find (known: those published when it last *)
(* took the mutex) and its sequence number, the search it makes or made    *)
(* last (op, target, x, level) and node_, where its iterator is.           *)

Known == {n \in DOMAIN link \ {HeadNode} : n[2] <= lastSeq}

ReaderIdle == ~reader.busy

\* A search starts at head_, on the highest level of the max_height_ it loads.
StartSearch(r, op, target, h) ==
  reader' = [r EXCEPT !.busy = TRUE, !.op = op, !.target = target, !.x = HeadNode, !.level = h - 1]

\* DBImpl::Get: LastSequence under the mutex, then MemTable::Get's Seek.
StartGet(key, h) ==
  /\ ReaderIdle
  /\ StartSearch([reader EXCEPT !.known = Known, !.seq = lastSeq], "get", <<key, lastSeq>>, h)
  /\ UNCHANGED <<link, height, lastSeq, insert>>

\* DBImpl::NewIterator: MemTable::NewIterator, at no node.
NewIterator ==
  /\ ReaderIdle /\ reader.op # "none"
  /\ reader' = [reader EXCEPT !.known = Known, !.seq = lastSeq, !.op = "none", !.node = Null,
                              !.target = HeadNode, !.x = HeadNode]
  /\ UNCHANGED <<link, height, lastSeq, insert>>

\* Iterator::Seek, SeekToLast (FindLast) and Prev (FindLessThan).
Seek(key, h) ==
  /\ ReaderIdle /\ reader.op # "get"
  /\ StartSearch(reader, "seek", <<key, reader.seq>>, h)
  /\ UNCHANGED <<link, height, lastSeq, insert>>

SeekToLast(h) ==
  /\ ReaderIdle /\ reader.op # "get"
  /\ StartSearch(reader, "last", HeadNode, h)
  /\ UNCHANGED <<link, height, lastSeq, insert>>

Prev(h) ==
  /\ ReaderIdle /\ reader.op # "get" /\ reader.node # Null
  /\ StartSearch(reader, "prev", reader.node, h)
  /\ UNCHANGED <<link, height, lastSeq, insert>>

\* Iterator::SeekToFirst and Next load one link.
Step(from) ==
  /\ ReaderIdle /\ reader.op # "get"
  /\ reader' = [reader EXCEPT !.op = "next", !.target = from, !.node = link[from][0]]
  /\ UNCHANGED <<link, height, lastSeq, insert>>
SeekToFirst == Step(HeadNode)
NextNode == reader.node # Null /\ Step(reader.node)

\* One round of the loop of FindGreaterOrEqual, FindLessThan or FindLast.
Load ==
  /\ reader.busy
  /\ LET next  == link[reader.x][reader.level]
         ahead == IF reader.op = "last" THEN next # Null
                  ELSE KeyIsAfterNode(reader.target, next)
         found == IF reader.op \in {"get", "seek"} THEN next
                  ELSE IF reader.x = HeadNode THEN Null ELSE reader.x
     IN reader' = IF ahead THEN [reader EXCEPT !.x = next]
                  ELSE IF reader.level > 0 THEN [reader EXCEPT !.level = @ - 1]
                  ELSE [reader EXCEPT !.busy = FALSE, !.node = found, !.x = HeadNode]
  /\ UNCHANGED <<link, height, lastSeq, insert>>

-----------------------------------------------------------------------------
MemInit ==
  /\ link = (HeadNode :> [l \in Levels |-> Null])
  /\ height = 1
  /\ lastSeq = 0
  /\ insert = Null
  /\ reader = [busy |-> FALSE, op |-> "none", target |-> HeadNode, known |-> {}, seq |-> 0,
               x |-> HeadNode, level |-> 0, node |-> Null]

MemNext ==
  \/ \E key \in UserKeys, h \in 1..MaxHeight, n \in 1..MaxBatch : StartBatch(key, h, n)
  \/ StoreOwnLink
  \/ PublishLink
  \/ \E key \in UserKeys, h \in 1..MaxHeight : NextOfBatch(key, h)
  \/ FinishBatch
  \/ \E key \in UserKeys, h \in 1..MaxHeight : StartGet(key, h)
  \/ NewIterator
  \/ \E key \in UserKeys, h \in 1..MaxHeight : Seek(key, h)
  \/ \E h \in 1..MaxHeight : SeekToLast(h)
  \/ \E h \in 1..MaxHeight : Prev(h)
  \/ SeekToFirst
  \/ NextNode
  \/ Load

MemSpec == MemInit /\ [][MemNext]_memVars

-----------------------------------------------------------------------------
\* A reader that reached a node through a link never loads a link of it that
\* Insert has not stored yet, whatever max_height_ it saw: a node is published
\* on a level after its own link on that level, and from the bottom up.
LinksInitialised ==
  /\ reader.busy => /\ reader.level \in DOMAIN link[reader.x]
                    /\ link[reader.x][reader.level] # Unset
  /\ (ReaderIdle /\ reader.node # Null) => link[reader.node][0] # Unset

\* A search that races with insertions steps over no entry that was in the
\* list when the reader took its snapshot, and ends on the right side of its
\* target.
SearchExact ==
  LET n == reader.node
      t == reader.target
      Below(a, b) == a = HeadNode \/ b = Null \/ Less(a, b)
      from == IF n = Null THEN HeadNode ELSE n
  IN ReaderIdle =>
       CASE reader.op \in {"get", "seek"} ->
              /\ n = Null \/ ~Less(n, t)
              /\ \A k \in reader.known : Less(k, t) \/ ~Below(k, n) \/ k = n
         [] reader.op = "next" ->
              /\ Below(t, n)
              /\ \A k \in reader.known : ~(Below(t, k) /\ Below(k, n) /\ k # n)
         [] reader.op = "prev" ->
              /\ Less(from, t)
              /\ \A k \in reader.known : ~(Below(from, k) /\ k # from /\ Less(k, t))
         [] reader.op = "last" -> \A k \in reader.known : ~(Below(from, k) /\ k # from)
         [] OTHER -> TRUE

\* DBImpl::Get sees the newest version of the key at its sequence number and
\* no entry of a batch that was being inserted.
GetNewest ==
  LET key == reader.target[1]
      versions == {n \in Entries : n[1] = key /\ n[2] <= reader.seq /\ n \in DOMAIN link}
      found == reader.node # Null /\ reader.node[1] = key
  IN (ReaderIdle /\ reader.op = "get") =>
       /\ found = (versions # {})
       /\ found => /\ reader.node \in versions
                   /\ \A v \in versions : v[2] <= reader.node[2]
=============================================================================
