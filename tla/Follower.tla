------------------------------ MODULE Follower ------------------------------
(***************************************************************************)
(* A read-only database (readonly_impl.cc) that follows a read-write one:  *)
(* it loads the writer's MANIFEST, applies the edits appended since at     *)
(* each Reload, and serves Get, iterators and size estimates from its      *)
(* current version while the writer compacts and removes the files that    *)
(* its own versions no longer need.                                        *)
(*                                                                         *)
(* Version i is the tree after the first i edits; version 0 is empty.      *)
(* Load and Reload only assert that the mutex is held, and nothing that an *)
(* application can call takes it for Reload: Locked says whether it is.    *)
(***************************************************************************)
EXTENDS Integers, Sequences, FiniteSets

CONSTANTS
  Clients,     \* threads that read from the follower
  MaxEdits,    \* edits that the writer logs
  Locked       \* is the mutex held during Reload?

ASSUME FollowAssumption ==
  /\ IsFiniteSet(Clients) /\ MaxEdits \in Nat /\ Locked \in BOOLEAN
  /\ Clients \cap {"free", "reload"} = {}

VARIABLES
  edits,       \* the edits in the writer's MANIFEST
  onDisk,      \* the table files that exist
  view,        \* the follower: its current version, sequence, and Reload
  refs,        \* references to each of its versions; 0 once deleted
  holder,      \* who holds its mutex
  cached,      \* files that its table cache has open
  reads        \* what each client is doing

followVars == <<edits, onDisk, view, refs, holder, cached, reads>>

VersionAt(n) ==
  {f \in 1..n : \A i \in 1..n : f \notin edits[i].deleted}

SequenceAt(n) == IF n = 0 THEN 0 ELSE edits[n].lastSeq

WriterFiles == VersionAt(Len(edits))

Closed == [open |-> FALSE, current |-> 0, lastSeq |-> 0, reloading |-> FALSE]

NoRead == [op |-> "none"]

Free == "free"

FollowInit ==
  /\ edits = <<>> /\ onDisk = {}
  /\ view = Closed
  /\ refs = [i \in 0..MaxEdits |-> 0]
  /\ holder = Free
  /\ cached = {}
  /\ reads = [c \in Clients |-> NoRead]

-----------------------------------------------------------------------------
(* The writer, as far as a follower sees it: LogAndApply of a memtable     *)
(* dump or a compaction, which writes one table and may drop others, and   *)
(* DeleteObsoleteFiles.                                                    *)

WriterLog(dropped) ==
  /\ Len(edits) < MaxEdits
  /\ edits' = Append(edits, [deleted |-> dropped, lastSeq |-> Len(edits) + 1])
  /\ onDisk' = onDisk \cup {Len(edits) + 1}
  /\ UNCHANGED <<view, refs, holder, cached, reads>>

WriterRemove(f) ==
  /\ f \in onDisk \ WriterFiles
  /\ onDisk' = onDisk \ {f}
  /\ UNCHANGED <<edits, view, refs, holder, cached, reads>>

-----------------------------------------------------------------------------
(* ReadonlyDB::Open and Load: fails without a manifest, and otherwise      *)
(* applies every edit; no one else sees the versions in between.           *)
FollowerOpen ==
  /\ ~view.open
  /\ edits # <<>>
  /\ LET n == Len(edits)
     IN /\ view' = [open |-> TRUE, current |-> n, lastSeq |-> SequenceAt(n), reloading |-> FALSE]
        /\ refs' = [refs EXCEPT ![n] = 1]
  /\ UNCHANGED <<edits, onDisk, holder, cached, reads>>

(* ~ReadonlyDBImpl, once every iterator is gone; its table cache with it.  *)
FollowerClose ==
  /\ view.open /\ ~view.reloading
  /\ \A c \in Clients : reads[c] = NoRead
  /\ view' = Closed
  /\ refs' = [refs EXCEPT ![view.current] = @ - 1]
  /\ cached' = {}
  /\ UNCHANGED <<edits, onDisk, holder, reads>>

ReloadStart ==
  /\ view.open /\ ~view.reloading
  /\ Locked => holder = Free
  /\ holder' = IF Locked THEN "reload" ELSE holder
  /\ view' = [view EXCEPT !.reloading = TRUE]
  /\ UNCHANGED <<edits, onDisk, refs, cached, reads>>

(* Mutant: AppendVersion keeps the reference to the version it replaces.   *)
ForeignApplyKeepsOld ==
  /\ view.reloading /\ view.current < Len(edits)
  /\ LET n == view.current + 1
     IN  view' = [open |-> view.open, current |-> n, lastSeq |-> SequenceAt(n), reloading |-> TRUE]
  /\ refs' = [refs EXCEPT ![view.current + 1] = 1]
  /\ UNCHANGED <<edits, onDisk, holder, cached, reads>>

(* One turn of Reload's loop: a record, and ForeighApply with its          *)
(* AppendVersion, which drops the reference to the version before.         *)
ForeignApply ==
  /\ view.reloading /\ view.current < Len(edits)
  /\ LET n == view.current + 1
     IN  view' = [open |-> view.open, current |-> n, lastSeq |-> SequenceAt(n), reloading |-> TRUE]
  /\ refs' = [refs EXCEPT ![view.current] = @ - 1, ![view.current + 1] = 1]
  /\ UNCHANGED <<edits, onDisk, holder, cached, reads>>

ReloadEnd ==
  /\ view.reloading /\ view.current = Len(edits)
  /\ view' = [view EXCEPT !.reloading = FALSE]
  /\ holder' = IF Locked THEN Free ELSE holder
  /\ UNCHANGED <<edits, onDisk, refs, cached, reads>>

-----------------------------------------------------------------------------
(* What the readers do with the mutex held, one statement at a time:       *)
(* "pick" reads current(), "ref" references what was picked, "refcur"      *)
(* reads current() again to reference it, "clean" reads it once more for   *)
(* the cleanup of an iterator.                                             *)
Statements ==
  [get |-> <<"pick", "ref">>,                  \* InternalGet
   iter |-> <<"pick", "refcur", "clean">>,     \* NewInternalIterator
   sizes |-> <<"refcur", "pick">>]             \* GetApproximateSizes

ReadBegin(c, op) ==
  /\ view.open /\ reads[c] = NoRead /\ holder = Free
  /\ holder' = c
  /\ reads' = [reads EXCEPT ![c] = [op |-> op, todo |-> Statements[op], seq |-> view.lastSeq,
                                    version |-> 0, clean |-> 0, failed |-> {}]]
  /\ UNCHANGED <<edits, onDisk, view, refs, cached>>

ReadStatement(c) ==
  /\ reads[c] # NoRead /\ reads[c].todo # <<>>
  /\ LET s == Head(reads[c].todo)
         rest == Tail(reads[c].todo)
     IN /\ reads' = [reads EXCEPT ![c] =
                        [op |-> reads[c].op, todo |-> rest, seq |-> reads[c].seq, failed |-> reads[c].failed,
                         version |-> IF s = "pick" THEN view.current ELSE reads[c].version,
                         clean |-> IF s \in {"pick", "clean"} THEN view.current ELSE reads[c].clean]]
        /\ refs' = CASE s = "ref" -> [refs EXCEPT ![reads[c].version] = @ + 1]
                     [] s = "refcur" -> [refs EXCEPT ![view.current] = @ + 1]
                     [] OTHER -> refs
        /\ holder' = IF rest = <<>> THEN Free ELSE holder
  /\ UNCHANGED <<edits, onDisk, view, cached>>

Reading(c) == reads[c] # NoRead /\ reads[c].todo = <<>>

(* A table of the version, without the mutex: found in the table cache or  *)
(* opened, and an error when its file is gone.                             *)
ReadTable(c, f) ==
  /\ Reading(c)
  /\ f \in VersionAt(reads[c].version)
  /\ IF f \in cached \cup onDisk
     THEN cached' = cached \cup {f} /\ UNCHANGED reads
     ELSE reads' = [reads EXCEPT ![c].failed = @ \cup {f}] /\ UNCHANGED cached
  /\ UNCHANGED <<edits, onDisk, view, refs, holder>>

(* An open table leaves the cache.                                         *)
EvictTable(f) ==
  /\ f \in cached
  /\ cached' = cached \ {f}
  /\ UNCHANGED <<edits, onDisk, view, refs, holder, reads>>

(* The mutex again, and Unref; for an iterator, CleanupIteratorState.      *)
ReadEnd(c) ==
  /\ Reading(c) /\ holder = Free
  /\ refs' = [refs EXCEPT ![reads[c].clean] = @ - 1]
  /\ reads' = [reads EXCEPT ![c] = NoRead]
  /\ UNCHANGED <<edits, onDisk, view, holder, cached>>

FollowNext ==
  \/ \E dropped \in SUBSET WriterFiles : WriterLog(dropped)
  \/ \E f \in onDisk : WriterRemove(f)
  \/ FollowerOpen \/ FollowerClose
  \/ ReloadStart \/ ForeignApply \/ ReloadEnd
  \/ \E c \in Clients : \/ \E op \in DOMAIN Statements : ReadBegin(c, op)
                        \/ ReadStatement(c) \/ ReadEnd(c)
                        \/ \E f \in 1..Len(edits) : ReadTable(c, f)
  \/ \E f \in cached : EvictTable(f)

FollowSpec == FollowInit /\ [][FollowNext]_followVars

-----------------------------------------------------------------------------
(* Properties.                                                             *)

Referenced(c) ==
  reads[c] # NoRead /\ "ref" \notin {reads[c].todo[i] : i \in 1..Len(reads[c].todo)}
                  /\ "refcur" \notin {reads[c].todo[i] : i \in 1..Len(reads[c].todo)}

(* A version has exactly the references of its readers and that of being   *)
(* the current one (Version::Ref, Unref, AppendVersion): none is deleted   *)
(* under a reader and none outlives its last one, whatever the order of    *)
(* reloads, reads and iterators that stay open across reloads.             *)
RefsExact ==
  \A i \in 0..MaxEdits :
    refs[i] = Cardinality({c \in Clients : Referenced(c) /\
                             (IF reads[c].todo # <<>> /\ reads[c].op = "sizes"
                              THEN view.current ELSE reads[c].clean) = i})
              + (IF view.open /\ view.current = i THEN 1 ELSE 0)

(* A reader's sequence number is that of the version it reads              *)
(* (InternalGet, NewInternalIterator): with an older one it would miss     *)
(* entries whose older values the version's compactions have dropped.      *)
SnapshotMatches ==
  \A c \in Clients : Reading(c) /\ reads[c].op # "sizes" =>
    reads[c].seq = SequenceAt(reads[c].version)

(* A read fails only on a table that the writer's tree no longer has: a    *)
(* follower that is behind may meet removed files, one that has reloaded   *)
(* the last edit may not.                                                  *)
ReadsServed ==
  \A c \in Clients : Reading(c) => reads[c].failed \cap WriterFiles = {}

(* A follower's versions are referenced exactly by those who use them, and *)
(* its readers get the sequence number and the tables of the version they  *)
(* read (readonly_impl.cc).                                                *)
FollowerExact == RefsExact /\ SnapshotMatches /\ ReadsServed
=============================================================================
