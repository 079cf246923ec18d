-------------------------------- MODULE Ofs --------------------------------
(***************************************************************************)
(* The object file system (src/ofs.cc, src/ofs_impl.{h,cc}): files kept as *)
(* objects of a flat object store, directories ("file sets") kept as a     *)
(* write-ahead log of membership records in one of two log objects that    *)
(* take turns.                                                             *)
(*                                                                         *)
(* Ofs::Impl::mutex_ is held for a whole call, so calls never interleave   *)
(* with each other; but each is a sequence of log appends and object store *)
(* calls, any of which may fail, and the process may crash between any two *)
(* of them.  "op" is the call in progress and "op.at" the store call it    *)
(* makes next.  An object is named by the path it was first created for    *)
(* (ObjName); what an object holds is abstracted to the number of the call *)
(* that wrote it.  A path is <<file set, base name>>.                      *)
(***************************************************************************)
EXTENDS Integers, Sequences, FiniteSets, SequencesExt

CONSTANTS Sets,         \* file sets, each mounted at a mount point of its own
          Paths,        \* the paths <<set, base>> calls may name
          Sync,         \* MountOptions::sync
          SyncOnClose,  \* OfsOptions::sync_log_on_close
          DeferredGC,   \* OfsOptions::deferred_gc
          Clients       \* bounds: the paths one client works with, the calls it makes
                        \* on them and the mounts it makes, [paths, calls, mounts]

VARIABLES objs,    \* objs[o]: what object o holds, 0 when there is no such object
          logs,    \* logs[s][i]: the log object s_1 or s_2
          mnt,     \* mtable_: mnt[s] is the mounted FileSet of s
          op,      \* the call in progress
          client,  \* the client at work
          calls,   \* calls made; also the contents the last one wrote
          clock,   \* CurrentMicros(), which only the order of mounts reads
          may,     \* may[p]: what path p may hold, by the results calls returned
          overwritten, shared, dropped
             \* objects for which the store makes no promise any more: a call that
             \* replaces a file did not finish; two paths lead to the object; the
             \* file set it belonged to was removed

ofsVars == <<objs, logs, mnt, op, client, calls, clock,
             may, overwritten, shared, dropped>>

NoFiles == [p \in {} |-> p]
NoSet   == [on |-> FALSE, ro |-> FALSE, err |-> FALSE, slot |-> 1, files |-> NoFiles]
NoLog   == [time |-> 0, recs |-> <<>>, synced |-> 0]
Idle    == [k |-> "idle"]           \* mutex_ is free
Absent  == 0
Torn    == -1        \* a partly written object
Dangling == -2       \* a listed file whose object is gone

Other(i) == 3 - i

----------------------------------------------------------------------------
(* Log records and their replay *)

\* FileSet::RecordType; a log entry is the sequence of operations of one record.
TryCreate(o)      == [t |-> "try", o |-> o]
DelObj(o)         == [t |-> "del", o |-> o]
LinkRec(p, o)     == [t |-> "link", p |-> p, o |-> o]
UnlinkDelRec(p, o) == [t |-> "unlinkdel", p |-> p, o |-> o]
UnlinkRec(p)      == [t |-> "unlink", p |-> p]
ObjDeleted(o)     == [t |-> "deleted", o |-> o]

Insert(files, p, o) == [q \in DOMAIN files \cup {p} |-> IF q = p THEN o ELSE files[q]]
Erase(files, p)     == [q \in DOMAIN files \ {p} |-> files[q]]

\* Mutant: an unfinished creation is not undone.
ExecuteNoUndo(st, r) ==
  CASE r.t = "del"       -> [st EXCEPT !.garbage = @ \cup {r.o}]
    [] r.t = "try"       -> st
    [] r.t = "link"      -> [files |-> Insert(st.files, r.p, r.o), garbage |-> st.garbage \ {r.o}]
    [] r.t = "unlinkdel" -> [files |-> Erase(st.files, r.p), garbage |-> st.garbage \cup {r.o}]
    [] r.t = "unlink"    -> [st EXCEPT !.files = Erase(@, r.p)]
    [] r.t = "deleted"   -> [st EXCEPT !.garbage = @ \ {r.o}]

Execute(st, r) ==
  CASE r.t \in {"try", "del"} -> [st EXCEPT !.garbage = @ \cup {r.o}]
    [] r.t = "link"      -> [files |-> Insert(st.files, r.p, r.o), garbage |-> st.garbage \ {r.o}]
    [] r.t = "unlinkdel" -> [files |-> Erase(st.files, r.p), garbage |-> st.garbage \cup {r.o}]
    [] r.t = "unlink"    -> [st EXCEPT !.files = Erase(@, r.p)]
    [] r.t = "deleted"   -> [st EXCEPT !.garbage = @ \ {r.o}]

RedoUndo(recs) ==
  FoldLeft(Execute, [files |-> NoFiles, garbage |-> {}], FlattenSeq(recs))

\* The timestamp of a log's first record; 0 when the log is missing or empty.
Access(s, i) == IF logs[s][i].recs = <<>> THEN 0 ELSE logs[s][i].time

\* The log that RecoverFileSet replays: the one whose first record is younger.
Found(s)    == Access(s, 1) # 0 \/ Access(s, 2) # 0
LastSlot(s) == IF Access(s, 1) > Access(s, 2) THEN 1 ELSE 2
RecoverFileSet(s) ==
  IF Found(s) THEN RedoUndo(logs[s][LastSlot(s)].recs)
              ELSE [files |-> NoFiles, garbage |-> {}]

\* The objects that replaying log i of set s names, as objects of files or as garbage.
LogNames(s, i) ==
  LET st == RedoUndo(logs[s][i].recs) IN {st.files[p] : p \in DOMAIN st.files} \cup st.garbage

MakeSnapshot(st) ==
  SetToSeq({LinkRec(p, st.files[p]) : p \in DOMAIN st.files})
    \o SetToSeq({DelObj(o) : o \in st.garbage})

\* The files of a set, mounted or as the next mount would find them.
View(s) == IF mnt[s].on THEN mnt[s].files ELSE RecoverFileSet(s).files

----------------------------------------------------------------------------
(* FileSet: one record appended to the log, and synced when "sync" is set *)

\* log::Writer::AddRecord, then Sync: the outcomes, with the log, the error state and
\* the files each leaves.  An append that fails makes every later one of this file fail
\* (RadosWritableFile::err_); when it is the sync that fails the record may or may not
\* have reached the object.
AddRecord(s, recs, sync, files) ==
  LET m   == mnt[s]
      l   == logs[s][m.slot]
      new == [l EXCEPT !.recs = Append(@, recs)]
      yes == [new EXCEPT !.synced = IF sync THEN Len(new.recs) ELSE @]
      Bad(log, err) == [ok |-> FALSE, log |-> log, err |-> err, files |-> m.files]
  IN  IF m.ro \/ m.err THEN {Bad(l, m.err)}
      ELSE {[ok |-> TRUE, log |-> yes, err |-> FALSE, files |-> files], Bad(l, TRUE)}
           \cup (IF sync THEN {Bad(new, TRUE)} ELSE {})

Logged(s, r) ==
  /\ logs' = [logs EXCEPT ![s][mnt[s].slot] = r.log]
  /\ mnt' = [mnt EXCEPT ![s].err = r.err, ![s].files = r.files]

TryCreateObject(s, o)    == AddRecord(s, <<TryCreate(o)>>, Sync, mnt[s].files)
Link(s, p, o)            == AddRecord(s, <<LinkRec(p, o)>>, Sync, Insert(mnt[s].files, p, o))
UnlinkAndDelete(s, p, o) == AddRecord(s, <<UnlinkDelRec(p, o)>>, Sync, Erase(mnt[s].files, p))
Unlink(s, p)             == AddRecord(s, <<UnlinkRec(p)>>, Sync, Erase(mnt[s].files, p))
DeletedObject(s, o)      == AddRecord(s, <<ObjDeleted(o)>>, Sync, mnt[s].files)

\* What a log object holds once its file is closed or its process has died: all that
\* was synced and some of what was not.
Settled(l) == {[l EXCEPT !.recs = SubSeq(@, 1, n), !.synced = n] : n \in l.synced..Len(l.recs)}

----------------------------------------------------------------------------
(* Bookkeeping of what calls promised *)

Holds(p) ==
  IF p \notin DOMAIN View(p[1]) THEN Absent
  ELSE LET c == objs[View(p[1])[p]] IN IF c = Absent THEN Dangling ELSE c

NoPromise == UNCHANGED <<may, overwritten, shared, dropped>>

\* The call in progress returned OK, or failed: a failed (or crashed) call may or may
\* not have taken effect.
Succeed ==
  /\ op' = Idle
  /\ may' = CASE op.k = "put"    -> [may EXCEPT ![op.p] = {op.c}]
              [] op.k = "delete" -> [may EXCEPT ![op.p] = {Absent}]
              [] op.k = "rename" -> [may EXCEPT ![op.p] = {op.c}, ![op.src] = {Absent}]
  /\ UNCHANGED <<overwritten, shared, dropped>>

Unfinished ==
  /\ op' = Idle
  /\ may' = CASE op.k = "put"    -> [may EXCEPT ![op.p] = @ \cup {op.c}]
              [] op.k = "delete" -> [may EXCEPT ![op.p] = @ \cup {Absent}]
              [] op.k = "rename" -> [may EXCEPT ![op.p] = @ \cup {op.c},
                                                ![op.src] = @ \cup {Absent}]
              [] OTHER -> may
  /\ overwritten' = IF op.k = "put" /\ op.over THEN overwritten \cup {op.o}
                     ELSE overwritten
  /\ shared' = IF op.k = "rename" THEN shared \cup {op.o} ELSE shared
  /\ dropped' = IF op.k = "unmount" THEN dropped \cup op.named ELSE dropped

\* The first record of a call failed: if it surely did not reach the log (always so on
\* a read-only set) nothing happened.
Refused(s, r) ==
  IF r.log = logs[s][mnt[s].slot] THEN op' = Idle /\ NoPromise ELSE Unfinished

----------------------------------------------------------------------------
(* Calls on files *)

CanCall == op = Idle /\ calls < client.calls
Mounted(p)  == mnt[p[1]].on
HasFile(p)  == Mounted(p) /\ p \in DOMAIN mnt[p[1]].files
ObjectOf(p) == IF HasFile(p) THEN mnt[p[1]].files[p] ELSE p

\* A call that creates or replaces file p with contents c.  ObjName may give the name of
\* an object that another path leads to, after a Rename.
StartPut(how, p, c) ==
  LET o == ObjectOf(p)
      elsewhere == \E s \in Sets : \E q \in DOMAIN View(s) : q # p /\ View(s)[q] = o
  IN  /\ op' = [k |-> "put", how |-> how, at |-> "try", p |-> p, o |-> o, c |-> c,
                over |-> HasFile(p)]
      /\ calls' = calls + 1
      /\ shared' = IF elsewhere THEN shared \cup {o} ELSE shared
      /\ UNCHANGED <<objs, logs, mnt, client, clock, may, overwritten, dropped>>

PutFile(p) == CanCall /\ Mounted(p) /\ StartPut("put", p, calls + 1)

\* The contents of a new writable file are what its handle appends later on.
NewWritableFile(p) == CanCall /\ Mounted(p) /\ StartPut("new", p, calls + 1)

\* Copying an object onto itself truncates it before it is read.
CopyFile(q, p) ==
  /\ CanCall /\ Mounted(p) /\ HasFile(q)
  /\ LET src == mnt[q[1]].files[q]
     IN  StartPut("copy", p, IF src = ObjectOf(p) THEN Torn ELSE objs[src])

PutTry ==
  /\ op.k = "put" /\ op.at = "try"
  /\ \E r \in TryCreateObject(op.p[1], op.o) :
       /\ Logged(op.p[1], r)
       /\ IF r.ok THEN op' = [op EXCEPT !.at = "store"] /\ NoPromise
                  ELSE Refused(op.p[1], r)
  /\ UNCHANGED <<objs, client, calls, clock>>

\* Osd::Put, NewWritableObj or Copy.  RadosOsd::Put is one atomic call and leaves the old
\* object when it fails; a failed NewWritableObj or Copy leaves the old one or part of
\* the new.
PutStore ==
  /\ op.k = "put" /\ op.at = "store"
  /\ \/ /\ op.how = "copy" => op.c # Absent
        /\ objs' = [objs EXCEPT ![op.o] = op.c]
        /\ op' = [op EXCEPT !.at = "link"]
        /\ NoPromise
     \/ /\ \E c \in {objs[op.o]} \cup (IF op.how = "put" THEN {} ELSE {Torn}) :
             objs' = [objs EXCEPT ![op.o] = c]
        /\ Unfinished
  /\ UNCHANGED <<logs, mnt, client, calls, clock>>

\* When the link cannot be committed the object is deleted, unless garbage collection
\* is deferred to the next mount.
PutLink ==
  /\ op.k = "put" /\ op.at = "link"
  /\ \E r \in Link(op.p[1], op.p, op.o) :
       /\ Logged(op.p[1], r)
       /\ IF r.ok THEN Succeed /\ UNCHANGED objs
          ELSE /\ Unfinished
               /\ objs' \in {objs} \cup
                    (IF DeferredGC THEN {} ELSE {[objs EXCEPT ![op.o] = Absent]})
  /\ UNCHANGED <<client, calls, clock>>

DeleteFile(p) ==
  /\ CanCall /\ HasFile(p)
  /\ op' = [k |-> "delete", at |-> "unlink", p |-> p, o |-> mnt[p[1]].files[p]]
  /\ calls' = calls + 1
  /\ UNCHANGED <<objs, logs, mnt, client, clock>> /\ NoPromise

DeleteUnlink ==
  /\ op.k = "delete" /\ op.at = "unlink"
  /\ \E r \in UnlinkAndDelete(op.p[1], op.p, op.o) :
       /\ Logged(op.p[1], r)
       /\ IF r.ok THEN op' = [op EXCEPT !.at = "remove"] /\ NoPromise
                  ELSE Refused(op.p[1], r)
  /\ UNCHANGED <<objs, client, calls, clock>>

\* Osd::Delete; a failure is left to the next mount.
DeleteRemove ==
  /\ op.k = "delete" /\ op.at = "remove"
  /\ \/ /\ objs[op.o] # Absent
        /\ objs' = [objs EXCEPT ![op.o] = Absent]
        /\ op' = [op EXCEPT !.at = "mark"]
        /\ NoPromise
     \/ Succeed /\ UNCHANGED objs
  /\ UNCHANGED <<logs, mnt, client, calls, clock>>

DeleteMark ==
  /\ op.k = "delete" /\ op.at = "mark"
  /\ \E r \in DeletedObject(op.p[1], op.o) : Logged(op.p[1], r)
  /\ Succeed
  /\ UNCHANGED <<objs, client, calls, clock>>

\* The new name is linked, in the log of its own set, before the old one is unlinked.
Rename(q, p) ==
  /\ CanCall /\ Mounted(p) /\ ~HasFile(p) /\ HasFile(q)
  /\ op' = [k |-> "rename", at |-> "link", p |-> p, src |-> q,
            o |-> mnt[q[1]].files[q], c |-> Holds(q)]
  /\ calls' = calls + 1
  /\ UNCHANGED <<objs, logs, mnt, client, clock>> /\ NoPromise

RenameLink ==
  /\ op.k = "rename" /\ op.at = "link"
  /\ \E r \in Link(op.p[1], op.p, op.o) :
       /\ Logged(op.p[1], r)
       /\ IF r.ok THEN op' = [op EXCEPT !.at = "unlink"] /\ NoPromise
                  ELSE Refused(op.p[1], r)
  /\ UNCHANGED <<objs, client, calls, clock>>

RenameUnlink ==
  /\ op.k = "rename" /\ op.at = "unlink"
  /\ \E r \in Unlink(op.src[1], op.src) :
       /\ Logged(op.src[1], r)
       /\ IF r.ok THEN Succeed ELSE Unfinished
  /\ UNCHANGED <<objs, client, calls, clock>>

----------------------------------------------------------------------------
(* Mounting and unmounting *)

\* LinkFileSet with the options RadosEnv::MountDir gives: read_only is the negation of
\* create_if_missing, and error_if_exists is off.  A set with no log is created unless
\* it is mounted read-only; a read-only mount replays the log and opens none.
LinkFileSet(s, ro) ==
  /\ op = Idle /\ ~mnt[s].on /\ clock < client.mounts
  /\ ro => Found(s)
  /\ clock' = clock + 1
  /\ LET st == RecoverFileSet(s)
     IN  IF ro
         THEN /\ mnt' = [mnt EXCEPT ![s] = [NoSet EXCEPT !.on = TRUE, !.ro = TRUE,
                                                         !.files = st.files]]
              /\ UNCHANGED op
         ELSE /\ op' = [k |-> "mount", at |-> "open", s |-> s, left |-> st.garbage,
                        files |-> st.files, o |-> {},
                        slot |-> IF Found(s) THEN Other(LastSlot(s)) ELSE 1]
              /\ UNCHANGED mnt
  /\ UNCHANGED <<objs, logs, client, calls>> /\ NoPromise

\* OpenFileSetForWriting: the log object not in use is truncated and gets a snapshot,
\* which is not synced; if that fails the object is deleted and so is the set.
OpenFileSetForWriting ==
  /\ op.k = "mount" /\ op.at = "open"
  /\ \/ /\ logs' = [logs EXCEPT ![op.s][op.slot] =
                     [NoLog EXCEPT !.time = clock,
                        !.recs = <<MakeSnapshot([files |-> op.files, garbage |-> op.left])>>]]
        /\ mnt' = [mnt EXCEPT ![op.s] = [NoSet EXCEPT !.on = TRUE, !.slot = op.slot,
                                                      !.files = op.files]]
        /\ op' = [op EXCEPT !.at = "collect"]
     \/ /\ logs' \in {logs, [logs EXCEPT ![op.s][op.slot] = NoLog]}
        /\ op' = Idle
        /\ UNCHANGED mnt
  /\ UNCHANGED <<objs, client, calls, clock>> /\ NoPromise

\* The garbage collection pass of OpenFileSetForWriting: one object of the garbage is
\* deleted and then marked as deleted, or left for the next mount.
CollectObject ==
  /\ op.k = "mount" /\ op.at = "collect"
  /\ \E o \in op.left :
       \/ /\ objs' = [objs EXCEPT ![o] = Absent]
          /\ op' = [op EXCEPT !.at = "mark", !.left = @ \ {o}, !.o = o]
       \/ /\ op' = [op EXCEPT !.left = @ \ {o}]
          /\ UNCHANGED objs
  /\ UNCHANGED <<logs, mnt, client, calls, clock>> /\ NoPromise

MarkCollected ==
  /\ op.k = "mount" /\ op.at = "mark"
  /\ \E r \in DeletedObject(op.s, op.o) : Logged(op.s, r)
  /\ op' = [op EXCEPT !.at = "collect"]
  /\ UNCHANGED <<objs, client, calls, clock>> /\ NoPromise

\* The mount is over.  What its paths hold is now known.
MountDone ==
  /\ op.k = "mount" /\ op.at = "collect" /\ op.left = {}
  /\ op' = Idle
  /\ may' = [p \in Paths |-> IF p[1] = op.s /\ Holds(p) \in may[p] THEN {Holds(p)} ELSE may[p]]
  /\ UNCHANGED <<objs, logs, mnt, client, calls, clock, overwritten, shared, dropped>>

\* SynFileSet: sync the log of a mounted set.
SynFileSet(s) ==
  /\ op = Idle /\ mnt[s].on /\ ~mnt[s].ro /\ ~mnt[s].err
  /\ \/ /\ logs' = [logs EXCEPT ![s][mnt[s].slot].synced = Len(logs[s][mnt[s].slot].recs)]
        /\ UNCHANGED mnt
     \/ /\ mnt' = [mnt EXCEPT ![s].err = TRUE]
        /\ UNCHANGED logs
  /\ UNCHANGED <<objs, op, client, calls, clock>> /\ NoPromise

\* ~FileSet: the log is synced, when sync_log_on_close is set, and closed.  If the log
\* could not be written, some of what was appended after the last sync is missing.
Close(s) ==
  LET l == logs[s][mnt[s].slot]
  IN  IF mnt[s].ro \/ ~SyncOnClose THEN {l} ELSE Settled(l)

\* UnlinkFileSet; a set that still has files is not removed.
UnlinkFileSet(s, deletion) ==
  /\ op = Idle /\ mnt[s].on
  /\ deletion => mnt[s].files = NoFiles
  /\ \E l \in Close(s) : logs' = [logs EXCEPT ![s][mnt[s].slot] = l]
  /\ mnt' = [mnt EXCEPT ![s] = NoSet]
  /\ op' = IF deletion THEN [k |-> "unmount", at |-> "first", s |-> s,
                              named |-> LogNames(s, 1) \cup LogNames(s, 2)] ELSE Idle
  /\ UNCHANGED <<objs, client, calls, clock>> /\ NoPromise

\* The two log objects are deleted one after the other, the second even when the first
\* could not be.
RemoveLog ==
  /\ op.k = "unmount"
  /\ LET i == IF op.at = "first" THEN 1 ELSE 2
     IN  logs' \in {logs, [logs EXCEPT ![op.s][i] = NoLog]}
  /\ IF op.at = "first" THEN op' = [op EXCEPT !.at = "second"] /\ NoPromise ELSE Unfinished
  /\ UNCHANGED <<objs, mnt, client, calls, clock>>

\* The process dies: every log keeps what was synced and some of the rest.
Crash ==
  /\ \E s \in Sets : mnt[s].on \/ op # Idle
  /\ mnt' = [s \in Sets |-> NoSet]
  /\ logs' \in [Sets -> UNION {{<<a, b>> : a \in Settled(logs[s][1]), b \in Settled(logs[s][2])}
                               : s \in Sets}]
  /\ \A s \in Sets : \A i \in 1..2 : logs'[s][i] \in Settled(logs[s][i])
  /\ IF op = Idle THEN UNCHANGED op /\ NoPromise ELSE Unfinished
  /\ UNCHANGED <<objs, client, calls, clock>>

OfsInit ==
  /\ objs = [p \in Paths |-> Absent]
  /\ logs = [s \in Sets |-> <<NoLog, NoLog>>]
  /\ mnt = [s \in Sets |-> NoSet]
  /\ op = Idle /\ clock = 0
  /\ client \in Clients /\ calls = 0
  /\ may = [p \in Paths |-> {Absent}]
  /\ overwritten = {} /\ shared = {} /\ dropped = {}

OfsNext ==
  \/ \E p \in client.paths : PutFile(p) \/ NewWritableFile(p) \/ DeleteFile(p)
  \/ \E p, q \in client.paths : CopyFile(q, p) \/ Rename(q, p)
  \/ PutTry \/ PutStore \/ PutLink
  \/ DeleteUnlink \/ DeleteRemove \/ DeleteMark
  \/ RenameLink \/ RenameUnlink
  \/ \E s \in {p[1] : p \in client.paths}, ro \in BOOLEAN : LinkFileSet(s, ro)
  \/ OpenFileSetForWriting \/ CollectObject \/ MarkCollected \/ MountDone
  \/ \E s \in Sets, deletion \in BOOLEAN : UnlinkFileSet(s, deletion)
  \/ \E s \in Sets : SynFileSet(s)
  \/ RemoveLog \/ Crash

OfsSpec == OfsInit /\ [][OfsNext]_ofsVars

----------------------------------------------------------------------------
(* Properties *)

\* Files hold what the calls on them promised: between calls, on a mounted set, after a
\* crash, a failed mount or a restart, a path holds the contents of the last write that
\* returned OK, or of a later write that failed; a deleted path is gone; no path is
\* listed without its object.  Excepted are the objects of a file whose replacement did
\* not finish, and objects two paths have led to (the gaps of PutFile and Rename that
\* the README describes).
FilesHold ==
  op = Idle => \A p \in Paths :
    \/ Holds(p) \in may[p]
    \/ p \in DOMAIN View(p[1]) /\ View(p[1])[p] \in overwritten \cup shared \cup dropped

\* No object is forgotten: the log of some file set names every object in the store,
\* as the object of a file or as garbage that the next mount deletes, also after a
\* crash or a failure in the middle of a call.
NoStrayObject ==
  op = Idle => \A o \in Paths \ (shared \cup dropped) :
    objs[o] # Absent => \E s \in Sets : Found(s) /\ o \in LogNames(s, LastSlot(s))
=============================================================================
