------------------------------- MODULE RadosIo -------------------------------
(***************************************************************************)
(* Objects in rados: connections and their reference counts                *)
(* (src/rados/rados_connmgr.cc), object stores (rados_osd.cc), and the     *)
(* files over objects (rados_comm.h, rados_comm.cc), whose writes are      *)
(* asynchronous unless force_syncio is set.                                *)
(*                                                                         *)
(* A write handle has its own io context; the operations issued through it *)
(* wait in a queue of the library, which applies them to the object in     *)
(* order and calls RadosOpCtx::IO_safe once for each.  IO_safe locks the   *)
(* mutex of the object store the handle came from.  The library is         *)
(* external: it applies an operation or fails it, and rados_aio_flush      *)
(* returns when the operations of one context have called back.            *)
(***************************************************************************)
EXTENDS Integers, Sequences, FiniteSets, SequencesExt

CONSTANTS
  Gone,         \* no object, no connection, no store
  Conns, Osds,
  Objs,         \* object names
  Handles,      \* write handles, each used once
  Careful,      \* TRUE: a store is deleted only when its handles are synced
  IoSize,       \* what one read of Copy returns at most
  BufferSizes,  \* of a handle's buffer; 0 for none
  MaxAppends,   \* bound on the appends of a handle
  MaxIoErrors   \* bound on the failed operations

VARIABLES conn, osd, fh, obj, rdr, copy, ioErrs
radosVars == <<conn, osd, fh, obj, rdr, copy, ioErrs>>

NewHandle == [osd |-> Gone, oid |-> Gone, async |-> FALSE, open |-> FALSE, used |-> FALSE,
              nrefs |-> 0, err |-> FALSE, queue |-> <<>>, sent |-> <<>>, buf |-> <<>>, limit |-> 0]

RadosInit ==
  /\ conn = [c \in Conns |-> [nrefs |-> 0, user |-> FALSE, used |-> FALSE]]
  /\ osd = [o \in Osds |-> [conn |-> Gone, alive |-> FALSE, used |-> FALSE, sync |-> FALSE]]
  /\ fh = [f \in Handles |-> NewHandle]
  /\ obj = [n \in Objs |-> Gone]
  /\ rdr = Gone
  /\ copy = Gone
  /\ ioErrs = 0

IoFails == ioErrs < MaxIoErrors /\ ioErrs' = ioErrs + 1
IoWorks == ioErrs' = ioErrs

-----------------------------------------------------------------------------
(* Connections and stores.                                                 *)

OpenConn(c) ==
  /\ ~conn[c].used
  /\ conn' = [conn EXCEPT ![c] = [nrefs |-> 1, user |-> TRUE, used |-> TRUE]]
  /\ UNCHANGED <<osd, fh, obj, rdr, copy, ioErrs>>

(* Unref: the last reference closes the connection. *)
UnrefConn(c) == [conn EXCEPT ![c].nrefs = @ - 1]

Release(c) ==
  /\ conn[c].user
  /\ conn' = [UnrefConn(c) EXCEPT ![c].user = FALSE]
  /\ UNCHANGED <<osd, fh, obj, rdr, copy, ioErrs>>

(* Mutant: the store does not take a reference of its own. *)
OpenOsdNoRef(o, c, sync) ==
  /\ ~osd[o].used
  /\ conn[c].user
  /\ osd' = [osd EXCEPT ![o] = [conn |-> c, alive |-> TRUE, used |-> TRUE, sync |-> sync]]
  /\ UNCHANGED <<conn, fh, obj, rdr, copy, ioErrs>>

OpenOsd(o, c, sync) ==
  /\ ~osd[o].used
  /\ conn[c].user
  /\ osd' = [osd EXCEPT ![o] = [conn |-> c, alive |-> TRUE, used |-> TRUE, sync |-> sync]]
  /\ conn' = [conn EXCEPT ![c].nrefs = @ + 1]
  /\ UNCHANGED <<fh, obj, rdr, copy, ioErrs>>

(* ~RadosOsd flushes the store's own context, through which it issues no   *)
(* asynchronous operation; those of its handles have contexts of theirs.   *)
Pending(o) == {f \in Handles : fh[f].osd = o /\ fh[f].queue # <<>>}

DeleteOsd(o) ==
  /\ osd[o].alive
  /\ \A f \in Handles : fh[f].osd = o => ~fh[f].open
  /\ rdr # Gone => rdr.osd # o
  /\ copy # Gone => copy.osd # o
  /\ Careful => Pending(o) = {}
  /\ osd' = [osd EXCEPT ![o].alive = FALSE]
  /\ conn' = UnrefConn(osd[o].conn)
  /\ UNCHANGED <<fh, obj, rdr, copy, ioErrs>>

-----------------------------------------------------------------------------
(* Write handles.                                                          *)

Truncate == <<>>    \* the operation that writes an empty object; the others append

Applied(o, op) == CASE op = Truncate -> <<>>
                    [] op # Truncate /\ o = Gone -> op
                    [] OTHER -> o \o op

(* Callers write an object through one handle at a time, and append to the *)
(* source of a Copy but never replace it.                                  *)
Unwritten(n) == /\ \A g \in Handles : fh[g].oid = n => ~fh[g].open /\ fh[g].queue = <<>>
                /\ copy # Gone => copy.src # n

(* The constructors truncate the object: at once, or as a queued operation *)
(* that holds a reference to the operation context.                        *)
Opened(o, n, limit) ==
  [NewHandle EXCEPT !.osd = o, !.oid = n, !.async = ~osd[o].sync, !.open = TRUE,
                    !.used = TRUE, !.nrefs = 1, !.limit = limit]

OpenForWrite(o, f, n, limit) ==
  /\ ~fh[f].used
  /\ osd[o].alive
  /\ Unwritten(n)
  /\ LET h == Opened(o, n, limit)
     IN \/ /\ h.async
           /\ fh' = [fh EXCEPT ![f] = [h EXCEPT !.nrefs = 2, !.queue = <<Truncate>>]]
           /\ IoWorks
           /\ UNCHANGED obj
        \/ /\ ~h.async
           /\ IoWorks
           /\ fh' = [fh EXCEPT ![f] = h]
           /\ obj' = [obj EXCEPT ![n] = <<>>]
        \/ /\ ~h.async
           /\ IoFails
           /\ fh' = [fh EXCEPT ![f] = [h EXCEPT !.err = TRUE]]
           /\ UNCHANGED obj

(* RadosDbEnvWrapper wraps the handles of logs and tables in a buffer      *)
(* (MinMaxBufferedWritableFile with one bound); the others have none.      *)
NewWritableObj(o, f, n, limit) == /\ OpenForWrite(o, f, n, limit)
                                  /\ UNCHANGED <<conn, osd, rdr, copy>>

(* Append of data to the object, for h, the handle after the client's part *)
(* of the call: one more operation in flight, or a call that is waited for *)
(* and whose error stays.                                                  *)
AsyncAppend(f, h, data) ==
  /\ h.async
  /\ IoWorks
  /\ fh' = [fh EXCEPT ![f] = [h EXCEPT !.nrefs = @ + 1, !.queue = Append(@, data)]]
  /\ UNCHANGED obj

SyncAppend(f, h, data) ==
  /\ ~h.async
  /\ \/ /\ IoWorks
        /\ fh' = [fh EXCEPT ![f] = h]
        /\ obj' = [obj EXCEPT ![h.oid] = Applied(@, data)]
     \/ /\ IoFails
        /\ fh' = [fh EXCEPT ![f].err = TRUE]
        /\ UNCHANGED obj

(* No more writes once an operation has failed. *)
AppendOp(f, h, data) == ~h.err /\ (AsyncAppend(f, h, data) \/ SyncAppend(f, h, data))

(* EmptyBuffer: the buffer goes to the object and is kept on an error. *)
EmptyBuffer(f, h) == AppendOp(f, [h EXCEPT !.buf = <<>>], h.buf)

Usable(f) == fh[f].open /\ (copy # Gone => copy.f # f)

AppendObj(f) ==
  /\ Usable(f)
  /\ Len(fh[f].sent) < MaxAppends
  /\ LET d == <<Len(fh[f].sent) + 1>>
         h == [fh[f] EXCEPT !.sent = @ \o d]
         b == [h EXCEPT !.buf = @ \o d]
     IN \/ h.limit = 0 /\ AppendOp(f, h, d)
        \/ /\ Len(b.buf) < b.limit
           /\ fh' = [fh EXCEPT ![f] = b]
           /\ IoWorks
           /\ UNCHANGED obj
        \/ 0 < b.limit /\ b.limit <= Len(b.buf) /\ EmptyBuffer(f, b)
  /\ UNCHANGED <<conn, osd, rdr, copy>>

(* EmptyBuffer as the first step of Sync, Close or SyncBefore. *)
EmptyObj(f) ==
  /\ Usable(f)
  /\ fh[f].buf # <<>>
  /\ EmptyBuffer(f, fh[f])
  /\ UNCHANGED <<conn, osd, rdr, copy>>

(* The library finishes the oldest operation of a handle and calls         *)
(* IO_safe, which records the first error and drops a reference.           *)
IoSafe(f) ==
  /\ fh[f].queue # <<>>
  /\ \/ /\ IoWorks
        /\ obj' = [obj EXCEPT ![fh[f].oid] = Applied(@, Head(fh[f].queue))]
        /\ fh' = [fh EXCEPT ![f].queue = Tail(@), ![f].nrefs = @ - 1]
     \/ /\ IoFails
        /\ fh' = [fh EXCEPT ![f].queue = Tail(@), ![f].nrefs = @ - 1, ![f].err = TRUE]
        /\ UNCHANGED obj
  /\ UNCHANGED <<conn, osd, rdr, copy>>

(* Mutant: Sync does not wait for the operations in flight. *)
SyncedEarly(f) == TRUE

(* rados_aio_flush returns when no operation of the handle is in flight.   *)
Flushed(f) == fh[f].queue = <<>>

(* What Sync returns once the buffer is empty; it changes nothing. *)
SyncOk(f) == fh[f].open /\ fh[f].buf = <<>> /\ Flushed(f) /\ ~fh[f].err

(* Close returns OK whatever happened; the destructor drops the handle's   *)
(* reference and leaves the operations in flight.                          *)
CloseObj(f) ==
  /\ Usable(f)
  /\ fh[f].buf = <<>> \/ fh[f].err
  /\ fh' = [fh EXCEPT ![f].open = FALSE, ![f].nrefs = @ - 1]
  /\ UNCHANGED <<conn, osd, obj, rdr, copy, ioErrs>>

-----------------------------------------------------------------------------
(* Reading: a reader made while the object is empty stays empty.           *)

(* rados_read: what the object holds from an offset on, at most n of it. *)
RadosRead(n, off, size) ==
  SubSeq(obj[n], off + 1, IF off + size < Len(obj[n]) THEN off + size ELSE Len(obj[n]))

NewReadObj(o, n) ==
  /\ rdr = Gone
  /\ osd[o].alive
  /\ obj[n] # Gone
  /\ rdr' = [osd |-> o, oid |-> n, empty |-> obj[n] = <<>>, off |-> 0,
             got |-> <<>>, had |-> obj[n], whole |-> TRUE, eof |-> FALSE]
  /\ UNCHANGED <<conn, osd, fh, obj, copy, ioErrs>>

ReadObj ==
  /\ rdr # Gone
  /\ ~rdr.eof
  /\ obj[rdr.oid] # Gone
  /\ LET more == IF rdr.empty THEN <<>>
                 ELSE RadosRead(rdr.oid, rdr.off, 1)
     IN rdr' = [rdr EXCEPT !.off = @ + Len(more), !.got = @ \o more, !.eof = more = <<>>,
                           !.whole = @ /\ IsPrefix(rdr.had, obj[rdr.oid])]
  /\ UNCHANGED <<conn, osd, fh, obj, copy, ioErrs>>

EndRead ==
  /\ rdr # Gone
  /\ rdr' = Gone
  /\ UNCHANGED <<conn, osd, fh, obj, copy, ioErrs>>

DeleteObj(o, n) ==
  /\ osd[o].alive
  /\ Unwritten(n)
  /\ obj[n] # Gone
  /\ obj' = [obj EXCEPT ![n] = Gone]
  /\ UNCHANGED <<conn, osd, fh, rdr, copy, ioErrs>>

Put(o, n) ==
  /\ osd[o].alive
  /\ Unwritten(n)
  /\ obj' = [obj EXCEPT ![n] = <<1>>]
  /\ UNCHANGED <<conn, osd, fh, rdr, copy, ioErrs>>

-----------------------------------------------------------------------------
(* Copy: size, a handle on the target, reads and appends, Sync.            *)

StartCopy(o, f, src, dst) ==
  /\ copy = Gone
  /\ src # dst
  /\ obj[src] # Gone
  /\ \A g \in Handles : fh[g].oid = src => Truncate \notin Range(fh[g].queue)
  /\ OpenForWrite(o, f, dst, 0)
  /\ copy' = [osd |-> o, f |-> f, src |-> src, left |-> Len(obj[src]), off |-> 0,
              from |-> obj[src], result |-> "busy"]
  /\ UNCHANGED <<conn, osd, rdr>>

CopyEnds(result) ==
  /\ copy' = [copy EXCEPT !.result = result]
  /\ fh' = [fh EXCEPT ![copy.f].open = FALSE, ![copy.f].nrefs = @ - 1]
  /\ UNCHANGED obj

Busy == copy # Gone /\ copy.result = "busy"

(* One turn of the loop: a read of what is there, and its Append.  A source *)
(* that grows makes left negative, and the loop goes on to its new end.    *)
CopyStep ==
  /\ Busy
  /\ copy.left # 0
  /\ IF obj[copy.src] = Gone \/ fh[copy.f].err
     THEN CopyEnds("error") /\ IoWorks
     ELSE LET more == RadosRead(copy.src, copy.off, IoSize)
          IN \/ /\ more = <<>>                       \* the source became shorter
                /\ copy' = [copy EXCEPT !.left = 0]   \* break
                /\ IoWorks
                /\ UNCHANGED <<fh, obj>>
             \/ /\ more # <<>>
                /\ AppendOp(copy.f, [fh[copy.f] EXCEPT !.sent = @ \o more], more)
                /\ copy' = IF fh'[copy.f].err THEN copy
                           ELSE [copy EXCEPT !.left = @ - Len(more), !.off = @ + Len(more)]
  /\ UNCHANGED <<conn, osd, rdr>>

CopySync ==
  /\ Busy
  /\ copy.left = 0
  /\ Flushed(copy.f)
  /\ CopyEnds(IF fh[copy.f].err THEN "error" ELSE "ok")
  /\ IoWorks
  /\ UNCHANGED <<conn, osd, rdr>>

EndCopy ==
  /\ copy # Gone
  /\ copy.result # "busy"
  /\ copy' = Gone
  /\ UNCHANGED <<conn, osd, fh, obj, rdr, ioErrs>>

RadosNext ==
  \/ \E c \in Conns : OpenConn(c) \/ Release(c)
  \/ \E o \in Osds :
       \/ \E c \in Conns, s \in BOOLEAN : OpenOsd(o, c, s)
       \/ DeleteOsd(o)
       \/ \E n \in Objs : NewReadObj(o, n) \/ DeleteObj(o, n) \/ Put(o, n)
       \/ \E f \in Handles, n \in Objs, l \in BufferSizes : NewWritableObj(o, f, n, l)
       \/ \E f \in Handles, n, m \in Objs : StartCopy(o, f, n, m)
  \/ \E f \in Handles : AppendObj(f) \/ EmptyObj(f) \/ IoSafe(f) \/ CloseObj(f)
  \/ ReadObj \/ EndRead
  \/ CopyStep \/ CopySync \/ EndCopy

RadosSpec == RadosInit /\ [][RadosNext]_radosVars

-----------------------------------------------------------------------------
(* Properties.                                                             *)

(* A Sync that returns OK is right (rados_comm.h, Sync and IO_safe):       *)
(* whenever Sync of a handle would return OK, the object holds all that    *)
(* was appended through the handle, in order and from the truncation on;   *)
(* one failed operation among others that were applied is never forgotten. *)
SyncIsDurable == \A f \in Handles : SyncOk(f) => obj[fh[f].oid] = fh[f].sent

(* The same for Copy (rados_osd.cc): when Copy returns OK the target holds *)
(* what the source held when Copy started and nothing the source does not  *)
(* hold, even if the source was appended to between two reads.             *)
CopyIsExact ==
  [][Busy /\ copy'.result = "ok"
       => LET target == obj[fh[copy.f].oid]
          IN target # Gone /\ IsPrefix(copy.from, target) /\ IsPrefix(target, obj[copy.src])]_radosVars

(* Nothing is used after it is gone: a store's connection is open as long  *)
(* as the store lives, a connection is closed exactly when nobody holds it *)
(* (rados_connmgr.cc), and the operation context of a handle lives as long *)
(* as the handle or an operation needs it (RadosOpCtx).                    *)
HeldIsAlive ==
  /\ \A c \in Conns : conn[c].nrefs = (IF conn[c].user THEN 1 ELSE 0)
                        + Cardinality({o \in Osds : osd[o].alive /\ osd[o].conn = c})
  /\ \A f \in Handles : fh[f].used =>
       fh[f].nrefs = (IF fh[f].open THEN 1 ELSE 0) + Len(fh[f].queue)

(* A reader misses nothing (rados_osd.cc, NewSequentialObj): when it meets *)
(* the end of an object that was only appended to, it has returned at      *)
(* least what was there when it was opened.                                *)
ReadersComplete == rdr # Gone /\ rdr.eof /\ rdr.whole => IsPrefix(rdr.had, rdr.got)
=============================================================================
