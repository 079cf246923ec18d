----------------------------- MODULE PosixFiles -----------------------------
(***************************************************************************)
(* Files of PosixEnv on a machine that may crash.  Tables are written,     *)
(* synced and closed, and then named by a record of the manifest; a file's *)
(* data passes through the buffer of libc (PosixBufferedWritableFile) or   *)
(* not (PosixWritableFile), the page cache, and reaches the disk on        *)
(* fdatasync or when the kernel chooses.  A name is durable once its       *)
(* directory is: only the Sync of a MANIFEST sees to that.  A table may    *)
(* also be copied, by Copy or, on Linux, by FastCopy.                      *)
(***************************************************************************)
EXTENDS Integers, Sequences, FiniteSets

CONSTANTS
  Tables,      \* tables that are written
  Descriptor,    \* the descriptor's name
  Target,      \* the name a table is copied to
  TableSize,   \* blocks of a table
  MaxFaults    \* calls that fail

ASSUME FilesAssumption ==
  /\ Descriptor \notin Tables /\ Target \notin Tables \cup {Descriptor}
  /\ TableSize \in Nat

VARIABLES
  build,       \* which writable files and which copy the build uses
  media,       \* per file: name, libc buffer, page cache, durable prefix
  writer,      \* per file: how far its writer is
  committed,   \* tables named in a manifest whose Sync returned OK
  copying,     \* the copy under way
  faults       \* calls that failed so far

fileVars == <<build, media, writer, committed, copying, faults>>

Written == Tables \cup {Descriptor}

EmptyFile(name) == [name |-> name, buf |-> <<>>, cache |-> <<>>, durable |-> 0]

NoName == EmptyFile("none")

NoCopy == [state |-> "none"]

FilesInit ==
  /\ build \in [buffered : BOOLEAN, linux : BOOLEAN]
  /\ media = [f \in Written \cup {Target} |-> NoName]
  /\ writer = [f \in Written |-> "none"]
  /\ committed = {}
  /\ copying = NoCopy
  /\ faults = 0

Running == writer[Descriptor] # "crashed"

(* A call on f: it does what it does to media[f], or it fails, after which *)
(* its writer gives the file up.                                           *)
Call(f, from, to, d) ==
  /\ Running
  /\ writer[f] = from
  /\ \/ /\ writer' = [writer EXCEPT ![f] = to]
        /\ media' = [media EXCEPT ![f] = d]
        /\ UNCHANGED faults
     \/ /\ faults < MaxFaults
        /\ faults' = faults + 1
        /\ writer' = [writer EXCEPT ![f] = "failed"]
        /\ UNCHANGED media
  /\ UNCHANGED <<build, copying>>

NewWritableFile(f) ==
  /\ Call(f, "none", "open", EmptyFile("cached"))
  /\ UNCHANGED committed

BufferedAppend(d, block) == [d EXCEPT !.buf = Append(d.buf, block)]

PlainAppend(d, block) == [d EXCEPT !.cache = Append(d.cache, block)]

AppendBlock(f, block) ==
  /\ Call(f, "open", "open", IF build.buffered THEN BufferedAppend(media[f], block)
                             ELSE PlainAppend(media[f], block))
  /\ UNCHANGED committed

Flushed(d) ==
  [name |-> d.name, buf |-> <<>>, cache |-> d.cache \o d.buf, durable |-> d.durable]

(* Flush; fwrite does the same whenever libc's buffer is full.             *)
FlushBuffer(f) ==
  /\ media[f].buf # <<>>
  /\ Call(f, "open", "open", Flushed(media[f]))
  /\ UNCHANGED committed

Filled(f) == f \in Tables => Len(media[f].buf \o media[f].cache) = TableSize

(* Mutant: the directory is left alone.                                    *)
SyncDirNever(f) ==
  /\ Running
  /\ f = Descriptor /\ writer[f] = "open"
  /\ writer' = [writer EXCEPT ![f] = "dirSynced"]
  /\ UNCHANGED <<build, media, committed, copying, faults>>

(* Sync's first half, SyncDirIfManifest: every name becomes durable.       *)
SyncDirIfManifest(f) ==
  /\ Running
  /\ f = Descriptor /\ writer[f] = "open"
  /\ \/ /\ writer' = [writer EXCEPT ![f] = "dirSynced"]
        /\ media' = [g \in DOMAIN media |->
                      IF media[g].name = "none" THEN media[g]
                      ELSE [media[g] EXCEPT !.name = "durable"]]
        /\ UNCHANGED faults
     \/ /\ faults < MaxFaults
        /\ faults' = faults + 1
        /\ writer' = [writer EXCEPT ![f] = "failed"]
        /\ UNCHANGED media
  /\ UNCHANGED <<build, committed, copying>>

(* Sync's second half: fflush and fdatasync.                               *)
SyncData(f) ==
  LET d == Flushed(media[f])
  IN /\ Filled(f)
     /\ IF f = Descriptor THEN Call(f, "dirSynced", "open", [d EXCEPT !.durable = Len(d.cache)])
        ELSE Call(f, "open", "synced", [d EXCEPT !.durable = Len(d.cache)])
     /\ committed' = IF f = Descriptor /\ writer'[f] = "open"
                     THEN committed \cup {d.cache[i] : i \in 1..Len(d.cache)} ELSE committed

CloseFile(f) ==
  /\ Call(f, "synced", "closed", Flushed(media[f]))
  /\ UNCHANGED committed

(* LogAndApply: a record that names a finished table.                      *)
LogTable(t) ==
  /\ writer[t] = "closed"
  /\ \A i \in 1..Len(media[Descriptor].buf \o media[Descriptor].cache) :
       (media[Descriptor].cache \o media[Descriptor].buf)[i] # t
  /\ AppendBlock(Descriptor, t)

(* The kernel writes back a name, or data of a file, unasked.              *)
Writeback(f) ==
  /\ Running
  /\ \/ /\ media[f].name = "cached"
        /\ media' = [media EXCEPT ![f] = [@ EXCEPT !.name = "durable"]]
     \/ /\ media[f].durable < Len(media[f].cache)
        /\ media' = [media EXCEPT ![f] = [@ EXCEPT !.durable = media[f].durable + 1]]
  /\ UNCHANGED <<build, writer, committed, copying, faults>>

(* What a crash leaves of a file.                                          *)
AfterCrash(d) ==
  IF d.name # "durable" THEN NoName
  ELSE [name |-> "durable", buf |-> <<>>, cache |-> SubSeq(d.cache, 1, d.durable),
        durable |-> d.durable]

Crash ==
  /\ Running
  /\ media' = [f \in DOMAIN media |-> AfterCrash(media[f])]
  /\ writer' = [f \in Written |-> "crashed"]
  /\ copying' = NoCopy
  /\ UNCHANGED <<build, committed, faults>>

-----------------------------------------------------------------------------
(* CopyFile: both descriptors are opened, then one block at a time.        *)

StartCopy(t) ==
  /\ Running /\ copying = NoCopy
  /\ writer[t] = "closed"
  /\ copying' = [state |-> "copying", src |-> t, fault |-> FALSE]
  /\ media' = [media EXCEPT ![Target] = EmptyFile("cached")]
  /\ UNCHANGED <<build, writer, committed, faults>>

(* FastCopy's loop ends on an error of splice as it does at the end.       *)
FastCopyFault == "ok"

(* One turn of the loop.  Copy returns the error of a read or a write.     *)
CopyBlock ==
  LET src == media[copying.src].cache
      n == Len(media[Target].cache)
  IN /\ Running /\ copying.state = "copying"
     /\ \/ /\ n < Len(src)
           /\ media' = [media EXCEPT ![Target] = PlainAppend(media[Target], src[n + 1])]
           /\ UNCHANGED <<copying, faults>>
        \/ /\ n = Len(src)
           /\ copying' = [copying EXCEPT !.state = "ok"]
           /\ UNCHANGED <<media, faults>>
        \/ /\ faults < MaxFaults
           /\ faults' = faults + 1
           /\ copying' = [copying EXCEPT !.state = IF build.linux THEN FastCopyFault ELSE "error",
                                         !.fault = TRUE]
           /\ UNCHANGED media
     /\ UNCHANGED <<build, writer, committed>>

FilesNext ==
  \/ \E f \in Written : \/ NewWritableFile(f) \/ FlushBuffer(f)
                        \/ SyncDirIfManifest(f) \/ SyncData(f) \/ CloseFile(f)
  \/ \E t \in Tables : \/ ~Filled(t) /\ AppendBlock(t, Len(media[t].buf \o media[t].cache) + 1)
                       \/ LogTable(t) \/ StartCopy(t)
  \/ \E f \in DOMAIN media : Writeback(f)
  \/ CopyBlock
  \/ Crash

FilesSpec == FilesInit /\ [][FilesNext]_fileVars

-----------------------------------------------------------------------------
(* Properties.                                                             *)

Whole(f) == media[f].cache = [i \in 1..TableSize |-> i]

(* "Ensure new files referred to by the manifest are in the file system"   *)
(* (Sync of a MANIFEST): after a crash, whatever the kernel had written    *)
(* back and whichever calls had failed, a manifest once synced still names *)
(* its tables, and they are there with all their blocks.                   *)
CommittedSurvives ==
  ~Running => \A t \in committed :
    /\ \E i \in 1..Len(media[Descriptor].cache) : media[Descriptor].cache[i] = t
    /\ Whole(t)

(* A copy that returns OK is whole ("Return OK on success, or a non-OK     *)
(* status on errors", posix_filecopy.cc); for FastCopy only when no splice *)
(* failed, since it reports none of their errors.                          *)
CopyReported ==
  copying.state = "ok" /\ (build.linux => ~copying.fault) => Whole(Target)

(* The tables that a synced MANIFEST names are whole after a crash, and a  *)
(* copy that returned OK is whole (posix_env.cc, posix_filecopy.cc).       *)
FilesSurvive == CommittedSurvives /\ CopyReported
=============================================================================
