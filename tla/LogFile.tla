------------------------------ MODULE LogFile ------------------------------
(***************************************************************************)
(* The log format: log::Writer on a buffered file, crashes and damage, and *)
(* log::Reader over what is left, from the start, from an offset, or       *)
(* following a file that still grows as a read-only database does with the *)
(* manifest.                                                               *)
(*                                                                         *)
(* A file is a number of bytes; the physical records in it are kept in     *)
(* phys, with their offsets, so that bytes need no values: parsing a       *)
(* header at an offset where no physical record starts finds a checksum    *)
(* that does not match.  Payloads are lengths.                             *)
(***************************************************************************)
EXTENDS Integers, Sequences, FiniteSets, SequencesExt, TLC

CONSTANTS
  BlockSize,      \* kBlockSize
  HeaderSize,     \* kHeaderSize
  Lengths,        \* the lengths of records that are written
  MaxRecords,     \* bound on the records written
  LogScenarios       \* [bufSize: buffer of the file, follow: read while it grows,
                  \*  offset: initial_offset, damage: kinds of damage, syncs: BOOLEAN]

ASSUME LogFileAssumption ==
  /\ HeaderSize \in Nat \ {0} /\ BlockSize \in Nat /\ BlockSize > HeaderSize
  /\ MaxRecords \in Nat /\ Lengths \subseteq Nat

VARIABLES
  logOpt,     \* the scenario of this behaviour
  phys,       \* the physical records emitted: [off, len, type, rec]
  appends,    \* the lengths AddRecord has yet to append to the file
  written,    \* bytes appended to the MinMaxBufferedWritableFile
  flushed,    \* its offset_: bytes appended to the base file
  synced,     \* bytes on the storage hardware
  promised,   \* records written before the last Sync that returned
  bad,        \* the damaged physical record and how, or none
  reader,     \* the log::Reader
  got         \* the records ReadRecord returned, as sequences of fragments

logVars == <<logOpt, phys, appends, written, flushed, synced, promised, bad, reader, got>>

NoDamage == [phys |-> 0, how |-> "none"]

-----------------------------------------------------------------------------
(* log::Writer.                                                            *)

Records == IF phys = <<>> THEN 0 ELSE phys[Len(phys)].rec

\* The fragments of one record of "left" bytes from block_offset_ "at" on, each
\* with the trailer that is filled before it.
RECURSIVE Fragments(_, _, _)
Fragments(at, left, begin) ==
  LET leftover == BlockSize - at
      trailer  == IF leftover < HeaderSize THEN leftover ELSE 0
      start    == IF leftover < HeaderSize THEN 0 ELSE at
      avail    == BlockSize - start - HeaderSize
      len      == IF left < avail THEN left ELSE avail
      end      == left = len
      type     == CASE begin /\ end -> "full" [] begin -> "first"
                    [] end -> "last" [] OTHER -> "middle"
      fragment == [trailer |-> trailer, len |-> len, type |-> type]
  IN IF end THEN <<fragment>>
     ELSE <<fragment>> \o Fragments(start + HeaderSize + len, left - len, FALSE)

\* The physical records of fragments fs from file offset "off" on.
RECURSIVE Placed(_, _, _)
Placed(fs, off, rec) ==
  IF fs = <<>> THEN <<>>
  ELSE LET f == Head(fs)
           start == off + f.trailer
       IN <<[off |-> start, len |-> f.len, type |-> f.type, rec |-> rec]>>
          \o Placed(Tail(fs), start + HeaderSize + f.len, rec)

\* The Append calls that emit fragments fs: trailer, header, payload.
RECURSIVE AppendsOf(_)
AppendsOf(fs) ==
  IF fs = <<>> THEN <<>>
  ELSE (IF Head(fs).trailer > 0 THEN <<Head(fs).trailer>> ELSE <<>>)
       \o <<HeaderSize, Head(fs).len>> \o AppendsOf(Tail(fs))

Writing == reader.state \in {"closed", "following"}

\* Writer::AddRecord: the fragments; their Append calls follow one by one.
AddRecord(n) ==
  /\ Writing
  /\ appends = <<>> /\ Records < MaxRecords
  /\ LET fs == Fragments(written % BlockSize, n, TRUE) IN
     /\ phys' = phys \o Placed(fs, written, Records + 1)
     /\ appends' = AppendsOf(fs)
  /\ UNCHANGED <<logOpt, written, flushed, synced, promised, bad, reader, got>>

-----------------------------------------------------------------------------
(* MinMaxBufferedWritableFile with min = max = logOpt.bufSize; no buffer:  *)
(* 0.                                                                      *)

\* MinMaxBufferedWritableFile::Append, which EmptyBuffers what it fills.
FileAppend ==
  /\ Writing
  /\ appends # <<>>
  /\ LET total == written + Head(appends) - flushed IN
     /\ written' = written + Head(appends)
     /\ flushed' = IF logOpt.bufSize = 0 THEN written'
                   ELSE flushed + (total \div logOpt.bufSize) * logOpt.bufSize
  /\ appends' = Tail(appends)
  /\ UNCHANGED <<logOpt, phys, synced, promised, bad, reader, got>>

\* Mutant: Sync asks the base file and keeps the buffer.
SyncBaseOnly ==
  /\ Writing /\ logOpt.syncs /\ appends = <<>> /\ promised < Records
  /\ synced' = flushed
  /\ promised' = Records
  /\ UNCHANGED <<logOpt, phys, appends, written, flushed, bad, reader, got>>

\* Writer::Sync: EmptyBuffer, then base_->Sync.
Sync ==
  /\ Writing /\ logOpt.syncs /\ appends = <<>> /\ promised < Records
  /\ flushed' = written
  /\ synced' = written
  /\ promised' = Records
  /\ UNCHANGED <<logOpt, phys, appends, written, bad, reader, got>>

\* EmptyBuffer, and SyncBefore(offset) for an offset not flushed yet.
EmptyBuffer ==
  /\ Writing /\ logOpt.syncs /\ appends = <<>> /\ flushed < written
  /\ flushed' = written
  /\ UNCHANGED <<logOpt, phys, appends, written, synced, promised, bad, reader, got>>

\* The writing process or its machine stops; the file is a prefix of what was
\* flushed with all that was synced, possibly damaged, and a reader opens it.
\* "crc" damage leaves the length of a physical record readable, "length" does
\* not: the length read exceeds any block.
LogCrash ==
  /\ ~logOpt.follow /\ Writing
  /\ \E size \in synced..flushed, p \in 0..Len(phys), how \in logOpt.damage :
       /\ (p = 0) = (how = "none")
       /\ p > 0 => phys[p].off + HeaderSize + phys[p].len <= size
       /\ bad' = [phys |-> p, how |-> how]
       /\ reader' = [reader EXCEPT !.state = "recovering", !.size = size]
  /\ UNCHANGED <<logOpt, phys, appends, written, flushed, synced, promised, got>>

-----------------------------------------------------------------------------
(* log::Reader.  The buffer is the n bytes of the file from "at" on; pos   *)
(* is the position of the SequentialFile, "end" is end_of_buffer_offset_.  *)

NewReader ==
  [state |-> "closed", size |-> 0, pos |-> 0,
   at |-> 0, n |-> 0, eof |-> FALSE, last |-> 0, end |-> 0, resync |-> logOpt.offset > 0,
   caught |-> FALSE, reported |-> FALSE]

\* The bytes a reader finds in the file.
FileSize == IF logOpt.follow THEN flushed ELSE reader.size

PhysAt(off) == LET S == {p \in DOMAIN phys : phys[p].off = off}
               IN IF S = {} THEN 0 ELSE CHOOSE p \in S : TRUE

\* buffer_.clear().
Clear(r) == [r EXCEPT !.at = r.at + r.n, !.n = 0]

\* ReportDrop: unsigned arithmetic, so a negative difference is huge.
ReportDrop(r, bytes) ==
  LET at == r.end - r.n - bytes
  IN [r EXCEPT !.reported = @ \/ at < 0 \/ at >= logOpt.offset]

SkipToInitialBlock(r) ==
  LET inBlock == logOpt.offset % BlockSize
      start   == logOpt.offset - inBlock +
                 (IF inBlock > BlockSize - (HeaderSize - 1) THEN BlockSize ELSE 0)
  IN [r EXCEPT !.end = start, !.pos = @ + start]

\* ReadPhysicalRecord: the new reader, the type and the physical record.
RECURSIVE ReadPhysicalRecord(_)
ReadPhysicalRecord(r) ==
  LET left == IF FileSize > r.pos THEN FileSize - r.pos ELSE 0
      read == IF left < BlockSize THEN left ELSE BlockSize
      p    == PhysAt(r.at)
      len  == phys[p].len
      rest == [r EXCEPT !.at = r.at + HeaderSize + len, !.n = r.n - HeaderSize - len]
      damaged(how) == bad.phys = p /\ bad.how = how
      Result(r2, type) == [r |-> r2, type |-> type, p |-> p]
  IN IF r.n < HeaderSize
     THEN IF r.eof THEN Result(Clear(r), "eof")
          ELSE ReadPhysicalRecord([r EXCEPT !.at = r.pos, !.n = read, !.pos = @ + read,
                                            !.end = @ + read, !.eof = read < BlockSize])
     ELSE IF p = 0 THEN Result(ReportDrop(Clear(r), r.n), "bad")
     ELSE IF HeaderSize + len > r.n \/ damaged("length")
     THEN IF r.eof THEN Result(Clear(r), "eof")
          ELSE Result(ReportDrop(Clear(r), r.n), "bad")
     ELSE IF damaged("crc") THEN Result(ReportDrop(Clear(r), r.n), "bad")
     ELSE IF rest.end - rest.n - HeaderSize - len < logOpt.offset THEN Result(rest, "bad")
     ELSE Result(rest, phys[p].type)

\* The bytes in scratch, a sequence of physical records.
RECURSIVE Bytes(_)
Bytes(scratch) == IF scratch = <<>> THEN 0 ELSE phys[Head(scratch)].len + Bytes(Tail(scratch))

\* The loop of ReadRecord; "in" is in_fragmented_record, first the prospective
\* record offset.  Returns the reader and the record, <<>> at the end.
RECURSIVE ReadFragments(_, _, _, _)
ReadFragments(r, in, scratch, first) ==
  LET got1 == ReadPhysicalRecord(r)
      type == got1.type
      len  == phys[got1.p].len
      r1   == [got1.r EXCEPT !.resync = @ /\ type = "middle"]
      off  == r1.end - r1.n - HeaderSize - len
      \* "partial record without end", unless the first fragment was empty
      r2   == IF in /\ Bytes(scratch) > 0 THEN ReportDrop(r1, Bytes(scratch)) ELSE r1
  IN CASE r.resync /\ type \in {"middle", "last"} -> ReadFragments(r1, in, scratch, first)
       [] type = "full" -> [r |-> [r2 EXCEPT !.last = off], record |-> <<got1.p>>]
       [] type = "first" -> ReadFragments(r2, TRUE, <<got1.p>>, off)
       [] type = "middle" ->
            IF in THEN ReadFragments(r1, in, Append(scratch, got1.p), first)
            ELSE ReadFragments(ReportDrop(r1, len), in, scratch, first)
       [] type = "last" ->
            IF in THEN [r |-> [r1 EXCEPT !.last = first], record |-> Append(scratch, got1.p)]
            ELSE ReadFragments(ReportDrop(r1, len), in, scratch, first)
       [] type = "eof" -> [r |-> r1, record |-> <<>>]
       [] type = "bad" ->
            ReadFragments(IF in THEN ReportDrop(r1, Bytes(scratch)) ELSE r1, FALSE, <<>>, first)

\* ReadonlyDBImpl::Load opens the manifest; Reload has the next ReadRecord clear
\* the end of file.
Load ==
  /\ logOpt.follow /\ reader.state = "closed"
  /\ reader' = [reader EXCEPT !.state = "following"]
  /\ UNCHANGED <<logOpt, phys, appends, written, flushed, synced, promised, bad, got>>

Reload ==
  /\ reader.caught /\ FileSize > reader.pos
  /\ reader' = [reader EXCEPT !.eof = FALSE, !.caught = FALSE]
  /\ UNCHANGED <<logOpt, phys, appends, written, flushed, synced, promised, bad, got>>

\* ReadRecord, in the loops of Load, Reload and recovery.
ReadRecord ==
  /\ reader.state \in {"recovering", "following"} /\ ~reader.caught
  /\ LET skipped == IF reader.last < logOpt.offset THEN SkipToInitialBlock(reader) ELSE reader
         result  == ReadFragments(skipped, FALSE, <<>>, 0)
     IN IF result.record = <<>>
        THEN /\ reader' = IF logOpt.follow THEN [result.r EXCEPT !.caught = TRUE]
                          ELSE [result.r EXCEPT !.state = "done"]
             /\ UNCHANGED got
        ELSE /\ reader' = result.r
             /\ got' = got \o <<result.record>>
  /\ UNCHANGED <<logOpt, phys, appends, written, flushed, synced, promised, bad>>

-----------------------------------------------------------------------------
LogInit ==
  /\ logOpt \in LogScenarios
  /\ phys = <<>> /\ appends = <<>>
  /\ written = 0 /\ flushed = 0 /\ synced = 0 /\ promised = 0
  /\ bad = NoDamage
  /\ reader = NewReader
  /\ got = <<>>

LogNext ==
  \/ \E n \in Lengths : AddRecord(n)
  \/ FileAppend
  \/ Sync
  \/ EmptyBuffer
  \/ LogCrash
  \/ Load
  \/ Reload
  \/ ReadRecord

LogSpec == LogInit /\ [][LogNext]_logVars

-----------------------------------------------------------------------------
FragmentsOf(rec) == SelectSeq([p \in DOMAIN phys |-> p], LAMBDA p : phys[p].rec = rec)
StartOf(rec)  == phys[FragmentsOf(rec)[1]].off
EndOf(rec)    == LET f == FragmentsOf(rec) p == f[Len(f)]
                 IN phys[p].off + HeaderSize + phys[p].len
Got(rec)      == \E i \in DOMAIN got : got[i] = FragmentsOf(rec)
Whole(rec)    == StartOf(rec) >= logOpt.offset /\ EndOf(rec) <= FileSize
BlocksOf(p)   == phys[p].off \div BlockSize

\* What ReadRecord returns is always a record that was written, whole, each
\* once and in order, also after a crash, over damage and on a growing file.
RecordsGenuine ==
  /\ \A i \in DOMAIN got : \E rec \in 1..Records : got[i] = FragmentsOf(rec)
  /\ \A i, j \in DOMAIN got : i < j => phys[got[i][1]].rec < phys[got[j][1]].rec

\* Recovery finds every record that is whole in an undamaged file and starts at
\* initial_offset or later, and so all those written before a Sync returned.
RecoveryComplete ==
  (reader.state = "done" /\ bad = NoDamage) =>
    /\ \A rec \in 1..Records : Whole(rec) => Got(rec)
    /\ \A rec \in 1..promised : StartOf(rec) >= logOpt.offset => Got(rec)

\* Damage to a physical record costs no record outside its block; and when the
\* length field is intact, a record that is lost is reported to the Reporter.
DamageContained ==
  (reader.state = "done" /\ bad # NoDamage) =>
    \A rec \in 1..Records :
      (Whole(rec) /\ ~Got(rec)) =>
        /\ \E p \in ToSet(FragmentsOf(rec)) : BlocksOf(p) = BlocksOf(bad.phys)
        /\ bad.how = "crc" => reader.reported
=============================================================================
