------------------------------- MODULE SSTable -------------------------------
(***************************************************************************)
(* A table file from its first Add to a reader's Get: TableBuilder         *)
(* (src/leveldb/table_builder.cc) with the index block (index_block.cc),   *)
(* the filter block (filter_block.cc, bloom.cc) and the separators of the  *)
(* comparators; the footer and block trailers (format.cc); and Table       *)
(* (table.cc) with the block cache.                                        *)
(*                                                                         *)
(* A file is a sequence of blocks, each with its offset, size, type,       *)
(* contents and whether its stored checksum still fits.  The contents of a *)
(* block are the entries put in it (module Iterators is about their        *)
(* encoding); only the sizes that steer the builder are computed.  Bytes   *)
(* are letters 0..MaxLetter.  io is the number of file operations that     *)
(* succeed before one fails.                                               *)
(***************************************************************************)
EXTENDS Integers, Sequences, FiniteSets, SequencesExt, TLC

CONSTANTS
  Nought,          \* NULL: no table, no filter, no entry
  SstUserKeys,        \* user keys: sequences of letters
  Probes,          \* user keys looked up
  MaxLetter,       \* 0xff
  SstMaxSeq,          \* the newest sequence number of an entry
  TopSeq,          \* kMaxSequenceNumber
  HashOfKey,       \* BloomHash: user keys -> 0..2^HashBits-1
  HashBits,        \* 32
  RotateBits,      \* 17
  TableOptions,    \* records [filter, bits_per_key, compression, paranoid, cache]
  BlockLimit,      \* options.block_size
  RestartEvery,    \* options.block_restart_interval
  Trailer,         \* kBlockTrailerSize
  FilterBase,      \* kFilterBase
  ByteBits,        \* 8
  MinFilterBits,   \* 64
  IoBudgets,       \* values of io
  MaxEntries,      \* bound on the entries of a table
  MaxDamage        \* bound on the damaged blocks

VARIABLES opts, b, file, io, added, rd, damaged
sstVars == <<opts, b, file, io, added, rd, damaged>>

NoHandle == [offset |-> -1, size |-> 0]

-----------------------------------------------------------------------------
(* Keys (comparator.cc, db/internal_types.cc).                             *)

BytesLess(x, y) ==
  \/ IsStrictPrefix(x, y)
  \/ \E i \in 1..Len(x) : /\ i <= Len(y)
                          /\ SubSeq(x, 1, i - 1) = SubSeq(y, 1, i - 1)
                          /\ x[i] < y[i]

IKeyLess(x, y) == BytesLess(x.u, y.u) \/ (x.u = y.u /\ x.s > y.s)

SharedLen(x, y) ==
  CHOOSE n \in 0..Len(x) :
    /\ n <= Len(y)
    /\ SubSeq(x, 1, n) = SubSeq(y, 1, n)
    /\ n < Len(x) /\ n < Len(y) => x[n + 1] # y[n + 1]

BytesSeparator(start, limit) ==
  LET d == SharedLen(start, limit) + 1
  IN IF /\ d <= Len(start) /\ d <= Len(limit)
        /\ start[d] < MaxLetter /\ start[d] + 1 < limit[d]
     THEN Append(SubSeq(start, 1, d - 1), start[d] + 1)
     ELSE start

BytesSuccessor(key) ==
  LET up == {i \in 1..Len(key) : key[i] # MaxLetter}
      i == CHOOSE n \in up : \A m \in up : n <= m
  IN IF up = {} THEN key ELSE Append(SubSeq(key, 1, i - 1), key[i] + 1)

Shortened(key, tmp) ==
  IF Len(tmp) < Len(key.u) /\ BytesLess(key.u, tmp)
  THEN [u |-> tmp, s |-> TopSeq] ELSE key

FindShortestSeparator(start, limit) ==
  Shortened(start, BytesSeparator(start.u, limit.u))

FindShortSuccessor(key) == Shortened(key, BytesSuccessor(key.u))

-----------------------------------------------------------------------------
(* Bloom filters (bloom.cc), built on user keys (InternalFilterPolicy).    *)

FilterBits(n) ==
  LET bits == IF n * opts.bits_per_key < MinFilterBits THEN MinFilterBits
              ELSE n * opts.bits_per_key
  IN ((bits + ByteBits - 1) \div ByteBits) * ByteBits

ProbeCount == IF opts.bits_per_key * 69 < 200 THEN 1 ELSE (opts.bits_per_key * 69) \div 100

Rotated(h) == (h \div 2^RotateBits) + ((h * 2^(HashBits - RotateBits)) % 2^HashBits)

ProbesOf(u, k, bits) ==
  LET h == HashOfKey[u]
  IN {((h + j * Rotated(h)) % 2^HashBits) % bits : j \in 0..(k - 1)}

(* Mutant: the last key of the range is left out. *)
CreateFilterShort(keys) ==
  LET bits == FilterBits(Len(keys))
  IN [bits |-> bits, k |-> ProbeCount,
      set |-> UNION {ProbesOf(keys[i].u, ProbeCount, bits) : i \in 1..(Len(keys) - 1)}]

CreateFilter(keys) ==
  LET bits == FilterBits(Len(keys))
  IN [bits |-> bits, k |-> ProbeCount,
      set |-> UNION {ProbesOf(keys[i].u, ProbeCount, bits) : i \in 1..Len(keys)}]

EmptyFilter == [bits |-> 0, k |-> 0, set |-> {}]

FilterMatches(u, f) == f.bits > 0 /\ ProbesOf(u, f.k, f.bits) \subseteq f.set

(* FilterBlockBuilder: one filter for every FilterBase bytes of data. *)
GenerateFilter(fb) ==
  [keys |-> <<>>,
   filters |-> Append(fb.filters, IF fb.keys = <<>> THEN EmptyFilter
                                  ELSE CreateFilter(fb.keys))]

StartBlock(fb, offset) ==
  LET todo == (offset \div FilterBase) - Len(fb.filters)
      gen[n \in 0..MaxEntries * BlockLimit] ==
        IF n = 0 THEN fb ELSE GenerateFilter(gen[n - 1])
  IN IF todo <= 0 THEN fb ELSE gen[todo]

FinishFilter(fb) == (IF fb.keys = <<>> THEN fb ELSE GenerateFilter(fb)).filters

KeyMayMatch(filters, offset, u) ==
  LET i == (offset \div FilterBase) + 1
  IN i <= Len(filters) => FilterMatches(u, filters[i])

-----------------------------------------------------------------------------
(* Blocks and file operations of the builder.                              *)

(* The bytes of entry i of a block: what its key does not share with the   *)
(* key before, three lengths and the value.                                *)
EntrySize(blk, i) ==
  LET shared == IF (i - 1) % RestartEvery = 0 THEN 0
                ELSE SharedLen(blk[i - 1].key.u, blk[i].key.u)
  IN 3 + Len(blk[i].key.u) - shared + 1

CurrentSizeEstimate(blk) ==
  LET upto[n \in 0..Len(blk)] ==
        IF n = 0 THEN 1 ELSE upto[n - 1] + EntrySize(blk, n)
  IN upto[Len(blk)] + 1 + ((Len(blk) - 1) \div RestartEvery)

(* Snappy halves every block of four bytes or more. *)
StoredSize(size, type) == IF type = "snappy" THEN size \div 2 ELSE size
TypeFor(size) ==
  IF opts.compression = "snappy" /\ size \div 2 < size - (size \div 8)
  THEN "snappy" ELSE "none"

(* The state s of a build is threaded through the file operations: the     *)
(* builder's fields, the file, and the operations left before one fails.   *)
WriteRawBlock(s, kind, body, type, size) ==
  LET stored == StoredSize(size, type)
      h == [offset |-> s.offset, size |-> stored]
  IN CASE s.io = 0 -> [s EXCEPT !.status = "IOError", !.handle = h]
       [] s.io = 1 -> [s EXCEPT !.status = "IOError", !.handle = h, !.io = 0,
                         !.file = Append(@, [kind |-> kind, offset |-> h.offset,
                            size |-> stored, type |-> type, body |-> body, sound |-> FALSE])]
       [] OTHER -> [s EXCEPT !.io = @ - 2, !.handle = h, !.offset = @ + stored + Trailer,
                      !.file = Append(@, [kind |-> kind, offset |-> h.offset,
                         size |-> stored, type |-> type, body |-> body, sound |-> TRUE])]

WriteBlock(s, kind, body, size) == WriteRawBlock(s, kind, body, TypeFor(size), size)

AddIndexEntry(s, key) == [s EXCEPT !.index = Append(@, [key |-> key, handle |-> s.pending_handle]),
                                   !.pending = FALSE]

Flush(s) ==
  IF s.status # "OK" \/ s.data = <<>> THEN s
  ELSE LET w == WriteBlock(s, "data", s.data, CurrentSizeEstimate(s.data))
           d == [w EXCEPT !.data = <<>>, !.pending_handle = w.handle]
       IN CASE d.status # "OK" -> d
            [] d.status = "OK" /\ d.io = 0 -> [d EXCEPT !.pending = TRUE, !.status = "IOError"]
            [] OTHER -> [d EXCEPT !.pending = TRUE, !.io = @ - 1,
                                  !.num_blocks = @ + 1,
                                  !.filter = IF opts.filter THEN StartBlock(@, d.offset) ELSE @]

AddEntry(s, key, val) ==
  IF s.status # "OK" THEN s
  ELSE LET p == [s EXCEPT !.props = [min |-> IF key.s < @.min THEN key.s ELSE @.min,
                                     max |-> IF key.s > @.max THEN key.s ELSE @.max,
                                     first |-> IF s.num_entries = 0 THEN key ELSE @.first,
                                     last |-> @.last]]
           i == IF p.pending THEN AddIndexEntry(p, FindShortestSeparator(p.last_key, key)) ELSE p
           e == [i EXCEPT !.filter = IF opts.filter THEN [@ EXCEPT !.keys = Append(@, key)] ELSE @,
                          !.last_key = key, !.num_entries = @ + 1,
                          !.data = Append(@, [key |-> key, val |-> val])]
       IN IF CurrentSizeEstimate(e.data) >= BlockLimit THEN Flush(e) ELSE e

WriteFilter(s) ==
  IF s.status # "OK" \/ ~opts.filter THEN s
  ELSE LET w == WriteRawBlock(s, "filter", FinishFilter(s.filter), "none", 2)
       IN [w EXCEPT !.meta = [@ EXCEPT !.filter = w.handle]]

WriteProps(s) ==
  IF s.status # "OK" THEN s
  ELSE LET p == [s EXCEPT !.props = [@ EXCEPT !.last = s.last_key]]
           w == WriteRawBlock(p, "props", p.props, "none", 2)
       IN [w EXCEPT !.meta = [@ EXCEPT !.props = w.handle]]

WriteMeta(s) ==
  IF s.status # "OK" THEN s
  ELSE LET w == WriteRawBlock(s, "meta", s.meta, "none", 2)
       IN [w EXCEPT !.metaindex_handle = w.handle]

WriteIndex(s) ==
  IF s.status # "OK" THEN s
  ELSE LET i == IF s.pending
                THEN [AddIndexEntry(s, FindShortSuccessor(s.last_key)) EXCEPT
                        !.last_key = FindShortSuccessor(s.last_key)]
                ELSE s
           w == WriteBlock(i, "index", i.index, CurrentSizeEstimate(i.index))
       IN [w EXCEPT !.index_handle = w.handle]

WriteFooter(s) ==
  CASE s.status # "OK" -> s
    [] s.status = "OK" /\ s.io = 0 -> [s EXCEPT !.status = "IOError"]
    [] OTHER -> [s EXCEPT !.io = @ - 1,
                   !.file = Append(@, [kind |-> "footer", offset |-> s.offset, size |-> 1,
                      type |-> "none", sound |-> TRUE,
                      body |-> [meta |-> s.metaindex_handle, index |-> s.index_handle]])]

Finish(s) == WriteFooter(WriteIndex(WriteMeta(WriteProps(WriteFilter(Flush(s))))))

NewBuilder ==
  [offset |-> 0, status |-> "OK", data |-> <<>>, index |-> <<>>, last_key |-> Nought,
   num_entries |-> 0, num_blocks |-> 0, closed |-> FALSE, pending |-> FALSE,
   pending_handle |-> NoHandle, handle |-> NoHandle,
   metaindex_handle |-> NoHandle, index_handle |-> NoHandle,
   meta |-> [filter |-> NoHandle, props |-> NoHandle],
   filter |-> [keys |-> <<>>, filters |-> <<>>],
   props |-> [min |-> TopSeq, max |-> 0, first |-> Nought, last |-> Nought]]

Loaded == b @@ [file |-> file, io |-> io]
Stored(s) ==
  /\ b' = [f \in DOMAIN b |-> s[f]]
  /\ file' = s.file
  /\ io' = s.io

-----------------------------------------------------------------------------
(* Reading (format.cc, table.cc).                                          *)

BlockAt(h) == SelectSeq(file, LAMBDA x : x.offset = h.offset /\ x.size = h.size)

Unreadable == [status |-> "Corruption", body |-> <<>>]

(* ReadBlock: verify is options.verify_checksums. *)
ReadBlock(h, verify) ==
  LET at == BlockAt(h)
  IN IF at = <<>> \/ (verify /\ ~Head(at).sound) THEN Unreadable
     ELSE [status |-> "OK", body |-> Head(at).body]

FooterOf == IF file # <<>> /\ Last(file).kind = "footer" /\ Last(file).sound
            THEN Last(file).body ELSE Nought

ReadMeta(footer) ==
  LET m == ReadBlock(footer.meta, opts.paranoid)
      p == ReadBlock(m.body.props, opts.paranoid)
      f == ReadBlock(m.body.filter, opts.paranoid)
      has(blk) == m.status = "OK" /\ blk.status = "OK"
  IN [props |-> IF m.status = "OK" /\ has(p) THEN p.body ELSE Nought,
      filter |-> IF m.status = "OK" /\ opts.filter /\ has(f) THEN f.body ELSE Nought]

OpenTable ==
  LET i == ReadBlock(FooterOf.index, opts.paranoid)
  IN IF FooterOf = Nought \/ i.status # "OK" THEN Nought
     ELSE [index |-> i.body, metaindex |-> FooterOf.meta, cached |-> {}] @@ ReadMeta(FooterOf)

(* The first entry of a block that is not before k, or none. *)
BlockSeekFirst(blk, k) ==
  LET at == {i \in 1..Len(blk) : ~IKeyLess(blk[i].key, k)}
  IN IF at = {} THEN Nought ELSE blk[CHOOSE i \in at : \A j \in at : i <= j]

CachedAt(t, h) == {c \in t.cached : c.offset = h.offset}

ReadCached(t, h, verify) ==
  IF CachedAt(t, h) # {}
  THEN [status |-> "OK", body |-> (CHOOSE c \in CachedAt(t, h) : TRUE).body]
  ELSE ReadBlock(h, verify)

InternalGet(t, k, verify) ==
  LET at == BlockSeekFirst(t.index, k)
  IN CASE at = Nought -> [status |-> "OK", found |-> Nought]
       [] at # Nought /\ t.filter # Nought /\ ~KeyMayMatch(t.filter, at.handle.offset, k.u) ->
            [status |-> "OK", found |-> Nought]
       [] OTHER -> LET r == ReadCached(t, at.handle, verify)
                   IN [status |-> r.status, found |-> BlockSeekFirst(r.body, k)]

ApproximateOffsetOf(t, k) ==
  LET at == BlockSeekFirst(t.index, k)
  IN IF at = Nought THEN t.metaindex.offset ELSE at.handle.offset

-----------------------------------------------------------------------------
SstInit ==
  /\ opts \in TableOptions
  /\ b = NewBuilder
  /\ file = <<>>
  /\ io \in IoBudgets
  /\ added = <<>>
  /\ rd = Nought
  /\ damaged = 0

(* Callers add keys in order: a memtable, a merge or a sorted scan. *)
Add(key) ==
  /\ ~b.closed
  /\ Len(added) < MaxEntries
  /\ added # <<>> => IKeyLess(Last(added).key, key)
  /\ added' = Append(added, [key |-> key, val |-> Len(added) + 1])
  /\ Stored(AddEntry(Loaded, key, Len(added) + 1))
  /\ UNCHANGED <<opts, rd, damaged>>

FinishTable ==
  /\ ~b.closed
  /\ Stored([Finish(Loaded) EXCEPT !.closed = TRUE])
  /\ UNCHANGED <<opts, added, rd, damaged>>

Abandon ==
  /\ ~b.closed
  /\ b' = [b EXCEPT !.closed = TRUE]
  /\ UNCHANGED <<opts, file, io, added, rd, damaged>>

Open ==
  /\ b.closed
  /\ rd = Nought
  /\ OpenTable # Nought
  /\ rd' = OpenTable
  /\ UNCHANGED <<opts, b, file, io, added, damaged>>

(* A Get puts the block it reads into the block cache. *)
Get(u) ==
  /\ rd # Nought
  /\ LET at == BlockSeekFirst(rd.index, [u |-> u, s |-> TopSeq])
     IN /\ at # Nought
        /\ CachedAt(rd, at.handle) = {}
        /\ opts.cache
        /\ rd.filter # Nought => KeyMayMatch(rd.filter, at.handle.offset, u)
        /\ LET r == ReadBlock(at.handle, TRUE)
           IN /\ r.status = "OK"
              /\ rd' = [rd EXCEPT !.cached = @ \cup {[offset |-> at.handle.offset,
                                                      body |-> r.body]}]
  /\ UNCHANGED <<opts, b, file, io, added, damaged>>

(* The medium damages a block of a finished table. *)
Damage(i) ==
  /\ b.closed
  /\ opts.paranoid
  /\ damaged < MaxDamage
  /\ file[i].sound
  /\ damaged' = damaged + 1
  /\ file' = [file EXCEPT ![i].sound = FALSE]
  /\ UNCHANGED <<opts, b, io, added, rd>>

SstNext ==
  \/ \E u \in SstUserKeys, s \in 1..SstMaxSeq : Add([u |-> u, s |-> s])
  \/ FinishTable
  \/ Abandon
  \/ Open
  \/ \E u \in Probes : Get(u)
  \/ \E i \in 1..Len(file) : Damage(i)

SstSpec == SstInit /\ [][SstNext]_sstVars

-----------------------------------------------------------------------------
(* Properties.                                                             *)

LookupKeys(probes) == {[u |-> u, s |-> s] : u \in probes, s \in 1..TopSeq}

(* An open table answers exactly (Table::InternalGet): for every user key  *)
(* and sequence number the newest entry of that user key not above the     *)
(* number, if the table was given one; otherwise nothing of that user key. *)
(* Shortened index keys, the block a filter belongs to, compression, the   *)
(* cache and damage to any block never change the answer: with checksums   *)
(* verified a damaged block gives an error, and a damaged filter or meta   *)
(* block is done without.                                                  *)
TableExact ==
  rd # Nought =>
    \A k \in LookupKeys(Probes) :
      LET r == InternalGet(rd, k, TRUE)
          want == {i \in 1..Len(added) : added[i].key.u = k.u /\ added[i].key.s <= k.s}
      IN \/ r.status # "OK" /\ damaged > 0
         \/ /\ r.status = "OK"
            /\ IF want = {} THEN r.found # Nought => r.found.key.u # k.u
               ELSE r.found = added[CHOOSE i \in want : \A j \in want : i <= j]

(* Only a finished table opens, and its properties are those of its        *)
(* entries (TableBuilder::Finish, Table::ReadProperties): a failed or      *)
(* abandoned build leaves a file without a footer, and the first and last  *)
(* key and the range of sequence numbers, by which a bulk insertion places *)
(* the table, are exact although the last key is shortened for the index.  *)
FinishedOpens ==
  /\ OpenTable # Nought => b.closed /\ b.status = "OK"
  /\ b.closed /\ b.status = "OK" /\ damaged = 0 /\ file # <<>> /\ Last(file).kind = "footer"
       => OpenTable # Nought
  /\ rd # Nought /\ rd.props # Nought /\ added # <<>> =>
       /\ rd.props.first = Head(added).key
       /\ rd.props.last = Last(added).key
       /\ \A i \in 1..Len(added) : added[i].key.s \in rd.props.min..rd.props.max
       /\ \E i, j \in 1..Len(added) : /\ added[i].key.s = rd.props.min
                                      /\ added[j].key.s = rd.props.max

(* Approximate offsets follow the keys (Table::ApproximateOffsetOf): a     *)
(* larger key never has a smaller offset, and the offset of a key is not   *)
(* past the block that holds it.                                           *)
OffsetsMonotone ==
  rd # Nought /\ rd.cached = {} /\ damaged = 0 =>
    /\ \A x, y \in LookupKeys(Probes) :
         IKeyLess(x, y) => ApproximateOffsetOf(rd, x) <= ApproximateOffsetOf(rd, y)
    /\ \A i \in 1..Len(file) : file[i].kind = "data" =>
         \A j \in 1..Len(file[i].body) :
           ApproximateOffsetOf(rd, file[i].body[j].key) = file[i].offset
=============================================================================
