---------------------------- MODULE VersionEdit ----------------------------
(***************************************************************************)
(* The records of a MANIFEST: VersionEdit::EncodeTo and DecodeFrom, on the *)
(* varints and length-prefixed slices of coding.cc.  A caller fills an     *)
(* edit, the edit is encoded, and its bytes, or the first of them, are     *)
(* decoded into a fresh edit one field at a time.  Bytes have              *)
(* GroupBits + 1 bits, uint32_t has NarrowBits and uint64_t WideBits.      *)
(***************************************************************************)
EXTENDS Integers, Sequences, FiniteSetsExt, SequencesExt, TLC

CONSTANTS
  GroupBits, NarrowBits, WideBits,  \* 7, 32 and 64 in coding.cc
  EditLevels,                        \* config::kNumLevels
  Numbers, Sizes, Offs,             \* values of numbers, sizes and seq_off
  Names, InternalKeys,              \* comparator names and keys, as bytes
  MaxFields                         \* fields that an edit is given

VARIABLES
  edit,      \* the edit being filled
  bytes,     \* what EncodeTo appended, <<>> before it ran
  parsed     \* DecodeFrom's input, its edit, and its outcome

editVars == <<edit, bytes, parsed>>

B == 2^GroupBits

-----------------------------------------------------------------------------
(* coding.cc                                                               *)

EncodeVarint[v \in 0..2^WideBits - 1] ==
  IF v < B THEN <<v>> ELSE <<(v % B) + B>> \o EncodeVarint[v \div B]

PutVarint32(v) == EncodeVarint[v % 2^NarrowBits]

PutVarint64(v) == EncodeVarint[v % 2^WideBits]

PutLengthPrefixedSlice(s) == PutVarint32(Len(s)) \o s

NoValue == [ok |-> FALSE]

Value(v, rest) == [ok |-> TRUE, v |-> v, rest |-> rest]

(* Mutant: the loop stops one group short of the integer's width.          *)
GetVarintShort(in, bits) ==
  LET ends == {i \in 1..Len(in) : in[i] < B /\ GroupBits * i < bits}
      n == Min(ends)
  IN IF ends = {} THEN NoValue
     ELSE Value(MapThenSumSet(LAMBDA i : (in[i] % B) * 2^(GroupBits * (i - 1)), 1..n)
                  % 2^bits, SubSeq(in, n + 1, Len(in)))

(* The bytes up to the first without the continuation bit, which must come *)
(* before the shift reaches the integer's width; bits above it are lost.   *)
GetVarint(in, bits) ==
  LET ends == {i \in 1..Len(in) : in[i] < B /\ GroupBits * (i - 1) < bits}
      n == Min(ends)
  IN IF ends = {} THEN NoValue
     ELSE Value(MapThenSumSet(LAMBDA i : (in[i] % B) * 2^(GroupBits * (i - 1)), 1..n)
                  % 2^bits, SubSeq(in, n + 1, Len(in)))

GetVarint32(in) == GetVarint(in, NarrowBits)

GetVarint64(in) == GetVarint(in, WideBits)

GetLengthPrefixedSlice(in) ==
  LET len == GetVarint32(in)
  IN IF ~len.ok \/ Len(len.rest) < len.v THEN NoValue
     ELSE Value(SubSeq(len.rest, 1, len.v), SubSeq(len.rest, len.v + 1, Len(len.rest)))

-----------------------------------------------------------------------------
(* Filling an edit.  A field that may be set once is <<>> or <<value>>.    *)

Scalars == {"comparator", "log", "prevLog", "nextFile", "lastSeq"}

NewEdit == [f \in Scalars |-> <<>>]
  @@ [pointers |-> <<>>, deleted |-> {}, added |-> <<>>]

(* Clear leaves compact_pointers_ alone.                                   *)
Clear(e) == [NewEdit EXCEPT !.pointers = e.pointers]

Fields(e) ==
  Cardinality({f \in Scalars : e[f] # <<>>}) + Len(e.pointers)
    + Cardinality(e.deleted) + Len(e.added)

Filling == bytes = <<>> /\ Fields(edit) < MaxFields /\ UNCHANGED <<bytes, parsed>>

SetScalar(f, v) ==
  /\ Filling
  /\ edit' = [edit EXCEPT ![f] = <<v>>]

SetCompactPointer(level, key) ==
  /\ Filling
  /\ edit' = [edit EXCEPT !.pointers = Append(@, [level |-> level, key |-> key])]

DeleteFile(level, file) ==
  /\ Filling
  /\ edit' = [edit EXCEPT !.deleted = @ \cup {<<level, file>>}]

AddFile(level, file, size, off, smallest, largest) ==
  /\ Filling
  /\ edit' = [edit EXCEPT !.added = Append(@,
       [level |-> level, number |-> file, size |-> size, off |-> off,
        smallest |-> smallest, largest |-> largest])]

-----------------------------------------------------------------------------
(* EncodeTo                                                                *)

Tag == [comparator |-> 1, log |-> 2, nextFile |-> 3, lastSeq |-> 4,
        pointer |-> 5, deleted |-> 6, added |-> 7, prevLog |-> 9]

PutScalar(e, f) ==
  IF e[f] = <<>> THEN <<>>
  ELSE PutVarint32(Tag[f]) \o (IF f = "comparator" THEN PutLengthPrefixedSlice(e[f][1])
                               ELSE PutVarint64(e[f][1]))

PutPointer(p) ==
  PutVarint32(Tag.pointer) \o PutVarint32(p.level) \o PutLengthPrefixedSlice(p.key)

PutDeleted(d) == PutVarint32(Tag.deleted) \o PutVarint32(d[1]) \o PutVarint64(d[2])

PutNewFile(f) ==
  PutVarint32(Tag.added) \o PutVarint32(f.level) \o PutVarint64(f.number)
    \o PutVarint64(f.size) \o PutVarint64(f.off)
    \o PutLengthPrefixedSlice(f.smallest) \o PutLengthPrefixedSlice(f.largest)

Each(s, Put(_)) == FlattenSeq([i \in 1..Len(s) |-> Put(s[i])])

(* The pairs of a std::set, in its order.                                  *)
InOrder(deleted) ==
  SetToSortSeq(deleted, LAMBDA a, b : a[1] < b[1] \/ (a[1] = b[1] /\ a[2] < b[2]))

EncodeTo(e) ==
  Each(<<"comparator", "log", "prevLog", "nextFile", "lastSeq">>, LAMBDA f : PutScalar(e, f))
    \o Each(e.pointers, PutPointer) \o Each(InOrder(e.deleted), PutDeleted)
    \o Each(e.added, PutNewFile)

Encode ==
  /\ bytes = <<>>
  /\ edit # NewEdit
  /\ bytes' = EncodeTo(edit)
  /\ UNCHANGED <<edit, parsed>>

-----------------------------------------------------------------------------
(* DecodeFrom                                                              *)

GetLevel(in) ==
  LET v == GetVarint32(in) IN IF v.ok /\ v.v < EditLevels THEN v ELSE NoValue

GetOne(kind, in) ==
  CASE kind = "level" -> GetLevel(in)
    [] kind = "number" -> GetVarint64(in)
    [] kind = "slice" -> GetLengthPrefixedSlice(in)

(* The getters of a field, each on what the one before left.               *)
GetAll(kinds, in) ==
  FoldLeft(LAMBDA got, kind :
             IF ~got.ok \/ ~GetOne(kind, got.rest).ok THEN NoValue
             ELSE Value(Append(got.v, GetOne(kind, got.rest).v), GetOne(kind, got.rest).rest),
           Value(<<>>, in), kinds)

(* What DecodeFrom reads after each tag.                                   *)
Kinds(tag) ==
  CASE tag = 1 -> <<"slice">>
    [] tag \in {2, 3, 4, 9} -> <<"number">>
    [] tag = 5 -> <<"level", "slice">>
    [] tag = 6 -> <<"level", "number">>
    [] tag = 7 -> <<"level", "number", "number", "number", "slice", "slice">>

(* off, a uint64_t, assigned to the signed seq_off.                        *)
Signed(v) == IF v < 2^(WideBits - 1) THEN v ELSE v - 2^WideBits

StoreField(e, tag, v) ==
  CASE tag = 1 -> [e EXCEPT !.comparator = v]
    [] tag = 2 -> [e EXCEPT !.log = v]
    [] tag = 9 -> [e EXCEPT !.prevLog = v]
    [] tag = 3 -> [e EXCEPT !.nextFile = v]
    [] tag = 4 -> [e EXCEPT !.lastSeq = v]
    [] tag = 5 -> [e EXCEPT !.pointers = Append(@, [level |-> v[1], key |-> v[2]])]
    [] tag = 6 -> [e EXCEPT !.deleted = @ \cup {v}]
    [] tag = 7 -> [e EXCEPT !.added = Append(@,
                    [level |-> v[1], number |-> v[2], size |-> v[3], off |-> Signed(v[4]),
                     smallest |-> v[5], largest |-> v[6]])]

NotParsed == [state |-> "none"]

(* DecodeFrom's start, on the first n bytes.                               *)
StartDecode(n) ==
  /\ bytes # <<>>
  /\ parsed = NotParsed
  /\ parsed' = [state |-> "parsing", src |-> SubSeq(bytes, 1, n),
                input |-> SubSeq(bytes, 1, n), edit |-> Clear(NewEdit)]
  /\ UNCHANGED <<edit, bytes>>

(* One turn of its loop, and what follows the last one.                    *)
DecodeField ==
  /\ parsed.state = "parsing"
  /\ LET tag == GetVarint32(parsed.input)
         got == GetAll(Kinds(tag.v), tag.rest)
     IN parsed' =
          IF ~tag.ok
          THEN [parsed EXCEPT !.state = IF parsed.input = <<>> THEN "ok" ELSE "corruption"]
          ELSE IF tag.v \notin {Tag[f] : f \in DOMAIN Tag} \/ ~got.ok
          THEN [parsed EXCEPT !.state = "corruption"]
          ELSE [parsed EXCEPT !.input = got.rest,
                              !.edit = StoreField(parsed.edit, tag.v, got.v)]
  /\ UNCHANGED <<edit, bytes>>

EditInit == edit = NewEdit /\ bytes = <<>> /\ parsed = NotParsed

EditNext ==
  \/ \E name \in Names : SetScalar("comparator", name)
  \/ \E f \in Scalars \ {"comparator"}, n \in Numbers : SetScalar(f, n)
  \/ \E l \in 0..EditLevels - 1, k \in InternalKeys : SetCompactPointer(l, k)
  \/ \E l \in 0..EditLevels - 1, n \in Numbers : DeleteFile(l, n)
  \/ \E l \in 0..EditLevels - 1, n \in Numbers, z \in Sizes, o \in Offs,
        s \in InternalKeys, g \in InternalKeys : AddFile(l, n, z, o, s, g)
  \/ Encode
  \/ \E n \in 0..Len(bytes) : StartDecode(n)
  \/ DecodeField

EditSpec == EditInit /\ [][EditNext]_editVars

-----------------------------------------------------------------------------
(* Properties.                                                             *)

(* Decoding all of what EncodeTo wrote gives the edit back (the round trip *)
(* of version_edit_test.cc), at the width limits of both integer sizes and *)
(* for negative offsets too.                                               *)
RoundTrip ==
  parsed.state \in {"ok", "corruption"} /\ parsed.src = bytes =>
    parsed.state = "ok" /\ parsed.edit = edit

(* DecodeFrom takes a record cut short only where a field ends: the edit   *)
(* it then returns encodes to exactly the bytes it was given, so no field  *)
(* is made of another's bytes or of a part of its own.                     *)
CutAtField ==
  parsed.state = "ok" => EncodeTo(parsed.edit) = parsed.src
=============================================================================
