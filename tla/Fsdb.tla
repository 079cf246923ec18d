-------------------------------- MODULE Fsdb --------------------------------
(***************************************************************************)
(* The file system name space kept in the key-value store: MXDB of         *)
(* include/pdlfs-common/fsdb0.h over the keys of src/fsdbbase.cc and the   *)
(* Stat encoding of src/fstypes.cc.  MXDB is a set of templates; the build *)
(* flag (TABLEFS, INDEXFS, DELTAFS, DELTAFS_PROTO) selects the key layout  *)
(* and the value format, and the variable build ranges over the four.     *)
(*                                                                         *)
(* The store itself (the template parameter DX) is external here: a map    *)
(* with atomic batches, snapshots and iterators that see the map as it was *)
(* when they were made.  Bytes are abstracted to small integers: a         *)
(* big-endian word is one integer, so the order of words is the order of   *)
(* integers, and a file name is a sequence of letters.                     *)
(*                                                                         *)
(* ns is a history variable: the directories as the completed operations   *)
(* left them, indexed by directory and name and not by key.  ret is what   *)
(* the last step returned, when it was a read; a read changes nothing      *)
(* else, so reads that follow a read directly are left out.                *)
(***************************************************************************)
EXTENDS Integers, Sequences, FiniteSets, SequencesExt

CONSTANTS
  Nil,          \* NULL: no entry, no transaction, no snapshot, no directory
  Builds,       \* subset of {"tablefs", "indexfs", "deltafs", "deltafs_proto"}
  DirIds,       \* records [dno, reg, snap, ino], every field a number
  FileNames,    \* file names: non-empty sequences of letters
  FileStats,    \* Stat records: functions from the fields of Stat to numbers
  NameHash,     \* DirIndex::Hash: FileNames -> numbers
  Junk,         \* values the uninitialised suffix of a key may have
  Users,        \* threads that share the MXDB
  Readers,      \* those of them that read and use transactions
  InoBits,      \* 56: bits of an inode number that fit in a key
  TypeBits,     \* 8: bits of a key type
  VarintBase,   \* 128: values of one byte of a varint
  ScanIn,       \* builds in which directories are read with OPENDIR
  MaxOps,       \* bound on the updates and transactions of all users
  MaxDbErrors   \* bound on the errors of the store

VARIABLES build, db, ns, tx, dir, ret, ops, errors
fsVars == <<build, db, ns, tx, dir, ret, ops, errors>>

kDirEntType == 1
kDirIdxType == 2

FixedKeys == build \in {"indexfs", "deltafs"}
NameInKey == ~FixedKeys

-----------------------------------------------------------------------------
(* Keys (src/fsdbbase.cc).                                                 *)

EncodeVarint[v \in Nat] ==
  IF v < VarintBase THEN <<v>>
  ELSE <<(v % VarintBase) + VarintBase>> \o EncodeVarint[v \div VarintBase]

Composite(ino, type) ==
  ((ino * 2^TypeBits) + (type % 2^TypeBits)) % 2^(InoBits + TypeBits)

PackPrefix(id, type) ==
  CASE build = "deltafs" -> EncodeVarint[id.reg] \o EncodeVarint[id.snap]
                              \o EncodeVarint[id.ino] \o <<type>>
    [] build = "deltafs_proto" -> <<id.dno, Composite(id.ino, type)>>
    [] OTHER -> <<Composite(id.ino, type)>>

SuffixOf(n) == IF FixedKeys THEN <<NameHash[n]>> ELSE n

EntryKey(id, n) == PackPrefix(id, kDirEntType) \o SuffixOf(n)

(* The key made by the constructor, before a suffix is set: data() and     *)
(* size() of a fixed-size key include the suffix bytes, which the          *)
(* constructor leaves as they were.                                        *)
BareKeys(id) ==
  IF FixedKeys THEN {PackPrefix(id, kDirEntType) \o <<j>> : j \in Junk}
  ELSE {PackPrefix(id, kDirEntType)}

KeyPrefix(k) == IF FixedKeys THEN SubSeq(k, 1, Len(k) - 1)
                ELSE IF build = "deltafs_proto" THEN SubSeq(k, 1, 2)
                ELSE SubSeq(k, 1, 1)

(* Slice::compare: bytewise, a proper prefix comes first. *)
KeyLess(x, y) ==
  \/ IsStrictPrefix(x, y)
  \/ \E i \in 1..Len(x) : /\ i <= Len(y)
                          /\ SubSeq(x, 1, i - 1) = SubSeq(y, 1, i - 1)
                          /\ x[i] < y[i]

-----------------------------------------------------------------------------
(* Values (src/fstypes.cc, PUT and GET).                                   *)

FieldOrder ==
  (CASE build = "deltafs_proto" -> <<"dno">>
     [] build = "deltafs" -> <<"reg", "snap">>
     [] OTHER -> <<>>)
  \o <<"ino", "size", "mode">>
  \o (IF build = "tablefs" THEN <<>> ELSE <<"zserver">>)
  \o <<"uid", "gid", "mtime", "ctime">>

EncodeStat(st) == [i \in 1..Len(FieldOrder) |-> st[FieldOrder[i]]]

StatParses(input) == Len(input) >= Len(FieldOrder)

DecodeStat(input) ==
  [f \in {FieldOrder[i] : i \in 1..Len(FieldOrder)} |->
     input[CHOOSE i \in 1..Len(FieldOrder) : FieldOrder[i] = f]]

Kept(st) == DecodeStat(EncodeStat(st))    \* the fields this build stores

EncodeValue(st, n) ==
  IF NameInKey THEN EncodeStat(st) ELSE EncodeStat(st) \o <<Len(n)>> \o n

NameParses(input) ==
  LET rest == SubSeq(input, Len(FieldOrder) + 1, Len(input))
  IN rest # <<>> /\ Len(rest) - 1 >= rest[1]

NameFromValue(input) ==
  LET rest == SubSeq(input, Len(FieldOrder) + 1, Len(input))
  IN SubSeq(rest, 2, rest[1] + 1)

-----------------------------------------------------------------------------
(* The store, external: a map from keys to values.                         *)

DbGet(m, k) == IF k \in DOMAIN m THEN m[k] ELSE Nil
DbPut(m, k, v) == [x \in DOMAIN m \cup {k} |-> IF x = k THEN v ELSE m[x]]
DbDelete(m, k) == [x \in DOMAIN m \ {k} |-> m[x]]
DbApply(m, op) == IF op.val = Nil THEN DbDelete(m, op.key)
                  ELSE DbPut(m, op.key, op.val)
DbWrite(m, bat) == FoldSeq(LAMBDA op, acc : DbApply(acc, op), m, Reverse(bat))

(* NewIterator and Seek: the pairs from target on, in key order. *)
SeekFrom(m, target) ==
  LET ks == SetToSortSeq({k \in DOMAIN m : ~KeyLess(k, target)}, KeyLess)
  IN [i \in 1..Len(ks) |-> <<ks[i], m[ks[i]]>>]

NsApply(m, op) == [m EXCEPT ![op.at] = op.st]
NsWrite(m, bat) == FoldSeq(LAMBDA op, acc : NsApply(acc, op), m, Reverse(bat))

(* Other records of a directory (index, partition metadata) sit in the     *)
(* same store under the same inode number.                                 *)
OtherKey(id) == PackPrefix(id, kDirIdxType) \o (IF FixedKeys THEN <<0>> ELSE <<>>)

-----------------------------------------------------------------------------
FsInit ==
  /\ build \in Builds
  /\ db = [k \in {OtherKey(id) : id \in DirIds} |-> <<0>>]
  /\ ns = [x \in DirIds \X FileNames |-> Nil]
  /\ tx = [u \in Users |-> Nil]
  /\ dir = [u \in Users |-> Nil]
  /\ ret = Nil
  /\ ops = 0
  /\ errors = 0

Op == ops < MaxOps /\ ops' = ops + 1
Fail == errors < MaxDbErrors /\ errors' = errors + 1
Fine == errors' = errors

(* What a read of u sees: the snapshot of its transaction if that has one, *)
(* the store as it is otherwise.  The transaction's own batch is not read. *)
ViewOf(u) == IF tx[u] # Nil /\ tx[u].snap # Nil THEN tx[u].snap ELSE db
NsView(u) == IF tx[u] # Nil /\ tx[u].snap # Nil THEN tx[u].nsnap ELSE ns

STARTTX(u, with_snapshot) ==
  /\ tx[u] = Nil
  /\ Op
  /\ tx' = [tx EXCEPT ![u] = [snap |-> IF with_snapshot THEN db ELSE Nil,
                              nsnap |-> IF with_snapshot THEN ns ELSE Nil,
                              bat |-> <<>>]]
  /\ UNCHANGED <<build, db, ns, dir, errors>>
  /\ ret' = Nil

(* PUT and DELETE: into the batch of the transaction, or at once. *)
Update(u, op) ==
  \/ /\ tx[u] # Nil
     /\ tx' = [tx EXCEPT ![u].bat = Append(@, op)]
     /\ UNCHANGED <<db, ns, errors>>
  \/ /\ tx[u] = Nil
     /\ Fine
     /\ db' = DbApply(db, op)
     /\ ns' = NsApply(ns, op)
     /\ UNCHANGED tx
  \/ /\ tx[u] = Nil
     /\ Fail
     /\ UNCHANGED <<db, ns, tx>>

PUT(u, id, n, st) ==
  /\ Op
  /\ Update(u, [key |-> EntryKey(id, n), val |-> EncodeValue(st, n),
                at |-> <<id, n>>, st |-> Kept(st)])
  /\ UNCHANGED <<build, dir>>
  /\ ret' = Nil

DELETE(u, id, n) ==
  /\ Op
  /\ Update(u, [key |-> EntryKey(id, n), val |-> Nil,
                at |-> <<id, n>>, st |-> Nil])
  /\ UNCHANGED <<build, dir>>
  /\ ret' = Nil

(* The result of GET for the value the store returned. *)
GetResult(v, n) ==
  CASE v = Nil -> [status |-> "NotFound"]
    [] v # Nil /\ ~StatParses(v) -> [status |-> "Corruption"]
    [] v # Nil /\ StatParses(v) /\ NameInKey ->
         [status |-> "OK", stat |-> DecodeStat(v), name |-> n]
    [] v # Nil /\ StatParses(v) /\ ~NameInKey /\ ~NameParses(v) ->
         [status |-> "Corruption"]
    [] OTHER -> [status |-> "OK", stat |-> DecodeStat(v), name |-> NameFromValue(v)]

GET(u, id, n) ==
  /\ ret = Nil
  /\ \/ /\ Fine
        /\ ret' = [op |-> "GET", want |-> NsView(u)[<<id, n>>],
                     name |-> n, res |-> GetResult(DbGet(ViewOf(u), EntryKey(id, n)), n)]
     \/ /\ Fail
        /\ ret' = [op |-> "GET", want |-> NsView(u)[<<id, n>>],
                                      name |-> n, res |-> [status |-> "IOError"]]
  /\ UNCHANGED <<build, db, ns, tx, dir, ops>>

EXISTS(u, id, n) ==
  /\ ret = Nil
  /\ \/ /\ Fine
        /\ ret' = [op |-> "EXISTS", want |-> NsView(u)[<<id, n>>],
                     name |-> n, res |-> [status |->
                       IF DbGet(ViewOf(u), EntryKey(id, n)) = Nil THEN "NotFound"
                       ELSE "OK"]]
     \/ /\ Fail
        /\ ret' = [op |-> "EXISTS", want |-> NsView(u)[<<id, n>>],
                                      name |-> n, res |-> [status |-> "IOError"]]
  /\ UNCHANGED <<build, db, ns, tx, dir, ops>>

(* COMMIT writes the batch and keeps it: only RELEASE ends a transaction.  *)
COMMIT(u) ==
  /\ tx[u] # Nil
  /\ Op
  /\ \/ /\ Fine
        /\ db' = DbWrite(db, tx[u].bat)
        /\ ns' = NsWrite(ns, tx[u].bat)
     \/ /\ Fail
        /\ UNCHANGED <<db, ns>>
  /\ UNCHANGED <<build, tx, dir>>
  /\ ret' = Nil

RELEASE(u) ==
  /\ tx[u] # Nil
  /\ tx' = [tx EXCEPT ![u] = Nil]
  /\ UNCHANGED <<build, db, ns, dir, ops, errors>>
  /\ ret' = Nil

-----------------------------------------------------------------------------
(* Directory scans.                                                        *)

(* A name and its stat from a pair of the store, the key starting with p.  *)
EntryParses(pair) ==
  StatParses(pair[2]) /\ (NameInKey \/ NameParses(pair[2]))

EntryOf(pair, p) ==
  [stat |-> DecodeStat(pair[2]),
   name |-> IF NameInKey THEN SubSeq(pair[1], Len(p) + 1, Len(pair[1]))
            ELSE NameFromValue(pair[2])]

OPENDIR(u, id) ==
  /\ build \in ScanIn
  /\ dir[u] = Nil
  /\ \E p \in BareKeys(id) :
       dir' = [dir EXCEPT ![u] = [key_prefix |-> p, iter |-> SeekFrom(ViewOf(u), p),
                                  n |-> 0, out |-> <<>>, last |-> "OK", bad |-> FALSE,
                                  id |-> id, want |-> NsView(u)]]
  /\ UNCHANGED <<build, db, ns, tx, ops, errors>>
  /\ ret' = Nil

(* Mutant: the end of the directory is not looked for. *)
ReadStatusNoEnd(d) ==
  IF d.bad THEN "IOError"
  ELSE IF d.iter = <<>> THEN "NotFound"
  ELSE IF ~EntryParses(Head(d.iter)) THEN "Corruption" ELSE "OK"

(* The status READDIR returns, in the order of its checks. *)
ReadStatus(d) ==
  CASE d.bad -> "IOError"
    [] ~d.bad /\ d.iter = <<>> -> "NotFound"
    [] ~d.bad /\ d.iter # <<>> /\ ~IsPrefix(d.key_prefix, Head(d.iter)[1]) -> "NotFound"
    [] ~d.bad /\ d.iter # <<>> /\ IsPrefix(d.key_prefix, Head(d.iter)[1])
         /\ ~EntryParses(Head(d.iter)) -> "Corruption"
    [] OTHER -> "OK"

READDIR(u) ==
  /\ dir[u] # Nil
  /\ dir[u].last = "OK"
  /\ LET d == dir[u]
         s == ReadStatus(d)
     IN dir' = [dir EXCEPT ![u] =
          IF s = "OK"
          THEN [d EXCEPT !.iter = Tail(@), !.n = @ + 1, !.last = s,
                         !.out = Append(@, EntryOf(Head(d.iter), d.key_prefix))]
          ELSE [d EXCEPT !.last = s]]
  /\ UNCHANGED <<build, db, ns, tx, ops, errors>>
  /\ ret' = Nil

(* The iterator meets an error while it moves: it is no longer valid. *)
IterError(u) ==
  /\ dir[u] # Nil
  /\ dir[u].last = "OK"
  /\ ~dir[u].bad
  /\ Fail
  /\ dir' = [dir EXCEPT ![u].bad = TRUE]
  /\ UNCHANGED <<build, db, ns, tx, ops>>
  /\ ret' = Nil

CLOSEDIR(u) ==
  /\ dir[u] # Nil
  /\ dir' = [dir EXCEPT ![u] = Nil]
  /\ UNCHANGED <<build, db, ns, tx, ops, errors>>
  /\ ret' = Nil

(* LIST in one call: the entries up to the first that is not of the        *)
(* directory, does not parse or exceeds the limit; cut is where the        *)
(* iterator met an error, and LIST does not look at its status.            *)
Listed(pairs, p, limit) ==
  LET ok(i) == IsPrefix(p, pairs[i][1]) /\ EntryParses(pairs[i])
      stop == {i \in 1..Len(pairs) : ~ok(i)} \cup {Len(pairs) + 1, limit + 1}
      end == CHOOSE i \in stop : \A j \in stop : i <= j
  IN [i \in 1..(end - 1) |-> EntryOf(pairs[i], p)]

LIST(u, id, limit) ==
  /\ ret = Nil
  /\ LET p == KeyPrefix(CHOOSE k \in BareKeys(id) : TRUE)
         pairs == SeekFrom(ViewOf(u), p)
     IN \/ /\ Fine
           /\ ret' = [op |-> "LIST", want |-> NsView(u), id |-> id,
                        limit |-> limit, cut |-> FALSE, res |-> Listed(pairs, p, limit)]
        \/ /\ Fail
           /\ \E c \in 0..Len(pairs) :
                ret' = [op |-> "LIST", want |-> NsView(u), id |-> id,
                          limit |-> limit, cut |-> TRUE,
                          res |-> Listed(SubSeq(pairs, 1, c), p, limit)]
  /\ UNCHANGED <<build, db, ns, tx, dir, ops>>

FsNext ==
  \/ \E u \in Users, id \in DirIds, n \in FileNames :
       \/ \E st \in FileStats : PUT(u, id, n, st)
       \/ DELETE(u, id, n)
  \/ \E u \in Readers :
       \/ \E b \in BOOLEAN : STARTTX(u, b)
       \/ COMMIT(u)
       \/ RELEASE(u)
       \/ \E id \in DirIds, n \in FileNames : GET(u, id, n) \/ EXISTS(u, id, n)
       \/ \E id \in DirIds : OPENDIR(u, id) \/ \E limit \in 1..2 : LIST(u, id, limit)
       \/ READDIR(u)
       \/ IterError(u)
       \/ CLOSEDIR(u)

FsSpec == FsInit /\ [][FsNext]_fsVars

-----------------------------------------------------------------------------
(* Properties.                                                             *)

(* The entries of directory id in m, in the order their keys have. *)
Listing(m, id) ==
  LET here == {n \in FileNames : m[<<id, n>>] # Nil}
      names == SetToSortSeq(here, LAMBDA x, y : KeyLess(SuffixOf(x), SuffixOf(y)))
  IN [i \in 1..Len(names) |-> [stat |-> m[<<id, names[i]>>], name |-> names[i]]]

(* Reads are exact: GET, EXISTS and LIST (fsdb0.h) return the entry, or    *)
(* the first entries of the directory, that the puts, deletes and commits  *)
(* completed before the read left there, or left there when the reader's   *)
(* transaction took its snapshot; never the record of another directory,   *)
(* another name or another key type.  An error of the store gives an error *)
(* from GET and EXISTS, and from LIST a shorter list.                      *)
ReadsExact ==
  ret # Nil =>
    LET r == ret IN
    IF r.op = "LIST"
    THEN LET all == Listing(r.want, r.id) IN
         /\ IsPrefix(r.res, all)
         /\ ~r.cut => \/ Len(r.res) = r.limit
                      \/ r.res = all
    ELSE \/ r.res.status = "IOError"
         \/ r.want = Nil /\ r.res.status = "NotFound"
         \/ /\ r.want # Nil
            /\ r.res.status = "OK"
            /\ r.op = "GET" => r.res.stat = r.want /\ r.res.name = r.name

(* A scan is exact: however puts, deletes and commits of other users fall  *)
(* between OPENDIR and the READDIRs (fsdb0.h), the entries returned so far *)
(* are the first ones of the directory as it was at OPENDIR, or at the     *)
(* snapshot of the transaction, each once and in key order, and NotFound   *)
(* comes after the last of them and not before.                            *)
ScansExact ==
  \A u \in Users : dir[u] # Nil =>
    LET d == dir[u]
        all == Listing(d.want, d.id)
    IN /\ IsPrefix(d.out, all)
       /\ d.n = Len(d.out)
       /\ d.last # "Corruption"
       /\ d.last = "NotFound" => d.out = all
=============================================================================
