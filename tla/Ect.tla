--------------------------------- MODULE Ect ---------------------------------
(***************************************************************************)
(* The entropy-coded trie (src/ect.cc, src/ectrie/): an index of sorted    *)
(* keys of one length that holds no key, only, for each inner node of      *)
(* their binary trie, how many keys go left.  That number is Huffman coded *)
(* for a small node and exponential-Golomb coded for a larger one; the     *)
(* codes are packed in a vector of machine words.  Find walks the codes    *)
(* from the first bit and must skip whole subtrees by decoding them.       *)
(*                                                                         *)
(* Words are integers of BlockBits (the vector and the code tables) and of *)
(* WordBits (size_t) bits; bits are numbered from the most significant.    *)
(* The two-level table of bucket offsets (twolevel_bucketing.cc) is at the *)
(* end.                                                                    *)
(***************************************************************************)
EXTENDS Integers, Sequences, FiniteSets, SequencesExt

CONSTANTS
  KeyBits,        \* bits of a key
  KeySets,        \* the sets of keys to index
  BlockBits, WordBits,
  EncodingLimit,  \* largest node that is Huffman coded
  ValueBits,      \* bits of twolevel_bucketing's value_type
  BitsPerKeyBound, Steps, MaxBuckets    \* how offsets grow, and how often

VARIABLES keys, vec, found, buckets
ectVars == <<keys, vec, found, buckets>>

NoFind == [key |-> -1, rank |-> -1, iter |-> 0]

-----------------------------------------------------------------------------
(* bit_access: bits of an array of w-bit blocks, block 1 first.            *)

BlocksFor(w, n) == (n + w - 1) \div w
BitOf(blocks, w, i) == (blocks[i \div w + 1] \div 2^(w - 1 - (i % w))) % 2
SetBit(blocks, w, i, bit) ==
  [blocks EXCEPT ![i \div w + 1] = @ + (bit - BitOf(blocks, w, i)) * 2^(w - 1 - (i % w))]

Min3(a, b, c) == CHOOSE x \in {a, b, c} : \A y \in {a, b, c} : x <= y

(* A | B for words whose set bits are disjoint in the correct program; the *)
(* bits both have stay set.                                                *)
RECURSIVE Or(_, _)
Or(a, b) == IF a = 0 THEN b ELSE IF b = 0 THEN a
            ELSE 2 * Or(a \div 2, b \div 2) + (IF a % 2 = 1 \/ b % 2 = 1 THEN 1 ELSE 0)

(* Mutant: the bits of the source after the copied range come along.       *)
RECURSIVE CopySetUntrimmed(_, _, _, _, _, _, _)
CopySetUntrimmed(dest, dw, di, src, sw, si, count) ==
  IF count = 0 THEN dest
  ELSE LET d == di \div dw + 1
           s == si \div sw + 1
           len == Min3(dw - (di % dw), sw - (si % sw), count)
           bits == (src[s] * 2^(si % sw)) % 2^sw
           cut == IF dw >= sw THEN bits * 2^(dw - sw) ELSE bits \div 2^(sw - dw)
       IN CopySetUntrimmed([dest EXCEPT ![d] = Or(@, cut \div 2^(di % dw))],
                           dw, di + len, src, sw, si + len, count - len)

(* copy_set: count bits, as many at a time as one block of each side has;  *)
(* they are shifted out of the source block, cut off on both sides, and    *)
(* or-ed into the destination, which must be clear.                        *)
RECURSIVE CopySet(_, _, _, _, _, _, _)
CopySet(dest, dw, di, src, sw, si, count) ==
  IF count = 0 THEN dest
  ELSE LET d == di \div dw + 1
           s == si \div sw + 1
           len == Min3(dw - (di % dw), sw - (si % sw), count)
           bits == ((src[s] * 2^(si % sw)) % 2^sw) \div 2^(sw - len)
       IN CopySet([dest EXCEPT ![d] = Or(@, bits * 2^(dw - (di % dw) - len))],
                  dw, di + len, src, sw, si + len, count - len)

-----------------------------------------------------------------------------
(* bit_vector.                                                             *)

(* Blocks past those in use are zeroed. *)
Resize(v, cap) ==
  [v EXCEPT !.cap = cap,
            !.blocks = [i \in 1..BlocksFor(BlockBits, cap) |->
                          IF i <= BlocksFor(BlockBits, v.size) THEN v.blocks[i] ELSE 0]]

NewVector == Resize([blocks |-> <<>>, size |-> 0, cap |-> 0], 8)

RECURSIVE Doubled(_, _)
Doubled(cap, n) == IF n <= cap THEN cap ELSE Doubled(2 * cap, n)
Reserve(v, n) == IF n > v.cap THEN Resize(v, Doubled(IF v.cap = 0 THEN 1 ELSE v.cap, n)) ELSE v

PushBack(v, bit) ==
  LET r == Reserve(v, v.size + 1)
  IN [r EXCEPT !.blocks = IF bit = 1 THEN SetBit(@, BlockBits, v.size, 1) ELSE @, !.size = @ + 1]

AppendBlocks(v, src, w, i, len) ==
  LET r == Reserve(v, v.size + len)
  IN [r EXCEPT !.blocks = CopySet(@, BlockBits, v.size, src, w, i, len), !.size = @ + len]

AppendWord(v, x, len) == AppendBlocks(v, <<x>>, WordBits, WordBits - len, len)
GetWord(v, i, len) ==
  CopySet(<<0>>, WordBits, WordBits - len, v.blocks, BlockBits, i, len)[1]
At(v, i) == BitOf(v.blocks, BlockBits, i)
Compact(v) == IF v.size # v.cap THEN Resize(v, v.size) ELSE v

-----------------------------------------------------------------------------
(* Huffman codes of the number of keys on the left among n, whose weights  *)
(* are the binomial coefficients.                                          *)

Freqs(n) ==
  LET f[k \in 0..n] == IF k = 0 THEN 1 ELSE (f[k - 1] * (n - k + 1)) \div k IN f

(* The queue is a multimap: ordered by weight, the first come first. *)
Enqueue(q, e) ==
  LET before == Cardinality({i \in DOMAIN q : q[i].freq <= e.freq})
  IN InsertAt(q, before + 1, e)

RECURSIVE GenerateTree(_, _, _)
GenerateTree(t, q, ref) ==
  IF ref = 2 * t.n - 1 THEN t
  ELSE GenerateTree([t EXCEPT !.left = Append(@, q[1].ref), !.right = Append(@, q[2].ref)],
                    Enqueue(SubSeq(q, 3, Len(q)), [freq |-> q[1].freq + q[2].freq, ref |-> ref]),
                    ref + 1)

HuffmanTree(n) ==
  GenerateTree([n |-> n + 1, left |-> <<>>, right |-> <<>>],
               FoldLeft(Enqueue, <<>>, [i \in 1..n + 1 |-> [freq |-> Freqs(n)[i - 1], ref |-> i - 1]]),
               n + 1)

IsSymbol(t, p) == p < t.n
Root(t) == 2 * t.n - 2
LeftOf(t, p) == t.left[p - t.n + 1]
RightOf(t, p) == t.right[p - t.n + 1]

(* huffman_table::generate.  One buffer holds the path to every node in    *)
(* turn, so a code has in its last block what deeper paths left there (and *)
(* at first, whatever the memory held).                                    *)
RECURSIVE GenerateCodes(_, _, _, _)
GenerateCodes(t, p, st, depth) ==
  IF IsSymbol(t, p)
  THEN [st EXCEPT !.code[p] = [len |-> depth,
                               blocks |-> SubSeq(st.prefix, 1, BlocksFor(BlockBits, depth))]]
  ELSE LET l == GenerateCodes(t, LeftOf(t, p),
                  [st EXCEPT !.prefix = SetBit(@, BlockBits, depth, 0)], depth + 1)
       IN GenerateCodes(t, RightOf(t, p),
            [l EXCEPT !.prefix = SetBit(@, BlockBits, depth, 1)], depth + 1)

HuffmanTable(t) ==
  GenerateCodes(t, Root(t), [prefix |-> [i \in 1..BlocksFor(BlockBits, t.n) |-> 2^BlockBits - 1],
                             code |-> [s \in 0..t.n - 1 |-> [len |-> 0, blocks |-> <<>>]]], 0).code

(* huffman_rev_table: for every string of max_length bits, its first       *)
(* symbol and that symbol's length.                                        *)
RECURSIVE MaxLength(_, _, _)
MaxLength(t, p, depth) ==
  IF IsSymbol(t, p) THEN depth
  ELSE LET l == MaxLength(t, LeftOf(t, p), depth + 1)
           r == MaxLength(t, RightOf(t, p), depth + 1)
       IN IF l > r THEN l ELSE r

(* Mutant: the paths of the right subtrees lose their last bit. *)
RECURSIVE FillTableLeft(_, _, _, _)
FillTableLeft(t, p, prefix, depth) ==
  IF IsSymbol(t, p)
  THEN LET pad == 2^(MaxLength(t, Root(t), 0) - depth)
       IN {[v |-> prefix * pad + k, symbol |-> p, len |-> depth] : k \in 0..pad - 1}
  ELSE FillTableLeft(t, LeftOf(t, p), 2 * prefix, depth + 1)
         \cup FillTableLeft(t, RightOf(t, p), 2 * prefix, depth + 1)

RECURSIVE FillTable(_, _, _, _)
FillTable(t, p, prefix, depth) ==
  IF IsSymbol(t, p)
  THEN LET pad == 2^(MaxLength(t, Root(t), 0) - depth)
       IN {[v |-> prefix * pad + k, symbol |-> p, len |-> depth] : k \in 0..pad - 1}
  ELSE FillTable(t, LeftOf(t, p), 2 * prefix, depth + 1)
         \cup FillTable(t, RightOf(t, p), 2 * prefix + 1, depth + 1)

(* huffman_buffer: the coders of all small nodes, made once. *)
HuffmanBuffer ==
  [n \in 2..EncodingLimit |-> [tree |-> HuffmanTree(n), table |-> HuffmanTable(HuffmanTree(n))]]

HuffmanEncode(v, n, symbol) ==
  LET c == HuffmanBuffer[n].table[symbol] IN AppendBlocks(v, c.blocks, BlockBits, 0, c.len)

(* Decoding returns the value and where the next code starts. *)
RECURSIVE WalkTree(_, _, _, _)
WalkTree(v, t, p, i) ==
  IF IsSymbol(t, p) THEN [value |-> p, iter |-> i]
  ELSE WalkTree(v, t, IF At(v, i) = 0 THEN LeftOf(t, p) ELSE RightOf(t, p), i + 1)

HuffmanDecode(v, n, i) == WalkTree(v, HuffmanBuffer[n].tree, Root(HuffmanBuffer[n].tree), i)

-----------------------------------------------------------------------------
(* Exponential-Golomb codes (of order 0) of interleaved signed numbers.    *)

Wrapped(x) == x % 2^WordBits
Complement(x) == 2^WordBits - 1 - x
SignInterleave(x) == IF x < 2^(WordBits - 1) THEN Wrapped(2 * x) ELSE Wrapped(2 * Complement(x)) + 1
SignDeinterleave(x) == IF x % 2 = 0 THEN x \div 2 ELSE Complement(x \div 2)

RECURSIVE BitLength(_)
BitLength(m) == IF m = 0 THEN 0 ELSE 1 + BitLength(m \div 2)

RECURSIVE PushZeros(_, _)
PushZeros(v, n) == IF n = 0 THEN v ELSE PushZeros(PushBack(v, 0), n - 1)

GolombEncode(v, n) ==
  LET m == Wrapped(n + 1)
      len == BitLength(m)
  IN AppendWord(PushBack(PushZeros(v, len - 1), 1), m, len - 1)

RECURSIVE ZerosFrom(_, _)
ZerosFrom(v, i) == IF At(v, i) = 1 THEN 0 ELSE 1 + ZerosFrom(v, i + 1)

GolombDecode(v, i) ==
  LET z == ZerosFrom(v, i)
      rest == i + z + 1
  IN [value |-> Or(2^z, GetWord(v, rest, z)) - 1, iter |-> rest + z]

-----------------------------------------------------------------------------
(* trie.  A node is the n keys from position off on; bit depth decides.    *)

KeyBit(k, depth) == (k \div 2^(KeyBits - 1 - depth)) % 2
LeftCount(arr, off, n, depth) ==
  Cardinality({i \in 1..n : \A j \in 1..i : KeyBit(arr[off + j], depth) = 0})

EncodeCount(v, n, left) ==
  IF n <= EncodingLimit THEN HuffmanEncode(v, n, left)
  ELSE GolombEncode(v, SignInterleave(Wrapped(left - (n \div 2))))

DecodeCount(v, n, i) ==
  IF n <= EncodingLimit THEN HuffmanDecode(v, n, i)
  ELSE LET g == GolombDecode(v, i)
       IN [value |-> Wrapped(SignDeinterleave(g.value) + (n \div 2)), iter |-> g.iter]

RECURSIVE EncodeRec(_, _, _, _, _)
EncodeRec(v, arr, off, n, depth) ==
  IF n <= 1 THEN v
  ELSE LET left == LeftCount(arr, off, n, depth)
       IN EncodeRec(EncodeRec(EncodeCount(v, n, left), arr, off, left, depth + 1),
                    arr, off + left, n - left, depth + 1)

(* Mutant: only one of the two subtrees is skipped. *)
RECURSIVE SkipRecLeft(_, _, _)
SkipRecLeft(v, i, n) ==
  IF n <= 1 THEN i
  ELSE LET c == DecodeCount(v, n, i) IN SkipRecLeft(v, c.iter, c.value)

RECURSIVE SkipRec(_, _, _)
SkipRec(v, i, n) ==
  IF n <= 1 THEN i
  ELSE LET c == DecodeCount(v, n, i) IN SkipRec(v, SkipRec(v, c.iter, c.value), n - c.value)

RECURSIVE LocateRec(_, _, _, _, _)
LocateRec(v, i, key, n, depth) ==
  IF n <= 1 THEN [rank |-> 0, iter |-> i]
  ELSE LET c == DecodeCount(v, n, i)
       IN IF KeyBit(key, depth) = 0 THEN LocateRec(v, c.iter, key, c.value, depth + 1)
          ELSE LET r == LocateRec(v, SkipRec(v, c.iter, c.value), key, n - c.value, depth + 1)
               IN [r EXCEPT !.rank = c.value + @]

-----------------------------------------------------------------------------
(* ECTIndex, and the two-level table of offsets.                           *)

Sorted(S) == [i \in 1..Cardinality(S) |->
                CHOOSE x \in S : Cardinality({y \in S : y < x}) = i - 1]

EctInit ==
  /\ keys \in KeySets
  /\ vec = <<>>
  /\ found = NoFind
  /\ buckets = [info |-> <<>>, upper |-> <<0>>, given |-> <<>>]

InsertKeys ==
  /\ vec = <<>>
  /\ vec' = Compact(EncodeRec(NewVector, Sorted(keys), 0, Cardinality(keys), 0))
  /\ UNCHANGED <<keys, found, buckets>>

Find(k) ==
  /\ vec # <<>>
  /\ found = NoFind
  /\ LET r == LocateRec(vec, 0, k, Cardinality(keys), 0)
     IN found' = [key |-> k, rank |-> r.rank, iter |-> r.iter]
  /\ UNCHANGED <<keys, vec, buckets>>

UpperBucketSize ==
  LET n == 2^ValueBits \div BitsPerKeyBound IN IF n = 0 THEN 1 ELSE n

(* insert: an offset relative to the last one of the upper bucket before,  *)
(* and that of its own upper bucket from now on.                           *)
BucketInsert(offset) ==
  LET i == Len(buckets.info)
      u == i \div UpperBucketSize + 1
  IN buckets' = [info |-> Append(buckets.info, (offset - buckets.upper[u]) % 2^ValueBits),
                 upper |-> SubSeq(buckets.upper, 1, u) \o <<offset>>,
                 given |-> Append(buckets.given, offset)]

IndexOffset(i) == buckets.upper[(i - 1) \div UpperBucketSize + 1] + buckets.info[i]

InsertOffset(step) ==
  /\ keys = {}
  /\ Len(buckets.given) < MaxBuckets
  /\ BucketInsert((IF buckets.given = <<>> THEN 0 ELSE Last(buckets.given)) + step)
  /\ UNCHANGED <<keys, vec, found>>

EctNext ==
  \/ InsertKeys
  \/ \E k \in 0..2^KeyBits - 1 : Find(k)
  \/ \E step \in Steps : InsertOffset(step)

EctSpec == EctInit /\ [][EctNext]_ectVars

-----------------------------------------------------------------------------
(* Properties.                                                             *)

Below(k) == Cardinality({x \in keys : x < k})

(* Find returns a key's rank (ect.h: "Return the rank of a given key"),    *)
(* and for a key that is not indexed the rank of a neighbour (ect_test.cc  *)
(* bounds it so), without reading past the last code, whichever codes the  *)
(* nodes on its way and the subtrees it skips have.                        *)
RanksExact ==
  found # NoFind =>
    /\ found.rank \in (IF found.key \in keys THEN {Below(found.key)}
                       ELSE {Below(found.key) - 1, Below(found.key)})
    /\ found.iter <= vec.size

(* The vector holds the codes and nothing else (bit_vector.cc, copy_set):  *)
(* every bit after its size is clear, which or-ing further codes relies    *)
(* on, and skipping the whole trie ends exactly at its size.               *)
VectorClean ==
  vec # <<>> =>
    /\ \A i \in vec.size..BlockBits * Len(vec.blocks) - 1 : At(vec, i) = 0
    /\ SkipRec(vec, 0, Cardinality(keys)) = vec.size

(* The three forms of a Huffman code agree (huffman.h): the code that the  *)
(* table gives for a symbol is, as a prefix of any string of bits, what    *)
(* the reverse table decodes to that symbol and length.                    *)
TablesAgree ==
  vec # <<>> /\ Cardinality(keys) \in 2..EncodingLimit =>
    LET h == HuffmanBuffer[Cardinality(keys)]
        max == MaxLength(h.tree, Root(h.tree), 0)
        code(s) == CopySet(<<0>>, max, max - h.table[s].len,
                           h.table[s].blocks, BlockBits, 0, h.table[s].len)[1]
        rev == FillTable(h.tree, Root(h.tree), 0, 0)
    IN /\ {r.v : r \in rev} = 0..2^max - 1
       /\ \A r \in rev : /\ r.len = h.table[r.symbol].len
                         /\ r.v \div 2^(max - r.len) = code(r.symbol)

(* Offsets come back as they were inserted (twolevel_bucketing.cc, the     *)
(* assertions of insert), though only their low bits are stored.           *)
OffsetsKept == \A i \in DOMAIN buckets.given : IndexOffset(i) = buckets.given[i]
=============================================================================
