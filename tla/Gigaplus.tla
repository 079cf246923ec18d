----------------------------- MODULE Gigaplus ------------------------------
(***************************************************************************)
(* The GIGA+ directory index (src/gigaplus.cc): a bitmap of the partitions *)
(* of a directory, held by every server and client that uses it.  A server *)
(* splits the partitions that are mapped to it; everyone else learns of it *)
(* by merging encoded indices, which arrive late, in any order, truncated, *)
(* or belong to another directory.                                         *)
(*                                                                         *)
(* A Rep is [zs, radix, bits, cap]: zeroth server, radix, the set bits of  *)
(* the bitmap and its capacity in bytes.  A hash is the sequence of its    *)
(* first MaxRadix bits.  Bytes have ByteBits bits (8 in the code) and a    *)
(* directory 2^MaxRadix partitions (2^16), so that a small instance still  *)
(* has bitmaps of several bytes.                                           *)
(***************************************************************************)
EXTENDS Naturals, Sequences, FiniteSets, FiniteSetsExt

CONSTANTS MaxRadix, ByteBits, InitCapacity,
          Clients,
          Configs    \* [servers, virtual, zs, setAll]: the options, and whether the
                     \* servers may create the directory with all its partitions

VARIABLES conf,      \* the DirIndexOptions
          index,     \* index[x]: the Rep of server or client x, NoRep before the first Update
          at,        \* at[h]: the partition that holds the file with hash h
          mail       \* encoded indices on their way

gigaVars == <<conf, index, at, mail>>

NoRep == [zs |-> 0, radix |-> 0, bits |-> {}, cap |-> 0]
MaxPartitions == 2 ^ MaxRadix
Hashes == [1 .. MaxRadix -> {0, 1}]
Servers == 0 .. conf.servers - 1
Holders == DOMAIN index

----------------------------------------------------------------------------
(* Indices of partitions *)

ToLog2(v) == CHOOSE r \in 0 .. MaxRadix : 2 ^ r <= v /\ v < 2 ^ (r + 1)
ToRadix(i) == IF i = 0 THEN 0 ELSE 1 + ToLog2(i)
ToChildIndex(i, r) == i + 2 ^ r
ToParentIndex(i) == IF i = 0 THEN 0 ELSE i - 2 ^ ToLog2(i)

\* Reverse: the bits of a byte of the hash, the first one the least significant.
Reversed(h, byte) ==
  LET first == byte * ByteBits
  IN  FoldSet(LAMBDA j, n : n + (IF first + j + 1 \in DOMAIN h THEN h[first + j + 1] ELSE 0) * 2 ^ j,
              0, 0 .. ByteBits - 1)

\* Mutant: the bits of the last, partial byte are not shifted into place.
ComputeIndexUnshifted(h, n) ==
  LET bytes == n \div ByteBits
  IN  FoldSet(LAMBDA b, s : s + Reversed(h, b) * 2 ^ (b * ByteBits), 0, 0 .. bytes - 1)
        + (Reversed(h, bytes) % 2 ^ (n % ByteBits))

\* Whole bytes first, then the bits left over of the next one.
ComputeIndexFromHash(h, n) ==
  LET bytes == n \div ByteBits
  IN  FoldSet(LAMBDA b, s : s + Reversed(h, b) * 2 ^ (b * ByteBits), 0, 0 .. bytes - 1)
        + (Reversed(h, bytes) % 2 ^ (n % ByteBits)) * 2 ^ (bytes * ByteBits)

\* Its values, once for all.
IndexFrom == [h \in Hashes |-> [n \in 0 .. MaxRadix |-> ComputeIndexFromHash(h, n)]]

ToBeMigrated(i, h) == IndexFrom[h][ToRadix(i)] = i

----------------------------------------------------------------------------
(* DirIndex::Rep *)

BytesFor(radix) == (2 ^ radix + ByteBits - 1) \div ByteBits
HighestBit(bits) == Max(bits)

\* ScaleToSize doubles the capacity until it suffices.
Scaled(cap, bytes) == cap * 2 ^ Min({k \in 0 .. MaxRadix : cap * 2 ^ k >= bytes})

TurnOnBit(rep, i) ==
  [rep EXCEPT !.cap = IF i >= @ * ByteBits THEN 2 * @ ELSE @,
              !.radix = IF @ < ToRadix(i) THEN ToRadix(i) ELSE @,
              !.bits = @ \cup {i}]

TurnOffBit(rep, i) ==
  IF i >= BytesFor(rep.radix) * ByteBits THEN rep
  ELSE [rep EXCEPT !.bits = @ \ {i},
                   !.radix = IF @ = ToRadix(i) THEN ToRadix(HighestBit(rep.bits \ {i})) ELSE @]

NewRep(zs) == TurnOnBit([NoRep EXCEPT !.zs = zs, !.cap = InitCapacity], 0)

\* ToSlice: the head and as many bytes of the bitmap as the radix asks for.
Encode(rep) == [zs |-> rep.zs, radix |-> rep.radix, bytes |-> BytesFor(rep.radix),
                bits |-> {i \in rep.bits : i < BytesFor(rep.radix) * ByteBits}]

\* DoMerge of a slice, or of another Rep as its slice.
Merge(rep, s) ==
  LET bytes == Max({BytesFor(rep.radix), s.bytes})
  IN  [rep EXCEPT !.cap = Scaled(@, bytes),
                  !.radix = Max({@, s.radix}),
                  !.bits = @ \cup s.bits]

\* ParseDirIndex with paranoid_checks.
Parses(s) ==
  /\ s.bytes >= BytesFor(s.radix)
  /\ 0 \in s.bits
  /\ s.radix = ToRadix(HighestBit(s.bits))

\* DirIndex::Update, with a slice of another index.
Updated(rep, s) ==
  IF ~Parses(s) THEN rep
  ELSE IF rep = NoRep THEN Merge(NewRep(s.zs), s)      \* TEST_Reset
  ELSE IF rep.zs # s.zs THEN rep
  ELSE Merge(rep, s)

\* SetAll reserves as many bytes as there are partitions.
SetAll(rep) ==
  LET on[i \in 0 .. conf.virtual] ==
        IF i = 0 THEN [rep EXCEPT !.cap = Scaled(@, conf.virtual)] ELSE TurnOnBit(on[i - 1], i - 1)
  IN  on[conf.virtual]

\* TEST_RevertAll turns the bits off from the highest one down.
RevertAll(rep) ==
  LET top == HighestBit(rep.bits)
      off[i \in 0 .. top] == IF i = 0 THEN rep ELSE TurnOffBit(off[i - 1], top + 1 - i)
  IN  off[top]

----------------------------------------------------------------------------
(* DirIndex *)

Children(i) == {ToChildIndex(i, r) : r \in ToRadix(i) .. MaxRadix - 1}

\* The first child that is not there yet.
NextChild(rep, i) == Min(Children(i) \ rep.bits)

IsSplittable(rep, i) ==
  /\ i \in rep.bits
  /\ Children(i) \ rep.bits # {}
  /\ NextChild(rep, i) < conf.virtual

NewIndexForSplitting(rep, i) == NextChild(rep, i)

\* The partition at the radix of the index, or its closest ancestor that exists.
HashToIndex(rep, h) ==
  LET up[i \in 0 .. MaxPartitions - 1] == IF i \in rep.bits THEN i ELSE up[ToParentIndex(i)]
  IN  up[IndexFrom[h][rep.radix]]

MapIndexToServer(i, zs, n) == (i + zs) % n
ServerOf(rep, i) == MapIndexToServer(i, rep.zs, conf.servers)

----------------------------------------------------------------------------
GigaInit ==
  /\ conf \in Configs
  /\ index = [x \in (0 .. conf.servers - 1) \cup Clients |->
                IF x \in Clients THEN NoRep ELSE NewRep(conf.zs)]
  /\ at = [h \in Hashes |-> 0]
  /\ mail = {}

\* The servers give a new directory all its partitions.
PreSplit ==
  /\ conf.setAll /\ mail = {}
  /\ \A x \in Holders : index[x] = IF x \in Clients THEN NoRep ELSE NewRep(conf.zs)
  /\ index' = [x \in Holders |-> IF x \in Clients THEN NoRep ELSE SetAll(index[x])]
  /\ at' = [h \in Hashes |-> HashToIndex(index'[0], h)]
  /\ UNCHANGED <<conf, mail>>

\* A server splits a partition of its own: the files that the new partition is to hold
\* are migrated, and their server is sent the index with them.
Split(s, i) ==
  /\ ServerOf(index[s], i) = s
  /\ IsSplittable(index[s], i)
  /\ LET c   == NewIndexForSplitting(index[s], i)
         new == TurnOnBit(index[s], c)
         to  == ServerOf(index[s], c)
     IN  /\ at' = [h \in Hashes |-> IF at[h] = i /\ ToBeMigrated(c, h) THEN c ELSE at[h]]
         /\ index' = IF to = s THEN [index EXCEPT ![s] = new]
                     ELSE [index EXCEPT ![s] = new, ![to] = Updated(index[to], Encode(new))]
  /\ UNCHANGED <<conf, mail>>

\* An index is sent; it may reach its reader much later, if at all.
Send(x) ==
  /\ mail = {} /\ index[x] # NoRep
  /\ mail' = {Encode(index[x])}
  /\ UNCHANGED <<conf, index, at>>

\* What arrives: the slice, the slice without its last byte, or one of another directory.
Arriving(s) ==
  {s, [s EXCEPT !.bytes = @ - 1, !.bits = {i \in @ : i < (s.bytes - 1) * ByteBits}],
   [s EXCEPT !.zs = @ + 1]}

Update(x) ==
  /\ \E s \in mail : \E r \in Arriving(s) :
       /\ (x \in Clients /\ index[x] = NoRep) => r.zs = s.zs
       /\ index' = [index EXCEPT ![x] = Updated(@, r)]
  /\ mail' = {}
  /\ UNCHANGED <<conf, at>>

GigaNext ==
  \/ PreSplit
  \/ \E s \in Servers, i \in 0 .. MaxPartitions - 1 : Split(s, i)
  \/ \E x \in Holders : Send(x) \/ Update(x)

GigaSpec == GigaInit /\ [][GigaNext]_gigaVars

----------------------------------------------------------------------------
(* Properties *)

Reps == {index[x] : x \in Holders} \ {NoRep}

(* Whatever is merged and split, an index keeps what its code asserts: the radix is that
   of the highest bit, the bitmap fits into its capacity and the capacity into the largest
   bitmap, every partition has its parent, the next split of any partition finds room
   within one doubling and within one radix (TurnOnBit), and reverting leads back to the
   first partition (the destructor of DirIndexTest). *)
IndexSound ==
  \A rep \in Reps :
    /\ rep.radix = ToRadix(HighestBit(rep.bits))
    /\ BytesFor(rep.radix) <= rep.cap /\ rep.cap <= MaxPartitions \div ByteBits
    /\ \A i \in rep.bits : ToParentIndex(i) \in rep.bits
    /\ \A i \in rep.bits : IsSplittable(rep, i) =>
         LET c == NewIndexForSplitting(rep, i)
         IN  c < 2 * rep.cap * ByteBits /\ ToRadix(c) <= rep.radix + 1 /\ ToParentIndex(c) = i
    /\ RevertAll(rep).radix = 0 /\ RevertAll(rep).bits = {0}

(* A lookup with any index, however old, is led to the file: if the server that the index
   selects (SelectServer) sees the same partition, the file is there; if it does not, its
   index takes the reader closer, to a partition the reader did not know. *)
LookupsConverge ==
  \A x \in Holders, h \in Hashes : index[x] # NoRep =>
    LET p == HashToIndex(index[x], h)
        s == index[ServerOf(index[x], p)]
        q == HashToIndex(Merge(index[x], Encode(s)), h)
    IN  IF HashToIndex(s, h) = p THEN at[h] = p
        ELSE q \notin index[x].bits /\ q > p
=============================================================================
