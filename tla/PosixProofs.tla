---------------------------- MODULE PosixProofs -----------------------------
(***************************************************************************)
(* The POSIX environment, for every number of tables, blocks, processes,   *)
(* threads and slots.  PosixFiles: after a crash at any point the tables   *)
(* that a synced MANIFEST names are whole; the lemmas up to                *)
(* AfterCrashMedia say what each call does to one file, the ones after     *)
(* them that each call keeps AtWork, the part of the inductive invariant   *)
(* FilesInv that holds while the machine runs.  PosixEnv: the lock table   *)
(* and the mmap limiter.                                                   *)
(***************************************************************************)
EXTENDS PosixEnv, PosixFiles, TLAPS

-----------------------------------------------------------------------------
(* Files.                                                                  *)

Blocks == Nat \cup Tables
Record == [name : {"none", "cached", "durable"}, buf : Seq(Blocks), cache : Seq(Blocks), durable : Nat]
Media  == {d \in Record : d.durable <= Len(d.cache)}
Files  == Written \cup {Target}
Stages == {"none", "open", "dirSynced", "synced", "closed", "failed", "crashed"}

\* The blocks of a table are in order, through the page cache and on to libc's buffer.
InOrder(d) ==
  /\ \A i \in 1..Len(d.cache) : d.cache[i] = i
  /\ \A i \in 1..Len(d.buf) : d.buf[i] = Len(d.cache) + i
Complete(d) == Len(d.buf) = 0 /\ Len(d.cache) = TableSize /\ d.durable = TableSize

\* A block is in the file, or on its disk.
Holds(d, b) ==
  \/ \E i \in 1..Len(d.cache) : d.cache[i] = b
  \/ \E i \in 1..Len(d.buf) : d.buf[i] = b
OnDisk(d, b) == \E i \in 1..d.durable : d.cache[i] = b

FilesTypeOK ==
  /\ media \in [Files -> Media] /\ writer \in [Written -> Stages]
  /\ Running => \A f \in Written : writer[f] # "crashed"

TableInv ==
  \A t \in Tables :
    /\ InOrder(media[t])
    /\ build.buffered \/ Len(media[t].buf) = 0
    /\ writer[t] \notin {"none", "failed"} => media[t].name # "none"
    /\ writer[t] \in {"synced", "closed"} => Complete(media[t])

DescriptorInv ==
  /\ writer[Descriptor] \notin {"synced", "closed"}
  /\ writer[Descriptor] = "none" => committed = {}
  /\ writer[Descriptor] \in {"open", "dirSynced"} => media[Descriptor].name # "none"
  /\ writer[Descriptor] = "dirSynced" => media[Descriptor].name = "durable"
  /\ \A b : Holds(media[Descriptor], b) =>
       /\ b \in Tables /\ writer[b] = "closed"
       /\ writer[Descriptor] = "dirSynced" => media[b].name = "durable"
  /\ \A t \in committed :
       /\ media[t].name = "durable" /\ media[Descriptor].name = "durable"
       /\ OnDisk(media[Descriptor], t)

CopyInv ==
  copying # NoCopy =>
    /\ copying \in [state : {"copying", "ok", "error"}, src : Tables, fault : BOOLEAN]
    /\ writer[copying.src] = "closed"
    /\ InOrder(media[Target]) /\ Len(media[Target].buf) = 0
    /\ copying.state = "ok" => (copying.fault /\ build.linux) \/ Len(media[Target].cache) = TableSize

FilesInv ==
  /\ FilesTypeOK
  /\ Running => TableInv /\ DescriptorInv /\ CopyInv
  /\ ~Running => copying = NoCopy
  /\ CommittedSurvives

\* What the calls do to a file.
LEMMA NewMedia ==
  ASSUME NEW name \in {"none", "cached"}
  PROVE  /\ EmptyFile(name) \in Media /\ EmptyFile(name).name = name
         /\ Len(EmptyFile(name).buf) = 0 /\ InOrder(EmptyFile(name))
         /\ \A b : ~Holds(EmptyFile(name), b)
BY DEF EmptyFile, Media, Record, InOrder, Holds

\* Appends to a file, seen through its two sequences.
LEMMA Appended ==
  ASSUME NEW c \in Seq(Blocks), NEW b \in Blocks
  PROVE  /\ Append(c, b) \in Seq(Blocks) /\ Len(Append(c, b)) = Len(c) + 1 /\ Len(c) \in Nat
         /\ \A i \in 1..Len(c) : Append(c, b)[i] = c[i]
         /\ Append(c, b)[Len(c) + 1] = b
OBVIOUS

LEMMA AppendedNext ==
  ASSUME NEW c \in Seq(Blocks), NEW b \in Blocks, NEW k \in Nat,
         \A i \in 1..Len(c) : c[i] = k + i, b = k + Len(c) + 1
  PROVE  \A i \in 1..Len(Append(c, b)) : Append(c, b)[i] = k + i
OBVIOUS

LEMMA BufferedMedia ==
  ASSUME NEW d \in Media, NEW b \in Blocks
  PROVE  LET e == BufferedAppend(d, b)
         IN  /\ e \in Media /\ e.name = d.name /\ e.durable = d.durable /\ e.cache = d.cache
             /\ \A x : Holds(e, x) => Holds(d, x) \/ x = b
             /\ InOrder(d) /\ b = Len(d.cache) + Len(d.buf) + 1 => InOrder(e)
<1> DEFINE e == BufferedAppend(d, b)
<1>1. d.buf \in Seq(Blocks) /\ d.cache \in Seq(Blocks) /\ Len(d.cache) \in Nat
  BY DEF Media, Record
<1>2. e.name = d.name /\ e.durable = d.durable /\ e.cache = d.cache /\ e.buf = Append(d.buf, b)
  BY Zenon DEF BufferedAppend, Media, Record
<1>3. Append(d.buf, b) \in Seq(Blocks)
  BY <1>1
<1>4. e \in Media
  BY <1>2, <1>3, Zenon DEF BufferedAppend, Media, Record
<1>5. \A x : Holds(e, x) => Holds(d, x) \/ x = b
  BY <1>1, <1>2, Appended DEF Holds
<1>6. InOrder(d) /\ b = Len(d.cache) + Len(d.buf) + 1 => InOrder(e)
  <2>1. (\A i \in 1..Len(d.buf) : d.buf[i] = Len(d.cache) + i) /\ b = Len(d.cache) + Len(d.buf) + 1
          => \A i \in 1..Len(Append(d.buf, b)) : Append(d.buf, b)[i] = Len(d.cache) + i
    BY <1>1, AppendedNext, Zenon
  <2> QED BY <1>2, <2>1, Zenon DEF InOrder
<1> QED BY <1>2, <1>4, <1>5, <1>6, Zenon

LEMMA PlainMedia ==
  ASSUME NEW d \in Media, NEW b \in Blocks
  PROVE  LET e == PlainAppend(d, b)
         IN  /\ e \in Media /\ e.name = d.name /\ e.durable = d.durable /\ e.buf = d.buf
             /\ Len(e.cache) = Len(d.cache) + 1
             /\ \A x : Holds(e, x) => Holds(d, x) \/ x = b
             /\ \A x : OnDisk(d, x) => OnDisk(e, x)
             /\ InOrder(d) /\ Len(d.buf) = 0 /\ b = Len(d.cache) + 1 => InOrder(e)
<1> DEFINE e == PlainAppend(d, b)
<1>1. d.cache \in Seq(Blocks) /\ Len(d.cache) \in Nat /\ d.durable \in Nat /\ d.durable <= Len(d.cache)
  BY DEF Media, Record
<1>2. e.name = d.name /\ e.durable = d.durable /\ e.buf = d.buf /\ e.cache = Append(d.cache, b)
  BY Zenon DEF PlainAppend, Media, Record
<1>3. Append(d.cache, b) \in Seq(Blocks) /\ d.durable <= Len(Append(d.cache, b))
  BY <1>1
<1>4. e \in Media
  BY <1>1, <1>2, <1>3, Zenon DEF PlainAppend, Media, Record
<1>5. \A x : Holds(e, x) => Holds(d, x) \/ x = b
  BY <1>1, <1>2, Appended DEF Holds
<1>6. \A x : OnDisk(d, x) => OnDisk(e, x)
  BY <1>1, <1>2, Appended DEF OnDisk
<1>7. InOrder(d) /\ Len(d.buf) = 0 /\ b = Len(d.cache) + 1 => InOrder(e)
  <2>1. (\A i \in 1..Len(d.cache) : d.cache[i] = 0 + i) /\ b = 0 + Len(d.cache) + 1
          => \A i \in 1..Len(Append(d.cache, b)) : Append(d.cache, b)[i] = 0 + i
    BY <1>1, AppendedNext
  <2> QED BY <1>1, <1>2, <2>1 DEF InOrder
<1>8. Len(e.cache) = Len(d.cache) + 1
  BY <1>1, <1>2, Appended
<1> QED BY <1>2, <1>4, <1>5, <1>6, <1>7, <1>8, Zenon

\* A flush, seen through the two sequences of the file.
LEMMA Concatenated ==
  ASSUME NEW c \in Seq(Blocks), NEW b \in Seq(Blocks)
  PROVE  /\ c \o b \in Seq(Blocks) /\ Len(c) \in Nat /\ Len(b) \in Nat
         /\ Len(c \o b) = Len(c) + Len(b)
         /\ \A i \in 1..Len(c) : (c \o b)[i] = c[i]
         /\ \A i \in 1..Len(b) : (c \o b)[Len(c) + i] = b[i]
         /\ \A i \in 1..Len(c \o b) : (c \o b)[i] = IF i <= Len(c) THEN c[i] ELSE b[i - Len(c)]
OBVIOUS

LEMMA FlushedMedia ==
  ASSUME NEW d \in Media
  PROVE  LET e == Flushed(d)
         IN  /\ e \in Media /\ e.name = d.name /\ e.durable = d.durable /\ Len(e.buf) = 0
             /\ Len(e.cache) = Len(d.cache) + Len(d.buf)
             /\ \A x : Holds(e, x) => Holds(d, x)
             /\ \A x : OnDisk(d, x) => OnDisk(e, x)
             /\ InOrder(d) => InOrder(e)
<1> DEFINE e == Flushed(d)
           c == d.cache
           b == d.buf
<1>1. c \in Seq(Blocks) /\ b \in Seq(Blocks) /\ d.durable \in Nat /\ d.durable <= Len(c)
  BY Zenon DEF Media, Record
<1>2. e.name = d.name /\ e.durable = d.durable /\ e.buf = <<>> /\ e.cache = c \o b
  BY Zenon DEF Flushed
<1>3. /\ c \o b \in Seq(Blocks) /\ Len(c) \in Nat /\ Len(b) \in Nat /\ Len(c \o b) = Len(c) + Len(b)
      /\ \A i \in 1..Len(c) : (c \o b)[i] = c[i]
      /\ \A i \in 1..Len(b) : (c \o b)[Len(c) + i] = b[i]
      /\ \A i \in 1..Len(c \o b) : (c \o b)[i] = IF i <= Len(c) THEN c[i] ELSE b[i - Len(c)]
  BY <1>1, Concatenated, Zenon
<1>4. e \in Media
  BY <1>1, <1>3 DEF Flushed, Media, Record
<1>a. Len(e.buf) = 0
  BY <1>2
<1> HIDE DEF e
<1>b. c = d.cache /\ b = d.buf
  BY Zenon
<1> HIDE DEF c, b
<1>5. ASSUME NEW x, Holds(e, x) PROVE Holds(d, x)
  <2>1. PICK i \in 1..Len(c \o b) : (c \o b)[i] = x
    BY <1>2, <1>5, <1>a DEF Holds
  <2>2. CASE i <= Len(c)
    BY <1>3, <1>b, <2>1, <2>2 DEF Holds
  <2>3. CASE ~(i <= Len(c))
    <3>1. i - Len(c) \in 1..Len(b) /\ b[i - Len(c)] = x
      BY <1>3, <2>1, <2>3
    <3> QED BY <1>b, <3>1, Zenon DEF Holds
  <2> QED BY <2>2, <2>3, Zenon
<1>6. ASSUME NEW x, OnDisk(d, x) PROVE OnDisk(e, x)
  <2>1. \A i \in 1..d.durable : i \in 1..Len(c)
    BY <1>1, <1>3
  <2>2. PICK i \in 1..d.durable : c[i] = x
    BY <1>6, <1>b, Zenon DEF OnDisk
  <2>3. (c \o b)[i] = x
    BY <1>3, <2>1, <2>2, Zenon
  <2> QED BY <1>2, <2>2, <2>3, Zenon DEF OnDisk
<1>7. ASSUME InOrder(d) PROVE InOrder(e)
  <2>1. (\A i \in 1..Len(c) : c[i] = i) /\ (\A i \in 1..Len(b) : b[i] = Len(c) + i)
    BY <1>7, <1>b, Zenon DEF InOrder
  <2>2. \A i \in 1..Len(c \o b) : (c \o b)[i] = i
    BY <1>3, <2>1
  <2> QED BY <1>2, <1>a, <2>2 DEF InOrder
<1> QED BY <1>2, <1>3, <1>4, <1>5, <1>6, <1>7, <1>a, <1>b, Zenon DEF e

\* fdatasync, after the flush.
LEMMA SyncedMedia ==
  ASSUME NEW d \in Media
  PROVE  LET e == [Flushed(d) EXCEPT !.durable = Len(Flushed(d).cache)]
         IN  /\ e \in Media /\ e.name = d.name /\ Len(e.buf) = 0
             /\ e.cache = Flushed(d).cache /\ e.durable = Len(d.cache) + Len(d.buf)
             /\ Len(e.cache) = e.durable
             /\ \A x : Holds(e, x) => Holds(d, x)
             /\ \A x : OnDisk(d, x) => OnDisk(e, x)
             /\ InOrder(d) => InOrder(e)
<1> DEFINE f == Flushed(d)
           e == [f EXCEPT !.durable = Len(f.cache)]
<1>1. /\ f \in Media /\ f.name = d.name /\ f.durable = d.durable /\ Len(f.buf) = 0
      /\ Len(f.cache) = Len(d.cache) + Len(d.buf)
      /\ \A x : Holds(f, x) => Holds(d, x)
      /\ \A x : OnDisk(d, x) => OnDisk(f, x)
      /\ InOrder(d) => InOrder(f)
  BY FlushedMedia, Zenon
<1> HIDE DEF f
<1>2. /\ e.name = f.name /\ e.buf = f.buf /\ e.cache = f.cache /\ e.durable = Len(f.cache)
      /\ f.durable \in Nat /\ f.durable <= Len(f.cache) /\ Len(f.cache) \in Nat
  BY <1>1 DEF Media, Record
<1>3. e \in Record
  BY <1>1, <1>2, Zenon DEF Media, Record
<1>a. e \in Media
  <2>1. e.durable <= Len(e.cache)
    BY <1>2
  <2> QED BY <1>3, <2>1, Zenon DEF Media
<1> HIDE DEF e
<1>4. \A x : Holds(e, x) => Holds(d, x)
  <2>1. \A x : Holds(e, x) => Holds(f, x)
    BY <1>2, Zenon DEF Holds
  <2> QED BY <1>1, <2>1, Zenon
<1>5. \A x : OnDisk(f, x) => OnDisk(e, x)
  BY <1>2 DEF OnDisk
<1>6. InOrder(d) => InOrder(e)
  BY <1>1, <1>2, Zenon DEF InOrder
<1> QED BY <1>1, <1>2, <1>a, <1>4, <1>5, <1>6, Zenon DEF e, f

\* The kernel makes a name durable, or one more block.
LEMMA WrittenBack ==
  ASSUME NEW d \in Media
  PROVE  /\ LET e == [d EXCEPT !.name = "durable"]
            IN  /\ e \in Media /\ e.name = "durable" /\ e.durable = d.durable
                /\ e.cache = d.cache /\ e.buf = d.buf
         /\ d.durable < Len(d.cache) =>
              LET e == [d EXCEPT !.durable = d.durable + 1]
              IN  /\ e \in Media /\ e.name = d.name /\ e.cache = d.cache /\ e.buf = d.buf
                  /\ \A x : OnDisk(d, x) => OnDisk(e, x)
<1>1. LET e == [d EXCEPT !.name = "durable"]
      IN  /\ e \in Media /\ e.name = "durable" /\ e.durable = d.durable
          /\ e.cache = d.cache /\ e.buf = d.buf
  BY Zenon DEF Media, Record
<1>2. ASSUME d.durable < Len(d.cache)
      PROVE  LET e == [d EXCEPT !.durable = d.durable + 1]
             IN  /\ e \in Media /\ e.name = d.name /\ e.cache = d.cache /\ e.buf = d.buf
                 /\ \A x : OnDisk(d, x) => OnDisk(e, x)
  <2>1. d.durable \in Nat /\ Len(d.cache) \in Nat
    BY DEF Media, Record
  <2> QED BY <1>2, <2>1 DEF Media, Record, OnDisk
<1> QED BY <1>1, <1>2, Zenon

\* Only the sequences of a file count for what is in it.
LEMMA SameContent ==
  ASSUME NEW d, NEW e, e.cache = d.cache, e.buf = d.buf
  PROVE  /\ InOrder(d) => InOrder(e)
         /\ \A x : Holds(e, x) <=> Holds(d, x)
         /\ d.durable = e.durable => (Complete(d) => Complete(e))
         /\ d.durable = e.durable => \A x : OnDisk(d, x) => OnDisk(e, x)
BY Zenon DEF InOrder, Holds, Complete, OnDisk

LEMMA OnDiskHolds ==
  ASSUME NEW d \in Media, NEW x, OnDisk(d, x)
  PROVE  Holds(d, x)
<1>1. d.durable \in Nat /\ Len(d.cache) \in Nat /\ d.durable <= Len(d.cache)
  BY DEF Media, Record
<1> QED BY <1>1 DEF OnDisk, Holds

LEMMA FilesInitially == FilesInit => FilesInv
<1> SUFFICES ASSUME FilesInit PROVE FilesInv
  BY Zenon
<1>1. NoName \in Media /\ InOrder(NoName) /\ Len(NoName.buf) = 0 /\ \A b : ~Holds(NoName, b)
  BY NewMedia, Zenon DEF NoName
<1>2. media \in [Files -> Media] /\ writer \in [Written -> Stages] /\ Running
  BY <1>1, Zenon DEF FilesInit, Files, Stages, Running, Written
<1>3. \A f \in Files : media[f] = NoName
  BY Zenon DEF FilesInit, Files
<1>4. \A f \in Written : writer[f] = "none" /\ f \in Files
  BY Zenon DEF FilesInit, Files
<1>5. FilesTypeOK
  BY <1>2, <1>4, Zenon DEF FilesTypeOK
<1>6. TableInv
  BY <1>1, <1>3, <1>4, Zenon DEF TableInv, Written
<1>7. DescriptorInv
  BY <1>1, <1>3, <1>4, Zenon DEF DescriptorInv, Written, FilesInit
<1>8. CopyInv
  BY Zenon DEF CopyInv, FilesInit
<1> QED BY <1>2, <1>5, <1>6, <1>7, <1>8, Zenon DEF FilesInv, CommittedSurvives

\* What holds while the machine runs, and is to be shown again after a step.
AtWork == Running /\ FilesTypeOK /\ TableInv /\ DescriptorInv /\ CopyInv

\* A call that fails.
LEMMA FailedCall ==
  ASSUME AtWork, NEW f \in Written, writer[f] # "closed",
         writer' = [writer EXCEPT ![f] = "failed"], UNCHANGED <<build, media, committed, copying>>
  PROVE  AtWork'
<1>1. writer'[f] = "failed" /\ \A g \in Written : g # f => writer'[g] = writer[g]
  BY Zenon DEF AtWork, FilesTypeOK
<1>2. FilesTypeOK' /\ Running'
  BY <1>1, Zenon DEF AtWork, FilesTypeOK, Running, Stages, Written
<1>3. TableInv'
  BY <1>1, Zenon DEF AtWork, TableInv, Written
<1>4. DescriptorInv'
  BY <1>1 DEF AtWork, DescriptorInv, Written
<1>5. CopyInv'
  BY <1>1, Zenon DEF AtWork, CopyInv, Written
<1> QED BY <1>2, <1>3, <1>4, <1>5, Zenon DEF AtWork

\* A call on a table that is not closed yet.
LEMMA TableCall ==
  ASSUME AtWork, NEW t \in Tables, writer[t] # "closed",
         NEW d \in Media, InOrder(d), d.name # "none", build.buffered \/ Len(d.buf) = 0,
         NEW to \in {"open", "synced", "closed"}, to # "open" => Complete(d),
         writer' = [writer EXCEPT ![t] = to], media' = [media EXCEPT ![t] = d],
         UNCHANGED <<build, committed, copying>>
  PROVE  AtWork'
<1>0. t # Descriptor /\ t # Target /\ t \in Written /\ t \in Files /\ Target \in Files
      /\ Descriptor \in Written /\ Descriptor \in Files /\ \A u \in Tables : u \in Written /\ u \in Files
  BY FilesAssumption, Zenon DEF Written, Files
<1>1. /\ writer'[t] = to /\ \A g \in Written : g # t => writer'[g] = writer[g]
      /\ media'[t] = d /\ \A g \in Files : g # t => media'[g] = media[g]
  BY <1>0, Zenon DEF AtWork, FilesTypeOK
<1>2. FilesTypeOK' /\ Running'
  BY <1>0, <1>1, Zenon DEF AtWork, FilesTypeOK, Running, Stages
<1>3. TableInv'
  BY <1>0, <1>1 DEF AtWork, TableInv
<1>4. ~Holds(media[Descriptor], t)
  BY Zenon DEF AtWork, DescriptorInv
<1>5. t \notin committed /\ \A u \in committed : u \in Tables
  <2>1. \A u \in committed : Holds(media[Descriptor], u)
    BY OnDiskHolds, Zenon DEF AtWork, DescriptorInv, FilesTypeOK, Files, Written
  <2> QED BY <1>4, <2>1, Zenon DEF AtWork, DescriptorInv
<1>6. DescriptorInv'
  BY <1>0, <1>1, <1>4, <1>5 DEF AtWork, DescriptorInv
<1>7. CopyInv'
  BY <1>0, <1>1 DEF AtWork, CopyInv
<1> QED BY <1>2, <1>3, <1>6, <1>7, Zenon DEF AtWork

\* A call on the descriptor.
LEMMA DescriptorCall ==
  ASSUME AtWork, NEW d \in Media, d.name # "none",
         \A b : Holds(d, b) => b \in Tables /\ writer[b] = "closed",
         \A t \in committed' : media[t].name = "durable" /\ d.name = "durable" /\ OnDisk(d, t),
         writer' = [writer EXCEPT ![Descriptor] = "open"],
         media' = [media EXCEPT ![Descriptor] = d], UNCHANGED <<build, copying>>
  PROVE  AtWork'
<1>0. /\ Descriptor \in Written /\ Descriptor \in Files /\ Target # Descriptor /\ Target \in Files
      /\ \A u \in Tables : u \in Written /\ u \in Files /\ u # Descriptor
  BY FilesAssumption, Zenon DEF Written, Files
<1>1. /\ writer'[Descriptor] = "open" /\ \A g \in Written : g # Descriptor => writer'[g] = writer[g]
      /\ media'[Descriptor] = d /\ \A g \in Files : g # Descriptor => media'[g] = media[g]
  BY <1>0, Zenon DEF AtWork, FilesTypeOK
<1>2. FilesTypeOK' /\ Running'
  BY <1>0, <1>1, Zenon DEF AtWork, FilesTypeOK, Running, Stages
<1>3. TableInv'
  BY <1>0, <1>1 DEF AtWork, TableInv
<1>4. \A t \in committed' : t \in Tables
  BY OnDiskHolds, Zenon
<1>5. DescriptorInv'
  BY <1>0, <1>1, <1>4 DEF DescriptorInv
<1>6. CopyInv'
  BY <1>0, <1>1 DEF AtWork, CopyInv
<1> QED BY <1>2, <1>3, <1>5, <1>6, Zenon DEF AtWork

\* The names of files, or the durable blocks of one, reach the disk.
LEMMA ReachesDisk ==
  ASSUME AtWork, media' \in [Files -> Media],
         \A f \in Files :
            /\ media'[f].cache = media[f].cache /\ media'[f].buf = media[f].buf
            /\ media'[f].name \in {media[f].name, "durable"}
            /\ \A x : OnDisk(media[f], x) => OnDisk(media'[f], x)
            /\ Complete(media[f]) => Complete(media'[f]),
         \/ UNCHANGED writer
         \/ /\ writer[Descriptor] = "open" /\ writer' = [writer EXCEPT ![Descriptor] = "dirSynced"]
            /\ \A f \in Files : media[f].name # "none" => media'[f].name = "durable",
         UNCHANGED <<build, committed, copying>>
  PROVE  AtWork'
<1>0. /\ Descriptor \in Written /\ Descriptor \in Files /\ Target # Descriptor /\ Target \in Files
      /\ \A u \in Tables : u \in Written /\ u \in Files /\ u # Descriptor
  BY FilesAssumption, Zenon DEF Written, Files
<1>1. /\ \A g \in Written : g # Descriptor => writer'[g] = writer[g]
      /\ writer'[Descriptor] = writer[Descriptor] \/
         (writer[Descriptor] = "open" /\ writer'[Descriptor] = "dirSynced"
          /\ \A f \in Files : media[f].name # "none" => media'[f].name = "durable")
  BY <1>0, Zenon DEF AtWork, FilesTypeOK
<1>2. FilesTypeOK' /\ Running'
  BY <1>0, <1>1, Zenon DEF AtWork, FilesTypeOK, Running, Stages
<1>3. \A f \in Files : /\ InOrder(media[f]) => InOrder(media'[f])
                       /\ \A x : Holds(media'[f], x) <=> Holds(media[f], x)
                       /\ media'[f].name = "none" => media[f].name = "none"
                       /\ media[f].name = "durable" => media'[f].name = "durable"
  BY SameContent, Zenon
<1>4. TableInv'
  BY <1>0, <1>1, <1>3 DEF AtWork, TableInv
<1>5. \A t \in committed : t \in Tables
  BY <1>0, OnDiskHolds, Zenon DEF AtWork, DescriptorInv, FilesTypeOK
<1>6. DescriptorInv'
  BY <1>0, <1>1, <1>3, <1>4, <1>5, SMTT(30) DEF AtWork, DescriptorInv, TableInv
<1>7. CopyInv'
  BY <1>0, <1>1, <1>3, Zenon DEF AtWork, CopyInv
<1> QED BY <1>2, <1>4, <1>6, <1>7, Zenon DEF AtWork

\* A step of a copy.
LEMMA CopyStep ==
  ASSUME AtWork, NEW d \in Media, media' = [media EXCEPT ![Target] = d] \/ UNCHANGED media,
         CopyInv', UNCHANGED <<build, writer, committed>>
  PROVE  AtWork'
<1>0. /\ Descriptor \in Files /\ Target # Descriptor /\ Target \in Files
      /\ \A u \in Tables : u \in Files /\ u # Target
  BY FilesAssumption, Zenon DEF Written, Files
<1>1. \A g \in Files : g # Target => media'[g] = media[g]
  BY <1>0, Zenon DEF AtWork, FilesTypeOK
<1>2. FilesTypeOK' /\ Running'
  BY <1>0, Zenon DEF AtWork, FilesTypeOK, Running
<1>3. TableInv'
  BY <1>0, <1>1, Zenon DEF AtWork, TableInv
<1>4. \A t \in committed : t \in Tables
  BY <1>0, OnDiskHolds, Zenon DEF AtWork, DescriptorInv, FilesTypeOK
<1>5. DescriptorInv'
  BY <1>0, <1>1, <1>4 DEF AtWork, DescriptorInv
<1> QED BY <1>2, <1>3, <1>5, Zenon DEF AtWork

\* The number of the next block, as the writer of a table counts it.
LEMMA BlocksSoFar ==
  ASSUME NEW d \in Media
  PROVE  /\ Len(d.buf \o d.cache) = Len(d.cache) + Len(d.buf)
         /\ Len(d.buf \o d.cache) + 1 \in Nat /\ Len(d.cache) \in Nat
<1>1. d.buf \in Seq(Blocks) /\ d.cache \in Seq(Blocks)
  BY Zenon DEF Media, Record
<1>2. \A b, c \in Seq(Blocks) : /\ Len(b \o c) = Len(c) + Len(b)
                                /\ Len(b \o c) + 1 \in Nat /\ Len(c) \in Nat
  BY Concatenated
<1> QED BY <1>1, <1>2, Zenon

\* A table of TableSize blocks in order is whole.
LEMMA WholeSequence ==
  ASSUME NEW c \in Seq(Blocks), Len(c) = TableSize, \A i \in 1..TableSize : c[i] = i
  PROVE  c = [i \in 1..TableSize |-> i]
<1>1. c \in [1..TableSize -> Blocks] /\ DOMAIN c = 1..TableSize
  OBVIOUS
<1> QED BY <1>1, Zenon

\* What a crash leaves of a file.
LEMMA AfterCrashMedia ==
  ASSUME NEW d \in Media
  PROVE  LET e == AfterCrash(d)
         IN  /\ e \in Media
             /\ d.name = "durable" => /\ Len(e.cache) = d.durable
                                     /\ \A i \in 1..d.durable : e.cache[i] = d.cache[i]
<1> DEFINE c == SubSeq(d.cache, 1, d.durable)
<1>1. d.cache \in Seq(Blocks) /\ d.durable \in Nat /\ d.durable <= Len(d.cache) /\ Len(d.cache) \in Nat
  BY DEF Media, Record
<1>2. c \in Seq(Blocks) /\ Len(c) = d.durable /\ \A i \in 1..d.durable : c[i] = d.cache[i]
  BY <1>1
<1> HIDE DEF c
<1>3. CASE d.name # "durable"
  BY <1>3, NewMedia, Zenon DEF NoName, AfterCrash
<1>4. CASE d.name = "durable"
  <2>1. AfterCrash(d) = [name |-> "durable", buf |-> <<>>, cache |-> c, durable |-> d.durable]
    BY <1>4, Zenon DEF AfterCrash, c
  <2>2. AfterCrash(d) \in Media
    BY <1>1, <1>2, <2>1 DEF Media, Record
  <2> QED BY <1>2, <2>1, <2>2
<1> QED BY <1>3, <1>4, Zenon

LEMMA CrashStep ==
  ASSUME AtWork, Crash
  PROVE  FilesInv'
<1>0. /\ Descriptor \in Written /\ Descriptor \in Files
      /\ \A u \in Tables : u \in Files
  BY Zenon DEF Written, Files
<1>1. /\ media' = [f \in Files |-> AfterCrash(media[f])]
      /\ UNCHANGED committed /\ copying' = NoCopy
      /\ writer' = [f \in Written |-> "crashed"]
  BY Zenon DEF Crash, AtWork, FilesTypeOK
<1>2. \A f \in Files :
         /\ media'[f] \in Media
         /\ media[f].name = "durable" =>
              /\ Len(media'[f].cache) = media[f].durable
              /\ \A i \in 1..media[f].durable : media'[f].cache[i] = media[f].cache[i]
  BY <1>1, AfterCrashMedia, Zenon DEF AtWork, FilesTypeOK
<1>3. \A f \in Files : media[f] \in Media
  BY Zenon DEF AtWork, FilesTypeOK
<1>4. FilesTypeOK' /\ ~Running'
  BY <1>0, <1>1, <1>2, Zenon DEF FilesTypeOK, Running, Stages
<1>5. ASSUME NEW t \in committed
      PROVE  /\ \E i \in 1..Len(media'[Descriptor].cache) : media'[Descriptor].cache[i] = t
             /\ media'[t].cache = [i \in 1..TableSize |-> i]
  <2>1. /\ media[t].name = "durable" /\ media[Descriptor].name = "durable"
        /\ OnDisk(media[Descriptor], t)
    BY Zenon DEF AtWork, DescriptorInv
  <2>2. t \in Tables /\ writer[t] = "closed"
    BY <1>0, <1>3, <2>1, OnDiskHolds, Zenon DEF AtWork, DescriptorInv
  <2>3. \E i \in 1..Len(media'[Descriptor].cache) : media'[Descriptor].cache[i] = t
    BY <1>0, <1>2, <2>1, Zenon DEF OnDisk
  <2>4. InOrder(media[t]) /\ media[t].durable = TableSize /\ Len(media[t].cache) = TableSize
    BY <2>2, Zenon DEF AtWork, TableInv, Complete
  <2>5. /\ media'[t].cache \in Seq(Blocks) /\ Len(media'[t].cache) = TableSize
        /\ \A i \in 1..TableSize : media'[t].cache[i] = i
    <3>1. media'[t] \in Media /\ t \in Files
      BY <1>0, <1>2, <2>2, Zenon
    <3>2. media'[t].cache \in Seq(Blocks)
      BY <3>1, Zenon DEF Media, Record
    <3> QED BY <1>2, <2>1, <2>4, <3>1, <3>2, Zenon DEF InOrder
  <2> QED BY <2>3, <2>5, WholeSequence, Zenon
<1>6. CommittedSurvives'
  BY <1>1, <1>5, Zenon DEF CommittedSurvives, Whole
<1> QED BY <1>1, <1>4, <1>6, Zenon DEF FilesInv

LEMMA SyncDirStep ==
  ASSUME AtWork, NEW f \in Written, SyncDirIfManifest(f)
  PROVE  AtWork'
<1>1. f = Descriptor /\ writer[f] = "open" /\ UNCHANGED <<build, committed, copying>>
  BY Zenon DEF SyncDirIfManifest
<1>2. CASE writer' = [writer EXCEPT ![f] = "failed"] /\ UNCHANGED media
  BY <1>1, <1>2, FailedCall, Zenon
<1>3. CASE /\ writer' = [writer EXCEPT ![f] = "dirSynced"]
           /\ media' = [g \in DOMAIN media |-> IF media[g].name = "none" THEN media[g]
                                               ELSE [media[g] EXCEPT !.name = "durable"]]
  <2>1. media' = [g \in Files |-> IF media[g].name = "none" THEN media[g]
                                  ELSE [media[g] EXCEPT !.name = "durable"]]
        /\ \A g \in Files : media[g] \in Media
    BY <1>3, Zenon DEF AtWork, FilesTypeOK
  <2>2. ASSUME NEW g \in Files
        PROVE  /\ media'[g] \in Media
               /\ media'[g].cache = media[g].cache /\ media'[g].buf = media[g].buf
               /\ media'[g].durable = media[g].durable
               /\ media'[g].name \in {media[g].name, "durable"}
               /\ media[g].name # "none" => media'[g].name = "durable"
    BY <2>1, WrittenBack, Zenon
  <2>3. \A g \in Files : /\ \A x : OnDisk(media[g], x) => OnDisk(media'[g], x)
                         /\ Complete(media[g]) => Complete(media'[g])
    BY <2>2, Zenon DEF OnDisk, Complete
  <2>4. media' \in [Files -> Media]
    BY <2>1, <2>2, Zenon
  <2> QED BY <1>1, <1>3, <2>2, <2>3, <2>4, ReachesDisk, Zenon
<1> QED BY <1>2, <1>3, Zenon DEF SyncDirIfManifest

LEMMA WritebackStep ==
  ASSUME AtWork, NEW f \in Files, Writeback(f)
  PROVE  AtWork'
<1>1. media \in [Files -> Media] /\ media[f] \in Media
      /\ UNCHANGED <<build, writer, committed, copying>>
  BY Zenon DEF AtWork, FilesTypeOK, Writeback
<1>2. PICK e \in Media : /\ media' = [media EXCEPT ![f] = e]
                         /\ e.cache = media[f].cache /\ e.buf = media[f].buf
                         /\ e.name \in {media[f].name, "durable"}
                         /\ \A x : OnDisk(media[f], x) => OnDisk(e, x)
                         /\ Complete(media[f]) => Complete(e)
  <2>1. CASE media' = [media EXCEPT ![f] = [media[f] EXCEPT !.name = "durable"]]
    <3> DEFINE e == [media[f] EXCEPT !.name = "durable"]
    <3>1. /\ e \in Media /\ e.name = "durable" /\ e.durable = media[f].durable
          /\ e.cache = media[f].cache /\ e.buf = media[f].buf
      BY <1>1, WrittenBack, Zenon
    <3>2. (\A x : OnDisk(media[f], x) => OnDisk(e, x)) /\ (Complete(media[f]) => Complete(e))
      BY <3>1, Zenon DEF OnDisk, Complete
    <3> QED BY <2>1, <3>1, <3>2, Zenon
  <2>2. CASE /\ media[f].durable < Len(media[f].cache)
             /\ media' = [media EXCEPT ![f] = [media[f] EXCEPT !.durable = media[f].durable + 1]]
    <3>1. ~Complete(media[f])
      BY <1>1, <2>2, FilesAssumption DEF Complete
    <3> QED BY <1>1, <2>2, <3>1, WrittenBack, Zenon
  <2> QED BY <2>1, <2>2, Zenon DEF Writeback
<1>3. \A g \in Files : media'[g] = IF g = f THEN e ELSE media[g]
  BY <1>1, <1>2, Zenon
<1>4. media' \in [Files -> Media]
  BY <1>1, <1>2, Zenon
<1> QED BY <1>1, <1>2, <1>3, <1>4, ReachesDisk, Zenon

\* What a call leaves as it is, and the two ways it ends.
LEMMA Calls ==
  ASSUME AtWork, NEW f \in Written, NEW from, NEW to, NEW d, Call(f, from, to, d)
  PROVE  /\ writer[f] = from /\ UNCHANGED <<build, copying>> /\ media[f] \in Media
         /\ \/ writer' = [writer EXCEPT ![f] = to] /\ media' = [media EXCEPT ![f] = d]
            \/ writer' = [writer EXCEPT ![f] = "failed"] /\ UNCHANGED media
BY Zenon DEF Call, AtWork, FilesTypeOK, Files

LEMMA NewStep ==
  ASSUME AtWork, NEW f \in Written, NewWritableFile(f)
  PROVE  AtWork'
<1> DEFINE d == EmptyFile("cached")
<1>1. Call(f, "none", "open", d) /\ UNCHANGED committed
  BY Zenon DEF NewWritableFile
<1>2. /\ d \in Media /\ d.name = "cached" /\ InOrder(d) /\ Len(d.buf) = 0
      /\ \A b : ~Holds(d, b)
  BY NewMedia, Zenon
<1> HIDE DEF d
<1>3. /\ writer[f] = "none" /\ UNCHANGED <<build, copying>>
      /\ \/ writer' = [writer EXCEPT ![f] = "open"] /\ media' = [media EXCEPT ![f] = d]
         \/ writer' = [writer EXCEPT ![f] = "failed"] /\ UNCHANGED media
  BY <1>1, Calls, Zenon
<1>4. CASE writer' = [writer EXCEPT ![f] = "failed"] /\ UNCHANGED media
  BY <1>1, <1>3, <1>4, FailedCall, Zenon
<1>5. CASE writer' = [writer EXCEPT ![f] = "open"] /\ media' = [media EXCEPT ![f] = d]
  <2>1. CASE f \in Tables
    BY <1>1, <1>2, <1>3, <1>5, <2>1, TableCall, Zenon
  <2>2. CASE f = Descriptor
    <3>1. committed' = {}
      BY <1>1, <1>3, <2>2, Zenon DEF AtWork, DescriptorInv
    <3> QED BY <1>2, <1>3, <1>5, <2>2, <3>1, DescriptorCall, Zenon
  <2> QED BY <2>1, <2>2, Zenon DEF Written
<1> QED BY <1>3, <1>4, <1>5, Zenon

LEMMA AppendStep ==
  ASSUME AtWork, NEW t \in Tables, AppendBlock(t, Len(media[t].buf \o media[t].cache) + 1)
  PROVE  AtWork'
<1> DEFINE b == Len(media[t].buf \o media[t].cache) + 1
           d == IF build.buffered THEN BufferedAppend(media[t], b) ELSE PlainAppend(media[t], b)
<1>1. Call(t, "open", "open", d) /\ UNCHANGED committed /\ t \in Written
  BY Zenon DEF AppendBlock, Written
<1> HIDE DEF d
<1>2. /\ writer[t] = "open" /\ UNCHANGED <<build, copying>> /\ media[t] \in Media
      /\ \/ writer' = [writer EXCEPT ![t] = "open"] /\ media' = [media EXCEPT ![t] = d]
         \/ writer' = [writer EXCEPT ![t] = "failed"] /\ UNCHANGED media
  BY <1>1, Calls, Zenon
<1>3. /\ media[t].name # "none" /\ InOrder(media[t])
      /\ build.buffered \/ Len(media[t].buf) = 0
  BY <1>2, Zenon DEF AtWork, TableInv
<1>4. b = Len(media[t].cache) + Len(media[t].buf) + 1 /\ b \in Blocks
      /\ Len(media[t].cache) \in Nat
  BY <1>2, BlocksSoFar, Zenon DEF Blocks
<1> HIDE DEF b
<1>5. d \in Media /\ d.name # "none" /\ InOrder(d) /\ (build.buffered \/ Len(d.buf) = 0)
  <2> USE DEF d
  <2>1. CASE build.buffered
    BY <1>2, <1>3, <1>4, <2>1, BufferedMedia, Zenon
  <2>2. CASE ~build.buffered
    <3>0. Len(media[t].buf) = 0
      BY <1>3, <2>2, Zenon
    <3>1. Len(media[t].buf) = 0 /\ b = Len(media[t].cache) + 1
      BY <1>4, <3>0
    <3> QED BY <1>2, <1>3, <1>4, <2>2, <3>1, PlainMedia, Zenon
  <2> QED BY <2>1, <2>2, Zenon
<1> HIDE DEF d
<1>6. CASE writer' = [writer EXCEPT ![t] = "failed"] /\ UNCHANGED media
  BY <1>1, <1>2, <1>6, FailedCall, Zenon
<1>7. CASE writer' = [writer EXCEPT ![t] = "open"] /\ media' = [media EXCEPT ![t] = d]
  BY <1>1, <1>2, <1>5, <1>7, TableCall, Zenon
<1> QED BY <1>2, <1>6, <1>7, Zenon

LEMMA LogStep ==
  ASSUME AtWork, NEW t \in Tables, LogTable(t)
  PROVE  AtWork'
<1> DEFINE m == media[Descriptor]
           d == IF build.buffered THEN BufferedAppend(m, t) ELSE PlainAppend(m, t)
<1>1. /\ Call(Descriptor, "open", "open", d) /\ UNCHANGED committed /\ Descriptor \in Written
      /\ writer[t] = "closed"
  BY Zenon DEF LogTable, AppendBlock, Written
<1> HIDE DEF d
<1>2. /\ writer[Descriptor] = "open" /\ UNCHANGED <<build, copying>> /\ m \in Media
      /\ \/ writer' = [writer EXCEPT ![Descriptor] = "open"] /\ media' = [media EXCEPT ![Descriptor] = d]
         \/ writer' = [writer EXCEPT ![Descriptor] = "failed"] /\ UNCHANGED media
  BY <1>1, Calls, Zenon
<1>3. /\ d \in Media /\ d.name = m.name
      /\ \A x : Holds(d, x) => Holds(m, x) \/ x = t
      /\ \A x : OnDisk(m, x) => OnDisk(d, x)
  <2> USE DEF d
  <2>1. CASE build.buffered
    BY <1>2, <2>1, BufferedMedia, Zenon DEF Blocks, OnDisk
  <2>2. CASE ~build.buffered
    BY <1>2, <2>2, PlainMedia, Zenon DEF Blocks
  <2> QED BY <2>1, <2>2, Zenon
<1> HIDE DEF d
<1>4. CASE writer' = [writer EXCEPT ![Descriptor] = "failed"] /\ UNCHANGED media
  BY <1>1, <1>2, <1>4, FailedCall, Zenon
<1>5. CASE writer' = [writer EXCEPT ![Descriptor] = "open"] /\ media' = [media EXCEPT ![Descriptor] = d]
  <2>1. /\ d.name # "none" /\ \A b : Holds(d, b) => b \in Tables /\ writer[b] = "closed"
        /\ \A u \in committed' : media[u].name = "durable" /\ d.name = "durable" /\ OnDisk(d, u)
    BY <1>1, <1>2, <1>3, Zenon DEF AtWork, DescriptorInv
  <2> QED BY <1>2, <1>3, <1>5, <2>1, DescriptorCall, Zenon
<1> QED BY <1>2, <1>4, <1>5, Zenon

LEMMA FlushStep ==
  ASSUME AtWork, NEW f \in Written, FlushBuffer(f)
  PROVE  AtWork'
<1> DEFINE d == Flushed(media[f])
<1>1. Call(f, "open", "open", d) /\ UNCHANGED committed
  BY Zenon DEF FlushBuffer
<1>2. /\ writer[f] = "open" /\ UNCHANGED <<build, copying>> /\ media[f] \in Media
      /\ \/ writer' = [writer EXCEPT ![f] = "open"] /\ media' = [media EXCEPT ![f] = d]
         \/ writer' = [writer EXCEPT ![f] = "failed"] /\ UNCHANGED media
  BY <1>1, Calls, Zenon
<1>3. /\ d \in Media /\ d.name = media[f].name /\ Len(d.buf) = 0
      /\ \A x : Holds(d, x) => Holds(media[f], x)
      /\ \A x : OnDisk(media[f], x) => OnDisk(d, x)
      /\ InOrder(media[f]) => InOrder(d)
  BY <1>2, FlushedMedia, Zenon
<1> HIDE DEF d
<1>4. CASE writer' = [writer EXCEPT ![f] = "failed"] /\ UNCHANGED media
  BY <1>1, <1>2, <1>4, FailedCall, Zenon
<1>5. CASE writer' = [writer EXCEPT ![f] = "open"] /\ media' = [media EXCEPT ![f] = d]
  <2>1. CASE f \in Tables
    <3>1. d.name # "none" /\ InOrder(d)
      BY <1>2, <1>3, <2>1, Zenon DEF AtWork, TableInv
    <3> QED BY <1>1, <1>2, <1>3, <1>5, <2>1, <3>1, TableCall, Zenon
  <2>2. CASE f = Descriptor
    <3>1. /\ d.name # "none" /\ \A b : Holds(d, b) => b \in Tables /\ writer[b] = "closed"
          /\ \A u \in committed' : media[u].name = "durable" /\ d.name = "durable" /\ OnDisk(d, u)
      BY <1>1, <1>2, <1>3, <2>2, Zenon DEF AtWork, DescriptorInv
    <3> QED BY <1>2, <1>3, <1>5, <2>2, <3>1, DescriptorCall, Zenon
  <2> QED BY <2>1, <2>2, Zenon DEF Written
<1> QED BY <1>2, <1>4, <1>5, Zenon

LEMMA CloseStep ==
  ASSUME AtWork, NEW f \in Written, CloseFile(f)
  PROVE  AtWork'
<1> DEFINE d == Flushed(media[f])
<1>1. Call(f, "synced", "closed", d) /\ UNCHANGED committed
  BY Zenon DEF CloseFile
<1>2. /\ writer[f] = "synced" /\ UNCHANGED <<build, copying>> /\ media[f] \in Media
      /\ \/ writer' = [writer EXCEPT ![f] = "closed"] /\ media' = [media EXCEPT ![f] = d]
         \/ writer' = [writer EXCEPT ![f] = "failed"] /\ UNCHANGED media
  BY <1>1, Calls, Zenon
<1>3. f \in Tables
  BY <1>2, Zenon DEF Written, AtWork, DescriptorInv
<1>4. media[f].name # "none" /\ InOrder(media[f]) /\ Complete(media[f])
  BY <1>2, <1>3, Zenon DEF AtWork, TableInv
<1>5. d \in Media /\ d.name # "none" /\ InOrder(d) /\ Complete(d) /\ Len(d.buf) = 0
  <2>1. Len(media[f].cache) + 0 = Len(media[f].cache)
    BY <1>2 DEF Media, Record
  <2> QED BY <1>2, <1>4, <2>1, FlushedMedia, Zenon DEF Complete
<1> HIDE DEF d
<1>6. CASE writer' = [writer EXCEPT ![f] = "failed"] /\ UNCHANGED media
  BY <1>1, <1>2, <1>6, FailedCall, Zenon
<1>7. CASE writer' = [writer EXCEPT ![f] = "closed"] /\ media' = [media EXCEPT ![f] = d]
  BY <1>1, <1>2, <1>3, <1>5, <1>7, TableCall, Zenon
<1> QED BY <1>2, <1>6, <1>7, Zenon

LEMMA SyncStep ==
  ASSUME AtWork, NEW f \in Written, SyncData(f)
  PROVE  AtWork'
<1> DEFINE c == Flushed(media[f]).cache
           d == [Flushed(media[f]) EXCEPT !.durable = Len(Flushed(media[f]).cache)]
<1>1. /\ Filled(f)
      /\ f = Descriptor => Call(f, "dirSynced", "open", d)
      /\ f # Descriptor => Call(f, "open", "synced", d)
      /\ committed' = IF f = Descriptor /\ writer'[f] = "open"
                      THEN committed \cup {c[i] : i \in 1..Len(c)} ELSE committed
  BY Zenon DEF SyncData
<1>2. media[f] \in Media /\ writer \in [Written -> Stages]
  BY Zenon DEF AtWork, FilesTypeOK, Files
<1>3. /\ d \in Media /\ d.name = media[f].name /\ Len(d.buf) = 0
      /\ d.cache = c /\ d.durable = Len(media[f].cache) + Len(media[f].buf) /\ Len(d.cache) = d.durable
      /\ \A x : Holds(d, x) => Holds(media[f], x)
      /\ \A x : OnDisk(media[f], x) => OnDisk(d, x)
      /\ InOrder(media[f]) => InOrder(d)
  BY <1>2, SyncedMedia, Zenon
<1> HIDE DEF d, c
<1>4. CASE f # Descriptor
  <2>1. /\ writer[f] = "open" /\ UNCHANGED <<build, copying, committed>> /\ f \in Tables
        /\ \/ writer' = [writer EXCEPT ![f] = "synced"] /\ media' = [media EXCEPT ![f] = d]
           \/ writer' = [writer EXCEPT ![f] = "failed"] /\ UNCHANGED media
    BY <1>1, <1>4, Calls, Zenon DEF Written
  <2>2. CASE writer' = [writer EXCEPT ![f] = "failed"] /\ UNCHANGED media
    BY <2>1, <2>2, FailedCall, Zenon
  <2>3. CASE writer' = [writer EXCEPT ![f] = "synced"] /\ media' = [media EXCEPT ![f] = d]
    <3>3. d.durable = TableSize
      BY <1>1, <1>2, <1>3, <2>1, BlocksSoFar, Zenon DEF Filled
    <3>4. Complete(d)
      BY <1>3, <3>3, Zenon DEF Complete
    <3>5. d.name # "none" /\ InOrder(d)
      BY <1>3, <2>1, Zenon DEF AtWork, TableInv
    <3> QED BY <1>3, <2>1, <2>3, <3>4, <3>5, TableCall, Zenon
  <2> QED BY <2>1, <2>2, <2>3, Zenon
<1>5. CASE f = Descriptor
  <2>1. /\ writer[f] = "dirSynced" /\ UNCHANGED <<build, copying>>
        /\ \/ writer' = [writer EXCEPT ![f] = "open"] /\ media' = [media EXCEPT ![f] = d]
           \/ writer' = [writer EXCEPT ![f] = "failed"] /\ UNCHANGED media
    BY <1>1, <1>5, Calls, Zenon
  <2>2. CASE writer' = [writer EXCEPT ![f] = "failed"] /\ UNCHANGED media
    <3>1. UNCHANGED committed
      BY <1>1, <1>2, <2>2, Zenon
    <3> QED BY <2>1, <2>2, <3>1, FailedCall, Zenon
  <2>3. CASE writer' = [writer EXCEPT ![f] = "open"] /\ media' = [media EXCEPT ![f] = d]
    <3>1. committed' = committed \cup {c[i] : i \in 1..Len(c)}
      BY <1>1, <1>2, <1>5, <2>3, Zenon
    <3>2. d.name = "durable" /\ \A b : Holds(d, b) => /\ b \in Tables /\ writer[b] = "closed"
                                                      /\ media[b].name = "durable"
      BY <1>3, <1>5, <2>1, Zenon DEF AtWork, DescriptorInv
    <3>3. \A i \in 1..Len(c) : Holds(d, c[i]) /\ OnDisk(d, c[i])
      BY <1>3, Zenon DEF Holds, OnDisk
    <3>4. \A u \in committed : media[u].name = "durable" /\ OnDisk(d, u)
      BY <1>3, <1>5, Zenon DEF AtWork, DescriptorInv
    <3>5. \A u \in committed' : media[u].name = "durable" /\ d.name = "durable" /\ OnDisk(d, u)
      BY <3>1, <3>2, <3>3, <3>4, Zenon
    <3>6. d.name # "none"
      BY <3>2, Zenon
    <3> QED BY <1>3, <1>5, <2>1, <2>3, <3>2, <3>5, <3>6, DescriptorCall, Zenon
  <2> QED BY <2>1, <2>2, <2>3, Zenon
<1> QED BY <1>4, <1>5, Zenon

LEMMA StartCopyStep ==
  ASSUME AtWork, NEW t \in Tables, StartCopy(t)
  PROVE  AtWork'
<1> DEFINE d == EmptyFile("cached")
<1>1. /\ writer[t] = "closed" /\ UNCHANGED <<build, writer, committed>>
      /\ copying' = [state |-> "copying", src |-> t, fault |-> FALSE]
      /\ media' = [media EXCEPT ![Target] = d]
  BY Zenon DEF StartCopy
<1>2. d \in Media /\ InOrder(d) /\ Len(d.buf) = 0
  BY NewMedia, Zenon
<1> HIDE DEF d
<1>3. media'[Target] = d
  BY <1>1, Zenon DEF AtWork, FilesTypeOK, Files
<1>4. CopyInv'
  BY <1>1, <1>2, <1>3, Zenon DEF CopyInv
<1> QED BY <1>1, <1>2, <1>4, CopyStep, Zenon

LEMMA CopyBlockStep ==
  ASSUME AtWork, CopyBlock
  PROVE  AtWork'
<1> DEFINE s == copying.src
           e == media[Target]
           n == Len(e.cache)
           b == media[s].cache[n + 1]
           d == PlainAppend(e, b)
<1>1. /\ copying # NoCopy /\ copying.state = "copying"
      /\ UNCHANGED <<build, writer, committed>>
      /\ \/ n < Len(media[s].cache) /\ media' = [media EXCEPT ![Target] = d] /\ UNCHANGED copying
         \/ n = Len(media[s].cache) /\ copying' = [copying EXCEPT !.state = "ok"] /\ UNCHANGED media
         \/ /\ copying' = [copying EXCEPT !.state = IF build.linux THEN FastCopyFault ELSE "error",
                                          !.fault = TRUE]
            /\ UNCHANGED media
  <2>1. copying # NoCopy
    BY DEF CopyBlock, NoCopy
  <2> QED BY <2>1, Zenon DEF CopyBlock
<1>2. /\ copying \in [state : {"copying", "ok", "error"}, src : Tables, fault : BOOLEAN]
      /\ writer[s] = "closed" /\ InOrder(e) /\ Len(e.buf) = 0 /\ s \in Tables
  BY <1>1, Zenon DEF AtWork, CopyInv
<1>3. InOrder(media[s]) /\ Len(media[s].cache) = TableSize
  BY <1>2, Zenon DEF AtWork, TableInv, Complete
<1>4. e \in Media /\ n \in Nat
  <2>1. e \in Media
    BY Zenon DEF AtWork, FilesTypeOK, Files
  <2> QED BY <2>1 DEF Media, Record
<1> HIDE DEF e
<1>5. CASE n < Len(media[s].cache) /\ media' = [media EXCEPT ![Target] = d] /\ UNCHANGED copying
  <2>1. b = n + 1 /\ b \in Blocks
    BY <1>3, <1>4, <1>5, FilesAssumption DEF InOrder, Blocks
  <2> HIDE DEF b
  <2>2. d \in Media /\ InOrder(d) /\ Len(d.buf) = 0
    BY <1>2, <1>4, <2>1, PlainMedia, Zenon
  <2> HIDE DEF d
  <2>3. media'[Target] = d
    BY <1>5, Zenon DEF AtWork, FilesTypeOK, Files
  <2>4. CopyInv'
    BY <1>1, <1>2, <1>5, <2>2, <2>3, Zenon DEF CopyInv
  <2> QED BY <1>1, <1>5, <2>2, <2>4, CopyStep, Zenon
<1> HIDE DEF d, b
<1>6. CASE n = Len(media[s].cache) /\ copying' = [copying EXCEPT !.state = "ok"] /\ UNCHANGED media
  <2>1. CopyInv'
    BY <1>1, <1>2, <1>3, <1>6, Zenon DEF CopyInv, e
  <2> QED BY <1>1, <1>4, <1>6, <2>1, CopyStep, Zenon
<1>7. CASE /\ copying' = [copying EXCEPT !.state = IF build.linux THEN FastCopyFault ELSE "error",
                                         !.fault = TRUE]
           /\ UNCHANGED media
  <2>1. \/ build.linux /\ copying' = [state |-> "ok", src |-> s, fault |-> TRUE]
        \/ copying' = [state |-> "error", src |-> s, fault |-> TRUE]
    BY <1>2, <1>7, Zenon DEF FastCopyFault
  <2>2. CopyInv'
    BY <1>1, <1>2, <1>7, <2>1, Zenon DEF CopyInv, e
  <2> QED BY <1>1, <1>4, <1>7, <2>2, CopyStep, Zenon
<1> QED BY <1>1, <1>5, <1>6, <1>7, Zenon

LEMMA FilesStep == FilesInv /\ [FilesNext]_fileVars => FilesInv'
<1>1. ASSUME FilesInv, UNCHANGED fileVars PROVE FilesInv'
  <2>1. UNCHANGED <<build, media, writer, committed, copying>>
    BY <1>1, Zenon DEF fileVars
  <2>2. Running' = Running /\ FilesTypeOK' = FilesTypeOK
    BY <2>1, Zenon DEF Running, FilesTypeOK
  <2>3. TableInv' = TableInv /\ CopyInv' = CopyInv
    BY <2>1, Zenon DEF TableInv, CopyInv
  <2>4. DescriptorInv' = DescriptorInv
    BY <2>1, Zenon DEF DescriptorInv
  <2>5. CommittedSurvives' = CommittedSurvives
    BY <2>1, <2>2, Zenon DEF CommittedSurvives, Whole
  <2> QED BY <1>1, <2>1, <2>2, <2>3, <2>4, <2>5, Zenon DEF FilesInv
<1>2. ASSUME FilesInv, FilesNext PROVE FilesInv'
  <2>1. FilesInv /\ Running => AtWork
    BY Zenon DEF FilesInv, AtWork
  <2>2. AtWork' => FilesInv'
    BY Zenon DEF FilesInv, AtWork, CommittedSurvives
  <2>3. ASSUME NEW f \in Written,
               \/ NewWritableFile(f) \/ FlushBuffer(f)
               \/ SyncDirIfManifest(f) \/ SyncData(f) \/ CloseFile(f)
        PROVE  FilesInv'
    <3>1. AtWork
      BY <1>2, <2>1, <2>3, Zenon DEF NewWritableFile, FlushBuffer, SyncDirIfManifest, SyncData,
         CloseFile, Call
    <3> QED BY <2>2, <2>3, <3>1, NewStep, FlushStep, SyncDirStep, SyncStep, CloseStep, Zenon
  <2>4. ASSUME NEW t \in Tables,
               \/ AppendBlock(t, Len(media[t].buf \o media[t].cache) + 1)
               \/ LogTable(t) \/ StartCopy(t)
        PROVE  FilesInv'
    <3>1. AtWork
      BY <1>2, <2>1, <2>4, Zenon DEF AppendBlock, LogTable, StartCopy, Call
    <3> QED BY <2>2, <2>4, <3>1, AppendStep, LogStep, StartCopyStep, Zenon
  <2>5. ASSUME NEW f \in DOMAIN media, Writeback(f) PROVE FilesInv'
    <3>1. AtWork
      BY <1>2, <2>1, <2>5, Zenon DEF Writeback
    <3>2. f \in Files
      BY <3>1, Zenon DEF AtWork, FilesTypeOK
    <3> QED BY <2>2, <2>5, <3>1, <3>2, WritebackStep, Zenon
  <2>6. CASE CopyBlock
    <3>1. AtWork
      BY <1>2, <2>1, <2>6, Zenon DEF CopyBlock
    <3> QED BY <2>2, <2>6, <3>1, CopyBlockStep, Zenon
  <2>7. CASE Crash
    <3>1. AtWork
      BY <1>2, <2>1, <2>7, Zenon DEF Crash
    <3> QED BY <2>7, <3>1, CrashStep, Zenon
  <2> QED BY <1>2, <2>3, <2>4, <2>5, <2>6, <2>7, Zenon DEF FilesNext
<1> QED BY <1>1, <1>2, Zenon

\* After a crash at any point, whatever the kernel had written back and whichever calls had failed,
\* every table that a synced MANIFEST names is there with all its blocks; and a copy that returned
\* OK is whole (posix_env.cc: SyncDirIfManifest, Sync, Close; posix_filecopy.cc).
THEOREM FilesAlwaysSurvive == FilesSpec => []FilesSurvive
<1>1. FilesInv => FilesSurvive
  <2> SUFFICES ASSUME FilesInv PROVE CopyReported
    BY Zenon DEF FilesInv, FilesSurvive
  <2>1. CASE copying = NoCopy
    BY <2>1, Zenon DEF CopyReported, NoCopy
  <2>2. CASE copying # NoCopy
    <3>1. CopyInv /\ media[Target] \in Media
      BY <2>2, Zenon DEF FilesInv, FilesTypeOK, Files
    <3>2. media[Target].cache \in Seq(Blocks)
      BY <3>1, Zenon DEF Media, Record
    <3>3. ASSUME copying.state = "ok", build.linux => ~copying.fault PROVE Whole(Target)
      <4>1. InOrder(media[Target]) /\ Len(media[Target].cache) = TableSize
        BY <2>2, <3>1, <3>3, Zenon DEF CopyInv
      <4> QED BY <3>2, <4>1, WholeSequence, Zenon DEF Whole, InOrder
    <3> QED BY <3>3, Zenon DEF CopyReported
  <2> QED BY <2>1, <2>2, Zenon
<1> QED BY <1>1, FilesInitially, FilesStep, PTL DEF FilesSpec

-----------------------------------------------------------------------------
(* The lock table.                                                         *)

\* What the counts rest on of FiniteSetTheorems: an assumption of the lemmas that count, which
\* Counts proves at the end of the module, where the library's theorems come in.
Counting ==
  /\ IsFiniteSet({}) /\ Cardinality({}) = 0 /\ \A S : IsFiniteSet(S) => (Cardinality(S) = 0 <=> S = {})
  /\ \A x : IsFiniteSet({x}) /\ Cardinality({x}) = 1
  /\ \A S : IsFiniteSet(S) => Cardinality(S) \in Nat
  /\ \A S, T : IsFiniteSet(S) /\ T \subseteq S =>
       /\ IsFiniteSet(T) /\ Cardinality(T) <= Cardinality(S)
       /\ Cardinality(S) = Cardinality(T) => S = T
  /\ \A S, x : IsFiniteSet(S) =>
       /\ IsFiniteSet(S \cup {x})
       /\ Cardinality(S \cup {x}) = IF x \in S THEN Cardinality(S) ELSE Cardinality(S) + 1
  /\ \A S, x : IsFiniteSet(S) =>
       /\ IsFiniteSet(S \ {x})
       /\ Cardinality(S \ {x}) = IF x \in S THEN Cardinality(S) - 1 ELSE Cardinality(S)
  /\ \A a, b \in Int : IsFiniteSet(a..b)
  /\ \A S, T : IsFiniteSet(S) /\ IsFiniteSet(T) => IsFiniteSet(S \X T)

LEMMA NoneCounted ==
  ASSUME Counting
  PROVE  IsFiniteSet({}) /\ Cardinality({}) = 0 /\ \A S : IsFiniteSet(S) => (Cardinality(S) = 0 <=> S = {})
BY Zenon DEF Counting

LEMMA OneCounted ==
  ASSUME Counting, NEW x
  PROVE  IsFiniteSet({x}) /\ Cardinality({x}) = 1
BY Zenon DEF Counting

LEMMA CountTyped ==
  ASSUME Counting, NEW S, IsFiniteSet(S)
  PROVE  Cardinality(S) \in Nat
BY Zenon DEF Counting

LEMMA PartCounted ==
  ASSUME Counting, NEW S, IsFiniteSet(S), NEW T \in SUBSET S
  PROVE  IsFiniteSet(T) /\ Cardinality(T) <= Cardinality(S) /\ (Cardinality(S) = Cardinality(T) => S = T)
BY Zenon DEF Counting

LEMMA OneAdded ==
  ASSUME Counting, NEW S, NEW x, IsFiniteSet(S)
  PROVE  /\ IsFiniteSet(S \cup {x})
         /\ Cardinality(S \cup {x}) = IF x \in S THEN Cardinality(S) ELSE Cardinality(S) + 1
BY Zenon DEF Counting

LEMMA OneRemoved ==
  ASSUME Counting, NEW S, NEW x, IsFiniteSet(S)
  PROVE  /\ IsFiniteSet(S \ {x})
         /\ Cardinality(S \ {x}) = IF x \in S THEN Cardinality(S) - 1 ELSE Cardinality(S)
BY Zenon DEF Counting

LEMMA RangeCounted ==
  ASSUME Counting, NEW a \in Int, NEW b \in Int
  PROVE  IsFiniteSet(a..b)
BY Zenon DEF Counting

LEMMA PairsCounted ==
  ASSUME Counting, NEW S, IsFiniteSet(S), NEW T, IsFiniteSet(T)
  PROVE  IsFiniteSet(S \X T)
BY Zenon DEF Counting

InCall == {"opened", "rejected", "removed"}
Entered == {"inserted", "held", "refused", "withdrawing", "unset"}
SameProcess(s, t) == ProcessOf[s] = ProcessOf[t]

\* The table has a process just while one of its threads, and only one, is between
\* Insert and Remove; the kernel's lock belongs to a thread that holds it.
LockInv ==
  /\ locker \in [Threads -> {"idle"} \cup InCall \cup Entered]
  /\ \A t \in Threads : locker[t] \in Entered => ProcessOf[t] \in lockedFiles
  /\ \A p \in lockedFiles : \E t \in Threads : ProcessOf[t] = p /\ locker[t] \in Entered
  /\ \A s, t \in Threads : SameProcess(s, t) /\ locker[s] \in Entered /\ locker[t] \in Entered => s = t
  /\ kernelLock # Nobody => \E t \in Threads : ProcessOf[t] = kernelLock /\ locker[t] = "held"

\* What each opener has is bounded by the files it opened.
Opener == [at : {"idle", "looked", "acquired", "failed"}, mapped : Nat, empty : Nat, opened : Nat]
SlotInv ==
  /\ opener \in [Openers -> Opener] /\ allowed \in Nat
  /\ \A o \in Openers :
       /\ opener[o].opened <= MaxOpens
       /\ opener[o].mapped + opener[o].empty
            + (IF opener[o].at = "idle" THEN 0 ELSE 1) <= opener[o].opened
  /\ allowed + Cardinality(Units(Taken)) + Cardinality(Acquiring) = MmapSlots

PosixInv == LockInv /\ SlotInv

LEMMA UnitsFinite ==
  ASSUME Counting, NEW f \in [Openers -> Nat]
  PROVE  IsFiniteSet(Units(f)) /\ Cardinality(Units(f)) \in Nat
<1>1. IsFiniteSet(1..MaxOpens)
  BY PosixAssumption, RangeCounted
<1>2. IsFiniteSet(Openers \X (1..MaxOpens))
  BY <1>1, PosixAssumption, PairsCounted, SMTT(30)
<1> QED BY <1>2, PartCounted, CountTyped, Zenon DEF Units

LEMMA OneUnitMore ==
  ASSUME Counting, NEW f \in [Openers -> Nat], NEW g \in [Openers -> Nat], NEW o \in Openers,
         g[o] = f[o] + 1, g[o] <= MaxOpens, \A u \in Openers : u # o => g[u] = f[u]
  PROVE  Cardinality(Units(g)) = Cardinality(Units(f)) + 1
<1>1. <<o, g[o]>> \in Openers \X (1..MaxOpens)
  BY PosixAssumption
<1>2. <<o, g[o]>> \notin Units(f)
  BY DEF Units
<1>3. Units(g) = Units(f) \cup {<<o, g[o]>>}
  <2>1. ASSUME NEW u \in Openers \X (1..MaxOpens)
        PROVE  u[2] <= g[u[1]] <=> (u[2] <= f[u[1]] \/ u = <<o, g[o]>>)
    <3>1. u = <<u[1], u[2]>> /\ u[1] \in Openers /\ u[2] \in Nat
      BY PosixAssumption
    <3>2. CASE u[1] = o
      BY <3>1, <3>2
    <3>3. CASE u[1] # o
      BY <3>1, <3>3
    <3> QED BY <3>2, <3>3, Zenon
  <2> QED BY <1>1, <2>1, Zenon DEF Units
<1> QED BY <1>2, <1>3, UnitsFinite, OneAdded, Zenon

LEMMA AcquiringFinite ==
  ASSUME Counting
  PROVE  IsFiniteSet(Acquiring) /\ Cardinality(Acquiring) \in Nat
BY PosixAssumption, PartCounted, CountTyped, Zenon DEF Acquiring

LEMMA PosixInitially ==
  ASSUME Counting
  PROVE  PosixInit => PosixInv
<1> SUFFICES ASSUME PosixInit PROVE PosixInv
  BY Zenon
<1>1. LockInv
  BY Zenon DEF PosixInit, LockInv, InCall, Entered
<1>2. opener \in [Openers -> Opener]
  BY Zenon DEF PosixInit, Opener
<1>3. Acquiring = {}
  BY Zenon DEF PosixInit, Acquiring
<1>4. \A o \in Openers : Taken[o] = 0
  BY DEF PosixInit, Taken
<1>5. Units(Taken) = {}
  BY <1>4, PosixAssumption DEF Units
<1>6. SlotInv
  BY <1>2, <1>3, <1>5, NoneCounted, PosixAssumption, SMTT(30) DEF PosixInit, SlotInv
<1> QED BY <1>1, <1>6, Zenon DEF PosixInv

LEMMA LockInvStep == LockInv /\ [PosixNext]_posixVars => LockInv'
<1> SUFFICES ASSUME LockInv, [PosixNext]_posixVars PROVE LockInv'
  BY Zenon
<1> USE PosixAssumption DEF LockInv, InCall, Entered, SameProcess
<1>1. ASSUME NEW t \in Threads, LockOpen(t) PROVE LockInv'
  BY <1>1 DEF LockOpen, LockStep
<1>2. ASSUME NEW t \in Threads, LockInsert(t) PROVE LockInv'
  BY <1>2 DEF LockInsert, LockStep
<1>3. ASSUME NEW t \in Threads, LockReject(t) PROVE LockInv'
  BY <1>3 DEF LockReject, LockStep, DropLock
<1>4. ASSUME NEW t \in Threads, LockSet(t) PROVE LockInv'
  BY <1>4 DEF LockSet, LockStep
<1>5. ASSUME NEW t \in Threads, LockRefused(t) PROVE LockInv'
  BY <1>5 DEF LockRefused, LockStep, DropLock
<1>6. ASSUME NEW t \in Threads, LockWithdraw(t) PROVE LockInv'
  BY <1>6 DEF LockWithdraw, LockStep
<1>7. ASSUME NEW t \in Threads, UnlockSet(t) PROVE LockInv'
  BY <1>7 DEF UnlockSet, LockStep, DropLock
<1>8. ASSUME NEW t \in Threads, UnlockRemove(t) PROVE LockInv'
  BY <1>8 DEF UnlockRemove, LockStep
<1>9. ASSUME NEW t \in Threads, UnlockClose(t) PROVE LockInv'
  BY <1>9 DEF UnlockClose, LockStep, DropLock
<1>10. ASSUME NEW p \in Processes, ProcessExit(p) PROVE LockInv'
  BY <1>10 DEF ProcessExit, Processes
<1>11. CASE UNCHANGED <<lockedFiles, kernelLock, locker>>
  BY <1>11, Zenon
<1>12. ASSUME NEW o \in Openers,
              OpenMapped(o) \/ AcquireSlot(o) \/ MapFile(o) \/ MapFailed(o) \/ CloseMapped(o)
       PROVE  LockInv'
  BY <1>11, <1>12, Zenon DEF OpenMapped, AcquireSlot, MapFile, MapFailed, CloseMapped, Slots
<1> QED
  BY <1>1, <1>2, <1>3, <1>4, <1>5, <1>6, <1>7, <1>8, <1>9, <1>10, <1>11, <1>12, Zenon
     DEF PosixNext, posixVars

-----------------------------------------------------------------------------
(* The slots.                                                              *)

LEMMA OpenerUpdates ==
  ASSUME NEW r \in Opener, NEW at \in {"idle", "looked", "acquired", "failed"}, NEW n \in Nat
  PROVE  /\ [r EXCEPT !.at = at, !.opened = n] \in Opener
         /\ [r EXCEPT !.at = at, !.mapped = n] \in Opener
         /\ [r EXCEPT !.at = at, !.empty = n] \in Opener
BY Zenon DEF Opener

\* A step of one opener: who else acquires and takes slots stays as it is.
LEMMA OthersKept ==
  ASSUME SlotInv, NEW o \in Openers, NEW f \in Opener, NEW a, Slots(o, f, a)
  PROVE  /\ opener' \in [Openers -> Opener] /\ opener'[o] = f /\ allowed' = a
         /\ \A u \in Openers : u # o => opener'[u] = opener[u]
         /\ Taken \in [Openers -> Nat] /\ Taken' \in [Openers -> Nat]
         /\ Taken[o] = opener[o].mapped + opener[o].empty /\ Taken'[o] = f.mapped + f.empty
         /\ \A u \in Openers : u # o => Taken'[u] = Taken[u]
         /\ (o \in Acquiring <=> opener[o].at \in {"acquired", "failed"})
         /\ (o \in Acquiring' <=> f.at \in {"acquired", "failed"})
         /\ \A u : u # o => (u \in Acquiring' <=> u \in Acquiring)
<1>1. /\ opener' \in [Openers -> Opener] /\ opener'[o] = f /\ allowed' = a
      /\ \A u \in Openers : u # o => opener'[u] = opener[u]
  BY Zenon DEF Slots, SlotInv
<1>2. \A r \in Opener : r.mapped + r.empty \in Nat
  BY DEF Opener
<1>3. Taken \in [Openers -> Nat] /\ Taken' \in [Openers -> Nat]
  BY <1>1, <1>2, Zenon DEF Taken, SlotInv
<1> QED BY <1>1, <1>3, Zenon DEF Taken, Acquiring

LEMMA SlotInvStep ==
  ASSUME Counting
  PROVE  SlotInv /\ [PosixNext]_posixVars => SlotInv'
<1> SUFFICES ASSUME SlotInv, [PosixNext]_posixVars PROVE SlotInv'
  BY Zenon
<1>a. Cardinality(Units(Taken)) \in Nat /\ IsFiniteSet(Acquiring) /\ Cardinality(Acquiring) \in Nat
  <2>1. \A r \in Opener : r.mapped + r.empty \in Nat
    BY DEF Opener
  <2>2. Taken \in [Openers -> Nat]
    BY <2>1, Zenon DEF Taken, SlotInv
  <2> QED BY <2>2, UnitsFinite, AcquiringFinite, Zenon
<1>b. \A o \in Openers : /\ opener[o] \in Opener /\ opener[o].at \in {"idle", "looked", "acquired", "failed"}
                         /\ opener[o].mapped \in Nat /\ opener[o].empty \in Nat
                         /\ opener[o].opened \in Nat
  BY Zenon DEF SlotInv, Opener
<1>c. ASSUME NEW o \in Openers, NEW f \in Opener, NEW a \in Nat, Slots(o, f, a),
             f.mapped + f.empty = opener[o].mapped + opener[o].empty
      PROVE  Units(Taken') = Units(Taken)
  BY <1>c, OthersKept DEF Units
<1>d. ASSUME NEW o \in Openers, NEW f \in Opener, NEW a \in Nat, Slots(o, f, a),
             o \in Acquiring <=> f.at \in {"acquired", "failed"}
      PROVE  Acquiring' = Acquiring
  <2>1. \A u : u \in Acquiring' <=> u \in Acquiring
    BY <1>d, OthersKept
  <2> QED BY <2>1, Zenon
<1>1. ASSUME NEW o \in Openers, OpenMapped(o) PROVE SlotInv'
  <2> DEFINE f == [opener[o] EXCEPT !.at = IF allowed <= 0 THEN "idle" ELSE "looked",
                                    !.opened = opener[o].opened + 1]
  <2>1. f \in Opener
    <3>1. opener[o].opened + 1 \in Nat
      BY <1>b
    <3> QED BY <1>b, <3>1, OpenerUpdates, Zenon
  <2>2. Slots(o, f, allowed) /\ opener[o].at = "idle" /\ opener[o].opened < MaxOpens
    BY <1>1, Zenon DEF OpenMapped
  <2>3. /\ f.mapped = opener[o].mapped /\ f.empty = opener[o].empty
        /\ f.opened = opener[o].opened + 1 /\ f.at \in {"idle", "looked"}
    BY <1>b, Zenon DEF Opener
  <2>4. allowed \in Nat
    BY Zenon DEF SlotInv
  <2> HIDE DEF f
  <2>5. /\ opener' \in [Openers -> Opener] /\ opener'[o] = f /\ allowed' = allowed
        /\ \A u \in Openers : u # o => opener'[u] = opener[u]
        /\ (o \in Acquiring <=> opener[o].at \in {"acquired", "failed"})
    BY <2>1, <2>2, <2>4, OthersKept, Zenon
  <2>6. Units(Taken') = Units(Taken) /\ Acquiring' = Acquiring
    BY <1>c, <1>d, <2>1, <2>2, <2>3, <2>4, <2>5, Zenon
  <2> QED BY <1>b, <2>2, <2>3, <2>4, <2>5, <2>6, PosixAssumption, SMTT(30) DEF SlotInv
<1>2. ASSUME NEW o \in Openers, AcquireSlot(o), allowed <= 0 PROVE SlotInv'
  <2> DEFINE f == [opener[o] EXCEPT !.at = "idle"]
  <2>1. f \in Opener
    BY <1>b, Zenon DEF Opener
  <2>2. Slots(o, f, allowed) /\ opener[o].at = "looked"
    BY <1>2, Zenon DEF AcquireSlot
  <2>3. /\ f.mapped = opener[o].mapped /\ f.empty = opener[o].empty
        /\ f.opened = opener[o].opened /\ f.at = "idle"
    BY <1>b, Zenon DEF Opener
  <2>4. allowed \in Nat
    BY Zenon DEF SlotInv
  <2> HIDE DEF f
  <2>5. /\ opener' \in [Openers -> Opener] /\ opener'[o] = f /\ allowed' = allowed
        /\ \A u \in Openers : u # o => opener'[u] = opener[u]
        /\ (o \in Acquiring <=> opener[o].at \in {"acquired", "failed"})
    BY <2>1, <2>2, <2>4, OthersKept, Zenon
  <2>6. Units(Taken') = Units(Taken) /\ Acquiring' = Acquiring
    BY <1>c, <1>d, <2>1, <2>2, <2>3, <2>4, <2>5, Zenon
  <2> QED BY <1>b, <2>2, <2>3, <2>4, <2>5, <2>6 DEF SlotInv
<1>3. ASSUME NEW o \in Openers, AcquireSlot(o), ~(allowed <= 0) PROVE SlotInv'
  <2> DEFINE f == [opener[o] EXCEPT !.at = "acquired"]
  <2>1. f \in Opener
    BY <1>b, Zenon DEF Opener
  <2>2. Slots(o, f, allowed - 1) /\ opener[o].at = "looked"
    BY <1>3, Zenon DEF AcquireSlot
  <2>3. /\ f.mapped = opener[o].mapped /\ f.empty = opener[o].empty
        /\ f.opened = opener[o].opened /\ f.at = "acquired"
    BY <1>b, Zenon DEF Opener
  <2>4. allowed \in Nat /\ allowed - 1 \in Nat
    BY <1>3 DEF SlotInv
  <2> HIDE DEF f
  <2>5. /\ opener' \in [Openers -> Opener] /\ opener'[o] = f /\ allowed' = allowed - 1
        /\ \A u \in Openers : u # o => opener'[u] = opener[u]
        /\ o \notin Acquiring /\ o \in Acquiring'
        /\ \A u : u # o => (u \in Acquiring' <=> u \in Acquiring)
    BY <2>1, <2>2, <2>3, <2>4, OthersKept
  <2>6. Units(Taken') = Units(Taken)
    BY <1>c, <2>1, <2>2, <2>3, <2>4, Zenon
  <2>7. Acquiring' = Acquiring \cup {o}
    BY <2>5, Zenon
  <2>8. Cardinality(Acquiring') = Cardinality(Acquiring) + 1
    BY <1>a, <2>5, <2>7, OneAdded, Zenon
  <2> QED BY <1>a, <1>b, <2>2, <2>3, <2>4, <2>5, <2>6, <2>8 DEF SlotInv
<1>4. ASSUME NEW o \in Openers, NEW f \in Opener, opener[o].at = "acquired", Slots(o, f, allowed),
             f.opened = opener[o].opened, f.at = "idle",
             f.mapped + f.empty = opener[o].mapped + opener[o].empty + 1
      PROVE  SlotInv'
  <2>1. allowed \in Nat
    BY Zenon DEF SlotInv
  <2>2. /\ opener' \in [Openers -> Opener] /\ opener'[o] = f /\ allowed' = allowed
        /\ \A u \in Openers : u # o => opener'[u] = opener[u]
        /\ Taken \in [Openers -> Nat] /\ Taken' \in [Openers -> Nat]
        /\ Taken'[o] = Taken[o] + 1 /\ Taken[o] = opener[o].mapped + opener[o].empty
        /\ \A u \in Openers : u # o => Taken'[u] = Taken[u]
        /\ o \in Acquiring /\ o \notin Acquiring'
        /\ \A u : u # o => (u \in Acquiring' <=> u \in Acquiring)
    BY <1>4, <2>1, OthersKept, Zenon
  <2>3. /\ opener[o].mapped + opener[o].empty + 1 <= opener[o].opened
        /\ opener[o].opened <= MaxOpens
    BY <1>4, Zenon DEF SlotInv
  <2>4. Taken'[o] <= MaxOpens
    BY <1>b, <2>2, <2>3, PosixAssumption
  <2>5. Cardinality(Units(Taken')) = Cardinality(Units(Taken)) + 1
    BY <2>2, <2>4, OneUnitMore, Zenon
  <2>6. Acquiring' = Acquiring \ {o}
    BY <2>2, Zenon
  <2>7. Cardinality(Acquiring') = Cardinality(Acquiring) - 1
    BY <1>a, <2>2, <2>6, OneRemoved, Zenon
  <2> QED BY <1>4, <1>a, <1>b, <2>1, <2>2, <2>3, <2>5, <2>7 DEF SlotInv
<1>5. ASSUME NEW o \in Openers, MapFile(o) PROVE SlotInv'
  <2>1. CASE Slots(o, [opener[o] EXCEPT !.at = "idle", !.mapped = opener[o].mapped + 1], allowed)
    <3> DEFINE f == [opener[o] EXCEPT !.at = "idle", !.mapped = opener[o].mapped + 1]
    <3>0. opener[o].mapped + 1 \in Nat
      BY <1>b
    <3>a. f \in Opener
      BY <1>b, <3>0, OpenerUpdates, Zenon
    <3>1. f.opened = opener[o].opened /\ f.at = "idle"
      BY <1>b, Zenon DEF Opener
    <3>2. f.mapped + f.empty = opener[o].mapped + opener[o].empty + 1
      BY <1>b DEF Opener
    <3>3. Slots(o, f, allowed) /\ opener[o].at = "acquired"
      BY <1>5, <2>1, Zenon DEF MapFile
    <3> HIDE DEF f
    <3> QED BY <1>4, <3>a, <3>1, <3>2, <3>3, Zenon
  <2>2. CASE Slots(o, [opener[o] EXCEPT !.at = "idle", !.empty = opener[o].empty + 1], allowed)
    <3> DEFINE f == [opener[o] EXCEPT !.at = "idle", !.empty = opener[o].empty + 1]
    <3>0. opener[o].empty + 1 \in Nat
      BY <1>b, SMTT(30)
    <3>a. f \in Opener
      BY <1>b, <3>0, OpenerUpdates, Zenon
    <3>1. f.opened = opener[o].opened /\ f.at = "idle"
      BY <1>b, Zenon DEF Opener
    <3>2. f.mapped + f.empty = opener[o].mapped + opener[o].empty + 1
      BY <1>b DEF Opener
    <3>3. Slots(o, f, allowed) /\ opener[o].at = "acquired"
      BY <1>5, <2>2, Zenon DEF MapFile
    <3> HIDE DEF f
    <3> QED BY <1>4, <3>a, <3>1, <3>2, <3>3, Zenon
  <2>3. CASE Slots(o, [opener[o] EXCEPT !.at = "failed"], allowed)
    <3> DEFINE f == [opener[o] EXCEPT !.at = "failed"]
    <3>1. f \in Opener
      BY <1>b, Zenon DEF Opener
    <3>2. Slots(o, f, allowed) /\ opener[o].at = "acquired"
      BY <1>5, <2>3, Zenon DEF MapFile
    <3>3. /\ f.mapped = opener[o].mapped /\ f.empty = opener[o].empty
          /\ f.opened = opener[o].opened /\ f.at = "failed"
      BY <1>b, Zenon DEF Opener
    <3>4. allowed \in Nat
      BY Zenon DEF SlotInv
    <3> HIDE DEF f
    <3>5. /\ opener' \in [Openers -> Opener] /\ opener'[o] = f /\ allowed' = allowed
          /\ \A u \in Openers : u # o => opener'[u] = opener[u]
          /\ (o \in Acquiring <=> opener[o].at \in {"acquired", "failed"})
      BY <3>1, <3>2, <3>4, OthersKept
    <3>6. Units(Taken') = Units(Taken) /\ Acquiring' = Acquiring
      BY <1>c, <1>d, <3>1, <3>2, <3>3, <3>4, <3>5, Zenon
    <3> QED BY <1>b, <3>2, <3>3, <3>4, <3>5, <3>6 DEF SlotInv
  <2> QED BY <1>5, <2>1, <2>2, <2>3, Zenon DEF MapFile
<1>6. ASSUME NEW o \in Openers, MapFailed(o) PROVE SlotInv'
  <2> DEFINE f == [opener[o] EXCEPT !.at = "idle"]
  <2>1. f \in Opener
    BY <1>b, Zenon DEF Opener
  <2>2. Slots(o, f, allowed + 1) /\ opener[o].at = "failed"
    BY <1>6, Zenon DEF MapFailed
  <2>3. /\ f.mapped = opener[o].mapped /\ f.empty = opener[o].empty
        /\ f.opened = opener[o].opened /\ f.at = "idle"
    BY <1>b, Zenon DEF Opener
  <2>4. allowed \in Nat /\ allowed + 1 \in Nat
    BY DEF SlotInv
  <2> HIDE DEF f
  <2>5. /\ opener' \in [Openers -> Opener] /\ opener'[o] = f /\ allowed' = allowed + 1
        /\ \A u \in Openers : u # o => opener'[u] = opener[u]
        /\ o \in Acquiring /\ o \notin Acquiring'
        /\ \A u : u # o => (u \in Acquiring' <=> u \in Acquiring)
    BY <2>1, <2>2, <2>3, <2>4, OthersKept, Zenon
  <2>6. Units(Taken') = Units(Taken)
    BY <1>c, <2>1, <2>2, <2>3, <2>4, Zenon
  <2>7. Acquiring' = Acquiring \ {o}
    BY <2>5, Zenon
  <2>8. Cardinality(Acquiring') = Cardinality(Acquiring) - 1
    BY <1>a, <2>5, <2>7, OneRemoved, Zenon
  <2> QED BY <1>a, <1>b, <2>2, <2>3, <2>4, <2>5, <2>6, <2>8 DEF SlotInv
<1>7. ASSUME NEW o \in Openers, CloseMapped(o) PROVE SlotInv'
  <2> DEFINE f == [opener[o] EXCEPT !.mapped = opener[o].mapped - 1]
  <2>1. Slots(o, f, allowed + 1) /\ opener[o].at = "idle" /\ opener[o].mapped > 0
    BY <1>7, Zenon DEF CloseMapped
  <2>2. f \in Opener /\ f.opened = opener[o].opened /\ f.at = "idle"
    BY <1>b, <2>1 DEF Opener
  <2>3. f.mapped + f.empty + 1 = opener[o].mapped + opener[o].empty
    BY <1>b, <2>1 DEF Opener
  <2>4. allowed \in Nat /\ allowed + 1 \in Nat
    BY DEF SlotInv
  <2>5. f.mapped \in Nat /\ f.empty \in Nat
    BY <2>2, Zenon DEF Opener
  <2> HIDE DEF f
  <2>6. /\ opener' \in [Openers -> Opener] /\ opener'[o] = f /\ allowed' = allowed + 1
        /\ \A u \in Openers : u # o => opener'[u] = opener[u]
        /\ Taken \in [Openers -> Nat] /\ Taken' \in [Openers -> Nat]
        /\ Taken[o] = Taken'[o] + 1 /\ Taken[o] = opener[o].mapped + opener[o].empty
        /\ \A u \in Openers : u # o => Taken[u] = Taken'[u]
        /\ o \notin Acquiring
    BY <1>b, <2>1, <2>2, <2>3, <2>4, <2>5, OthersKept
  <2>7. Taken[o] <= MaxOpens
    BY <1>b, <2>1, <2>6, PosixAssumption DEF SlotInv
  <2>8. Cardinality(Units(Taken)) = Cardinality(Units(Taken')) + 1
    BY <2>6, <2>7, OneUnitMore, Zenon
  <2>9. Cardinality(Units(Taken')) \in Nat
    BY <2>6, UnitsFinite, Zenon
  <2>10. Acquiring' = Acquiring
    BY <1>d, <2>1, <2>2, <2>4, <2>6, Zenon
  <2>11. allowed' + Cardinality(Units(Taken')) + Cardinality(Acquiring') = MmapSlots
    BY <1>a, <2>4, <2>6, <2>8, <2>9, <2>10 DEF SlotInv
  <2>12. /\ f.opened <= MaxOpens
         /\ f.mapped + f.empty + (IF f.at = "idle" THEN 0 ELSE 1) <= f.opened
    BY <1>b, <2>1, <2>2, <2>3, <2>5 DEF SlotInv, Opener
  <2> QED BY <2>4, <2>6, <2>11, <2>12, Zenon DEF SlotInv
<1>8. CASE UNCHANGED <<allowed, opener>>
  <2>1. Taken' = Taken /\ Acquiring' = Acquiring
    BY <1>8, Zenon DEF Taken, Acquiring
  <2> QED BY <1>8, <2>1, Zenon DEF SlotInv
<1>9. ASSUME \/ \E t \in Threads :
                  \/ LockOpen(t) \/ LockInsert(t) \/ LockReject(t) \/ LockSet(t)
                  \/ LockRefused(t) \/ LockWithdraw(t)
                  \/ UnlockSet(t) \/ UnlockRemove(t) \/ UnlockClose(t)
             \/ \E p \in Processes : ProcessExit(p)
      PROVE  SlotInv'
  <2>1. UNCHANGED <<allowed, opener>>
    BY <1>9, Zenon DEF LockOpen, LockInsert, LockReject, LockSet, LockRefused, LockWithdraw, UnlockSet,
                UnlockRemove, UnlockClose, ProcessExit, LockStep
  <2> QED BY <1>8, <2>1, Zenon
<1> QED
  BY <1>1, <1>2, <1>3, <1>5, <1>6, <1>7, <1>8, <1>9, Zenon DEF PosixNext, posixVars

-----------------------------------------------------------------------------
(* The counts.                                                             *)

INSTANCE FiniteSetTheorems

LEMMA Counts == Counting
<1>1. IsFiniteSet({}) /\ Cardinality({}) = 0 /\ \A S : IsFiniteSet(S) => (Cardinality(S) = 0 <=> S = {})
  BY FS_EmptySet, Zenon
<1>2. \A x : IsFiniteSet({x}) /\ Cardinality({x}) = 1
  BY FS_Singleton, Zenon
<1>3. \A S : IsFiniteSet(S) => Cardinality(S) \in Nat
  BY FS_CardinalityType, Zenon
<1>4. \A S, T : IsFiniteSet(S) /\ T \subseteq S =>
          /\ IsFiniteSet(T) /\ Cardinality(T) <= Cardinality(S)
          /\ Cardinality(S) = Cardinality(T) => S = T
  BY FS_Subset, Zenon
<1>5. \A S, x : IsFiniteSet(S) =>
          /\ IsFiniteSet(S \cup {x})
          /\ Cardinality(S \cup {x}) = IF x \in S THEN Cardinality(S) ELSE Cardinality(S) + 1
  BY FS_AddElement, Zenon
<1>6. \A S, x : IsFiniteSet(S) =>
          /\ IsFiniteSet(S \ {x})
          /\ Cardinality(S \ {x}) = IF x \in S THEN Cardinality(S) - 1 ELSE Cardinality(S)
  BY FS_RemoveElement, Zenon
<1>7. \A a, b \in Int : IsFiniteSet(a..b)
  BY FS_Interval, Zenon
<1>8. \A S, T : IsFiniteSet(S) /\ IsFiniteSet(T) => IsFiniteSet(S \X T)
  BY FS_Product, Zenon
<1> QED BY <1>1, <1>2, <1>3, <1>4, <1>5, <1>6, <1>7, <1>8, Zenon DEF Counting

(* Whatever the order of LockFile and UnlockFile in any number of processes and threads,
   and of the openers at the limiter: two threads of a process never both hold the lock,
   an idle process has left no lock, and no slot is granted twice or lost but to an empty
   file (posix_env.cc, posix_mmap.h). *)
THEOREM EnvAlwaysExact == PosixSpec => []EnvExact
<1>1. PosixInv => EnvExact
  <2> SUFFICES ASSUME PosixInv PROVE EnvExact
    BY Zenon
  <2>1. ASSUME NEW p \in Processes
        PROVE  Cardinality({t \in {u \in Threads : ProcessOf[u] = p} : locker[t] = "held"}) <= 1
    <3> DEFINE H == {t \in {u \in Threads : ProcessOf[u] = p} : locker[t] = "held"}
    <3>1. CASE H = {}
      BY <3>1, Counts, NoneCounted
    <3>2. CASE H # {}
      <4>1. PICK t \in H : TRUE
        BY <3>2, Zenon
      <4>2. H = {t}
        BY <4>1 DEF PosixInv, LockInv, Entered, SameProcess
      <4> QED BY <4>2, Counts, OneCounted
    <3> QED BY <3>1, <3>2, Zenon
  <2>2. ASSUME NEW p \in Processes, \A t \in Threads : ProcessOf[t] = p => locker[t] = "idle"
        PROVE  p \notin lockedFiles /\ kernelLock # p
    BY <2>2, PosixAssumption DEF PosixInv, LockInv, Entered, Processes
  <2>3. LockTableExact
    BY <2>1, <2>2, Zenon DEF LockTableExact
  <2>4. SlotsConserved
    BY DEF PosixInv, SlotInv, SlotsConserved
  <2> QED BY <2>3, <2>4, Zenon DEF EnvExact
<1>2. PosixInv /\ [PosixNext]_posixVars => PosixInv'
  BY Counts, LockInvStep, SlotInvStep, Zenon DEF PosixInv
<1>3. PosixInit => PosixInv
  BY Counts, PosixInitially, Zenon
<1> QED BY <1>1, <1>2, <1>3, PTL DEF PosixSpec
=============================================================================
