--------------------------- MODULE RemoteProofs ---------------------------
(***************************************************************************)
(* Safety of a database whose files are on another machine, for every      *)
(* number of files, versions and readers.  RadosDbEnv: every file is on    *)
(* its side, and both sides together are what a plain directory holds.     *)
(* The read-only follower: its references keep the files of its versions,  *)
(* and it shows what the writer's MANIFEST says.                           *)
(***************************************************************************)
EXTENDS RadosDbEnv, Follower, TLAPS

-----------------------------------------------------------------------------
(* The two directory trees of a database on rados.                         *)

Contents == UNION {[S -> Nat] : S \in SUBSET DbFiles}
RSets == [exists : BOOLEAN, mount : {"no", "ro", "rw"}, files : Contents]
LDirs == [exists : BOOLEAN, files : Contents]
Renames == [d : EnvDirs, f : DbFiles, g : DbFiles, c : Nat, at : {"put", "delete"}]

\* What the files on rados and the local ones of directory d are together.
Joined(d, remote, local) ==
  [f \in DOMAIN remote \cup DOMAIN local |-> IF FileOnRados(d, f) THEN remote[f] ELSE local[f]]

\* Each file is on its side, and both sides together are what a plain directory holds.
Sided(d, remote, local) ==
  /\ remote \in Contents /\ local \in Contents
  /\ \A f \in DOMAIN remote : FileOnRados(d, f)
  /\ \A f \in DOMAIN local : ~FileOnRados(d, f)

TreeTypeOK ==
  /\ rset \in [EnvDirs -> RSets] /\ ldir \in [EnvDirs -> LDirs]
  /\ want \in [EnvDirs -> Contents] /\ called.n \in Nat

TreesJoin ==
  \A d \in EnvDirs : /\ Sided(d, rset[d].files, ldir[d].files)
                     /\ want[d] = Joined(d, rset[d].files, ldir[d].files)

\* A rename to CURRENT under way crosses from the local side to rados.
Crossing ==
  \A s \in setting : /\ s \in Renames
                     /\ ~FileOnRados(s.d, s.f) /\ FileOnRados(s.d, s.g)

TreeInv == TreeTypeOK /\ TreesJoin /\ Crossing /\ MirrorExists

-----------------------------------------------------------------------------
LEMMA ContentsAre ==
  \A c : c \in Contents <=> DOMAIN c \subseteq DbFiles /\ c \in [DOMAIN c -> Nat]
<1>1. ASSUME NEW c, c \in Contents PROVE DOMAIN c \subseteq DbFiles /\ c \in [DOMAIN c -> Nat]
  <2>1. PICK S \in SUBSET DbFiles : c \in [S -> Nat]
    BY <1>1, Zenon DEF Contents
  <2> QED BY <2>1, Zenon
<1>2. ASSUME NEW c, DOMAIN c \subseteq DbFiles, c \in [DOMAIN c -> Nat] PROVE c \in Contents
  BY <1>2, Zenon DEF Contents
<1> QED BY <1>1, <1>2, Zenon

\* A file is written.
LEMMA PutContents ==
  ASSUME NEW a \in Contents, NEW f \in DbFiles, NEW c \in Nat
  PROVE  Put1(a, f, c) \in Contents /\ DOMAIN Put1(a, f, c) = DOMAIN a \cup {f}
<1>1. DOMAIN a \subseteq DbFiles /\ a \in [DOMAIN a -> Nat]
  BY ContentsAre, Zenon
<1>2. DOMAIN Put1(a, f, c) = DOMAIN a \cup {f} /\ Put1(a, f, c) \in [DOMAIN a \cup {f} -> Nat]
  BY <1>1, Zenon DEF Put1
<1> QED BY <1>1, <1>2, ContentsAre, Zenon

\* A file is removed.
LEMMA DropContents ==
  ASSUME NEW a \in Contents, NEW f
  PROVE  Drop(a, f) \in Contents /\ DOMAIN Drop(a, f) = DOMAIN a \ {f}
<1>1. DOMAIN a \subseteq DbFiles /\ a \in [DOMAIN a -> Nat]
  BY ContentsAre, Zenon
<1>2. DOMAIN Drop(a, f) = DOMAIN a \ {f} /\ Drop(a, f) \in [DOMAIN a \ {f} -> Nat]
  BY <1>1, Zenon DEF Drop, Restrict
<1> QED BY <1>1, <1>2, ContentsAre, Zenon

\* Writing a file on its side is writing it.
LEMMA PutJoins ==
  ASSUME NEW d, NEW a, NEW b, Sided(d, a, b), NEW f \in DbFiles, NEW c \in Nat
  PROVE  /\ FileOnRados(d, f) => /\ Sided(d, Put1(a, f, c), b)
                                 /\ Joined(d, Put1(a, f, c), b) = Put1(Joined(d, a, b), f, c)
         /\ ~FileOnRados(d, f) => /\ Sided(d, a, Put1(b, f, c))
                                  /\ Joined(d, a, Put1(b, f, c)) = Put1(Joined(d, a, b), f, c)
<1>1. a \in Contents /\ b \in Contents
  BY Zenon DEF Sided
<1>2. /\ Put1(a, f, c) \in Contents /\ DOMAIN Put1(a, f, c) = DOMAIN a \cup {f}
      /\ Put1(b, f, c) \in Contents /\ DOMAIN Put1(b, f, c) = DOMAIN b \cup {f}
  BY <1>1, PutContents, Zenon
<1>3. CASE FileOnRados(d, f)
  <2>1. Sided(d, Put1(a, f, c), b)
    BY <1>1, <1>2, <1>3, Zenon DEF Sided
  <2>2. Joined(d, Put1(a, f, c), b) = Put1(Joined(d, a, b), f, c)
    BY <1>3, Zenon DEF Sided, Joined, Put1
  <2> QED BY <1>3, <2>1, <2>2, Zenon
<1>4. CASE ~FileOnRados(d, f)
  <2>1. Sided(d, a, Put1(b, f, c))
    BY <1>1, <1>2, <1>4, Zenon DEF Sided
  <2>2. Joined(d, a, Put1(b, f, c)) = Put1(Joined(d, a, b), f, c)
    BY <1>4, Zenon DEF Sided, Joined, Put1
  <2> QED BY <1>4, <2>1, <2>2, Zenon
<1> QED BY <1>3, <1>4, Zenon

\* Removing a file on its side is removing it.
LEMMA DropJoins ==
  ASSUME NEW d, NEW a, NEW b, Sided(d, a, b), NEW f
  PROVE  /\ FileOnRados(d, f) => /\ Sided(d, Drop(a, f), b)
                                 /\ Joined(d, Drop(a, f), b) = Drop(Joined(d, a, b), f)
         /\ ~FileOnRados(d, f) => /\ Sided(d, a, Drop(b, f))
                                  /\ Joined(d, a, Drop(b, f)) = Drop(Joined(d, a, b), f)
<1>1. a \in Contents /\ b \in Contents
  BY Zenon DEF Sided
<1>2. /\ Drop(a, f) \in Contents /\ DOMAIN Drop(a, f) = DOMAIN a \ {f}
      /\ Drop(b, f) \in Contents /\ DOMAIN Drop(b, f) = DOMAIN b \ {f}
  BY <1>1, DropContents, Zenon
<1>3. CASE FileOnRados(d, f)
  <2>1. Sided(d, Drop(a, f), b)
    BY <1>1, <1>2, <1>3, Zenon DEF Sided
  <2>2. Joined(d, Drop(a, f), b) = Drop(Joined(d, a, b), f)
    BY <1>3, Zenon DEF Sided, Joined, Drop, Restrict
  <2> QED BY <1>3, <2>1, <2>2, Zenon
<1>4. CASE ~FileOnRados(d, f)
  <2>1. Sided(d, a, Drop(b, f))
    BY <1>1, <1>2, <1>4, Zenon DEF Sided
  <2>2. Joined(d, a, Drop(b, f)) = Drop(Joined(d, a, b), f)
    BY <1>4, Zenon DEF Sided, Joined, Drop, Restrict
  <2> QED BY <1>4, <2>1, <2>2, Zenon
<1> QED BY <1>3, <1>4, Zenon

-----------------------------------------------------------------------------
\* What the calls on directories leave of their files.
LEMMA MountOutcomes ==
  ASSUME TreeTypeOK, NEW d \in EnvDirs, NEW create \in BOOLEAN, NEW r \in MountDir(d, create)
  PROVE  r.s \in RSets /\ r.s.files = rset[d].files
<1>1. rset[d] \in RSets
  BY Zenon DEF TreeTypeOK
<1> DEFINE on == [exists |-> TRUE, mount |-> IF create THEN "rw" ELSE "ro", files |-> rset[d].files]
<1>2. r.s \in {rset[d], on}
  BY DEF MountDir, MayFail
<1>3. on \in RSets /\ on.files = rset[d].files
  BY <1>1, Zenon DEF RSets
<1> QED BY <1>1, <1>2, <1>3, Zenon

LEMMA UnmountOutcomes ==
  ASSUME TreeTypeOK, NEW d \in EnvDirs, NEW delete \in BOOLEAN, NEW r \in UnmountDir(d, delete)
  PROVE  r.s \in RSets /\ r.s.files = rset[d].files
<1>1. rset[d] \in RSets
  BY Zenon DEF TreeTypeOK
<1> DEFINE off == [rset[d] EXCEPT !.mount = "no"]
<1>2. off \in RSets /\ off.files = rset[d].files
  BY <1>1, Zenon DEF RSets
<1>3. [off EXCEPT !.exists = FALSE] \in RSets /\ [off EXCEPT !.exists = FALSE].files = rset[d].files
  <2> HIDE DEF off
  <2> QED BY <1>2, Zenon DEF RSets
<1>4. r.s \in {rset[d], off, [off EXCEPT !.exists = FALSE]}
  BY DEF UnmountDir, MayFail
<1> QED BY <1>1, <1>2, <1>3, <1>4, Zenon

LEMMA LocalOutcomes ==
  ASSUME TreeTypeOK, NEW d \in EnvDirs, NEW l \in LocalCreate(d) \cup LocalDelete(d) \cup Same(d)
  PROVE  /\ l.s \in LDirs /\ l.s.files = ldir[d].files
         /\ l \in LocalCreate(d) /\ l.status \in {"ok", "exists"} => l.s.exists
<1>1. ldir[d] \in LDirs
  BY Zenon DEF TreeTypeOK
<1>2. /\ [ldir[d] EXCEPT !.exists = TRUE] \in LDirs /\ [ldir[d] EXCEPT !.exists = TRUE].files = ldir[d].files
      /\ [ldir[d] EXCEPT !.exists = TRUE].exists
      /\ [ldir[d] EXCEPT !.exists = FALSE] \in LDirs /\ [ldir[d] EXCEPT !.exists = FALSE].files = ldir[d].files
  BY <1>1, Zenon DEF LDirs
<1>3. l.s \in {ldir[d], [ldir[d] EXCEPT !.exists = TRUE], [ldir[d] EXCEPT !.exists = FALSE]}
  BY DEF LocalCreate, LocalDelete, Same, MayFail
<1>4. l.s \in LDirs /\ l.s.files = ldir[d].files
  BY <1>1, <1>2, <1>3, Zenon
<1>5. ASSUME l \in LocalCreate(d), l.status \in {"ok", "exists"} PROVE l.s.exists
  <2>1. CASE ldir[d].exists
    <3>1. l \in {[status |-> "exists", s |-> ldir[d]]}
      BY <1>5, <2>1, Zenon DEF LocalCreate
    <3>2. l.s = ldir[d]
      BY <3>1
    <3> QED BY <2>1, <3>2, Zenon
  <2>2. CASE ~ldir[d].exists
    <3> DEFINE newdir == [ldir[d] EXCEPT !.exists = TRUE]
    <3>1. l \in {[status |-> "ok", s |-> newdir], [status |-> "ioerror", s |-> ldir[d]]}
      BY <1>5, <2>2, Zenon DEF LocalCreate, MayFail
    <3>2. newdir.exists
      BY <1>2, Zenon
    <3> HIDE DEF newdir
    <3>3. l.s = newdir
      BY <1>5, <3>1
    <3> QED BY <3>2, <3>3, Zenon
  <2> QED BY <2>1, <2>2, Zenon
<1> QED BY <1>4, <1>5, Zenon

\* A call on a directory changes no file.
LEMMA DirectoryCall ==
  ASSUME TreeInv, NEW d \in EnvDirs, NEW r, NEW l, Took(d, r, l), called'.n \in Nat,
         r.s \in RSets, r.s.files = rset[d].files, l.s \in LDirs, l.s.files = ldir[d].files
  PROVE  TreeTypeOK' /\ TreesJoin' /\ Crossing' /\ ldir'[d] = l.s
<1>1. TreeTypeOK /\ TreesJoin /\ Crossing
  BY Zenon DEF TreeInv
<1>2. rset' = [rset EXCEPT ![d] = r.s] /\ ldir' = [ldir EXCEPT ![d] = l.s] /\ setting' = setting /\ want' = want
  BY Zenon DEF Took
<1>3. TreeTypeOK' /\ ldir'[d] = l.s
  BY <1>1, <1>2, Zenon DEF TreeTypeOK
<1>4. \A e \in EnvDirs : rset'[e].files = rset[e].files /\ ldir'[e].files = ldir[e].files
  BY <1>1, <1>2, Zenon DEF TreeTypeOK
<1>5. TreesJoin'
  BY <1>1, <1>2, <1>4, Zenon DEF TreesJoin
<1>6. Crossing'
  BY <1>1, <1>2, Zenon DEF Crossing
<1> QED BY <1>3, <1>5, <1>6, Zenon

LEMMA CreateOrAttach ==
  ASSUME TreeInv, NEW d \in EnvDirs, NEW k \in {"create", "attach"}, NEW create \in BOOLEAN,
         LocalCreateOrAttachDir(k, d, MountDir(d, create))
  PROVE  TreeInv'
<1>1. TreeTypeOK /\ called.n \in Nat
  BY Zenon DEF TreeInv, TreeTypeOK
<1>2. PICK r \in MountDir(d, create) :
        \E l \in IF Mirrored(r.status) THEN LocalCreate(d) ELSE Same(d) :
          Took(d, r, l) /\ Called(k, d, r.status, CreateStatus(r.status, l.status))
  BY Zenon DEF LocalCreateOrAttachDir
<1>3. PICK l \in IF Mirrored(r.status) THEN LocalCreate(d) ELSE Same(d) :
        Took(d, r, l) /\ Called(k, d, r.status, CreateStatus(r.status, l.status))
  BY <1>2, Zenon
<1>4. r.s \in RSets /\ r.s.files = rset[d].files
  BY <1>1, MountOutcomes, Zenon
<1>5. l \in LocalCreate(d) \cup LocalDelete(d) \cup Same(d)
  BY <1>3, Zenon
<1>6. l.s \in LDirs /\ l.s.files = ldir[d].files
  BY <1>1, <1>5, LocalOutcomes, Zenon
<1>7. called' = [n |-> called.n + 1,
                 last |-> [k |-> k, d |-> d, remote |-> r.status, status |-> CreateStatus(r.status, l.status)]]
  BY <1>3, Zenon DEF Called
<1>8. called'.n \in Nat /\ called'.last.k = k /\ called'.last.d = d /\ called'.last.remote = r.status
      /\ called'.last.status = CreateStatus(r.status, l.status)
  BY <1>1, <1>7
<1>9. TreeTypeOK' /\ TreesJoin' /\ Crossing' /\ ldir'[d] = l.s
  BY <1>3, <1>4, <1>6, <1>8, DirectoryCall, Zenon
<1>10. ASSUME Mirrored(r.status), CreateStatus(r.status, l.status) \in {"ok", "exists"} PROVE l.s.exists
  <2>1. l.status \in {"ok", "exists"}
    BY <1>10, Zenon DEF CreateStatus
  <2> QED BY <1>1, <1>3, <1>5, <1>10, <2>1, LocalOutcomes, Zenon
<1>11. MirrorExists'
  BY <1>8, <1>9, <1>10, Zenon DEF MirrorExists
<1> QED BY <1>9, <1>11, Zenon DEF TreeInv

\* The other calls on directories.
LEMMA OtherDirectoryCall ==
  ASSUME TreeInv, NEW d \in EnvDirs, NEW r, NEW l, NEW k, NEW remote, NEW status,
         k \notin {"create", "attach"} \/ d \notin DbDirs,
         Took(d, r, l), Called(k, d, remote, status),
         r.s \in RSets, r.s.files = rset[d].files, l \in LocalCreate(d) \cup LocalDelete(d) \cup Same(d)
  PROVE  TreeInv'
<1>1. TreeTypeOK /\ called.n \in Nat
  BY Zenon DEF TreeInv, TreeTypeOK
<1>2. called' = [n |-> called.n + 1, last |-> [k |-> k, d |-> d, remote |-> remote, status |-> status]]
  BY Zenon DEF Called
<1>3. called'.n \in Nat /\ called'.last.k = k /\ called'.last.d = d
  BY <1>1, <1>2
<1>4. l.s \in LDirs /\ l.s.files = ldir[d].files
  BY <1>1, LocalOutcomes, Zenon
<1>5. TreeTypeOK' /\ TreesJoin' /\ Crossing'
  BY <1>3, <1>4, DirectoryCall, Zenon
<1>6. MirrorExists'
  BY <1>3, Zenon DEF MirrorExists, PathOnRados
<1> QED BY <1>5, <1>6, Zenon DEF TreeInv

LEMMA DirectoryStep ==
  ASSUME TreeInv, NEW d \in EnvDirs, CreateDir(d) \/ AttachDir(d) \/ DetachDir(d) \/ DeleteDir(d)
  PROVE  TreeInv'
<1>1. TreeTypeOK /\ rset[d] \in RSets
  BY Zenon DEF TreeInv, TreeTypeOK
<1> DEFINE kept == [status |-> "none", s |-> rset[d]]
           here == [status |-> "none", s |-> ldir[d]]
<1>2. kept.s \in RSets /\ kept.s.files = rset[d].files /\ here \in Same(d)
  BY <1>1, Zenon DEF Same
<1> HIDE DEF kept, here
<1>3. CASE CreateDir(d)
  <2>1. CASE PathOnRados(d) /\ LocalCreateOrAttachDir("create", d, MountDir(d, TRUE))
    BY <2>1, CreateOrAttach, Zenon
  <2>2. CASE ~PathOnRados(d) /\ \E l \in LocalCreate(d) : Took(d, kept, l) /\ Called("create", d, "none", l.status)
    <3>1. PICK l \in LocalCreate(d) : Took(d, kept, l) /\ Called("create", d, "none", l.status)
      BY <2>2, Zenon
    <3> QED BY <1>2, <2>2, <3>1, OtherDirectoryCall, Zenon DEF PathOnRados
  <2> QED BY <1>3, <2>1, <2>2, Zenon DEF CreateDir, kept
<1>4. CASE AttachDir(d)
  BY <1>4, CreateOrAttach, Zenon DEF AttachDir
<1>5. CASE DetachDir(d)
  <2>1. PICK r \in UnmountDir(d, FALSE) : Took(d, r, here) /\ Called("detach", d, r.status, r.status)
    BY <1>5, Zenon DEF DetachDir, here
  <2>2. r.s \in RSets /\ r.s.files = rset[d].files
    BY <1>1, UnmountOutcomes, Zenon
  <2> QED BY <1>2, <2>1, <2>2, OtherDirectoryCall, Zenon
<1>6. CASE DeleteDir(d)
  <2>1. CASE PathOnRados(d)
    <3>1. PICK r \in UnmountDir(d, TRUE) :
            \E l \in IF r.status \in {"ok", "notfound"} THEN LocalDelete(d) ELSE Same(d) :
              Took(d, r, l) /\ Called("delete", d, r.status, DeleteStatus(r.status, l.status))
      BY <1>6, <2>1, Zenon DEF DeleteDir
    <3>2. PICK l \in IF r.status \in {"ok", "notfound"} THEN LocalDelete(d) ELSE Same(d) :
            Took(d, r, l) /\ Called("delete", d, r.status, DeleteStatus(r.status, l.status))
      BY <3>1, Zenon
    <3>3. r.s \in RSets /\ r.s.files = rset[d].files
      BY <1>1, UnmountOutcomes, Zenon
    <3>4. l \in LocalCreate(d) \cup LocalDelete(d) \cup Same(d)
      BY <3>2, Zenon
    <3> QED BY <3>2, <3>3, <3>4, OtherDirectoryCall, Zenon
  <2>2. CASE ~PathOnRados(d)
    <3>1. PICK l \in LocalDelete(d) : Took(d, kept, l) /\ Called("delete", d, "none", l.status)
      BY <1>6, <2>2, Zenon DEF DeleteDir, kept
    <3> QED BY <1>2, <3>1, OtherDirectoryCall, Zenon
  <2> QED BY <2>1, <2>2, Zenon
<1> QED BY <1>3, <1>4, <1>5, <1>6, Zenon

-----------------------------------------------------------------------------
\* The files of one directory change, and both sides stay together.
LEMMA FilesChange ==
  ASSUME TreeInv, NEW d \in EnvDirs, NEW remote, NEW local, Sided(d, remote, local),
         rset' = [rset EXCEPT ![d].files = remote], ldir' = [ldir EXCEPT ![d].files = local],
         want' = [want EXCEPT ![d] = Joined(d, remote, local)], Joined(d, remote, local) \in Contents,
         called'.n \in Nat
  PROVE  TreeTypeOK' /\ TreesJoin' /\ \A e \in EnvDirs : ldir'[e].exists = ldir[e].exists
<1>1. TreeTypeOK /\ TreesJoin
  BY Zenon DEF TreeInv
<1>2. remote \in Contents /\ local \in Contents
  BY Zenon DEF Sided
<1>3. /\ [rset[d] EXCEPT !.files = remote] \in RSets /\ [rset[d] EXCEPT !.files = remote].files = remote
      /\ [ldir[d] EXCEPT !.files = local] \in LDirs /\ [ldir[d] EXCEPT !.files = local].files = local
      /\ [ldir[d] EXCEPT !.files = local].exists = ldir[d].exists
  BY <1>1, <1>2, Zenon DEF TreeTypeOK, RSets, LDirs
<1>4. /\ rset'[d] = [rset[d] EXCEPT !.files = remote] /\ ldir'[d] = [ldir[d] EXCEPT !.files = local]
      /\ want'[d] = Joined(d, remote, local)
      /\ \A e \in EnvDirs : e # d => rset'[e] = rset[e] /\ ldir'[e] = ldir[e] /\ want'[e] = want[e]
      /\ rset' \in [EnvDirs -> RSets] /\ ldir' \in [EnvDirs -> LDirs] /\ want' \in [EnvDirs -> Contents]
  BY <1>1, <1>3, Zenon DEF TreeTypeOK
<1>5. TreeTypeOK'
  BY <1>4, Zenon DEF TreeTypeOK
<1>6. ASSUME NEW e \in EnvDirs
      PROVE  /\ Sided(e, rset'[e].files, ldir'[e].files)
             /\ want'[e] = Joined(e, rset'[e].files, ldir'[e].files)
  <2>1. CASE e = d
    BY <1>3, <1>4, <2>1, Zenon
  <2>2. CASE e # d
    BY <1>1, <1>4, <2>2, Zenon DEF TreesJoin
  <2> QED BY <2>1, <2>2, Zenon
<1>7. TreesJoin'
  BY <1>6, Zenon DEF TreesJoin
<1> QED BY <1>3, <1>4, <1>5, <1>7, Zenon

\* A call on files: SetFiles stores what the side of file f holds from now on.
LEMMA FileCall ==
  ASSUME TreeInv, NEW d \in EnvDirs, NEW f \in DbFiles, NEW files, SetFiles(d, f, files),
         FileOnRados(d, f) => /\ Sided(d, files, ldir[d].files)
                              /\ Joined(d, files, ldir[d].files) \in Contents
                              /\ want' = [want EXCEPT ![d] = Joined(d, files, ldir[d].files)],
         ~FileOnRados(d, f) => /\ Sided(d, rset[d].files, files)
                               /\ Joined(d, rset[d].files, files) \in Contents
                               /\ want' = [want EXCEPT ![d] = Joined(d, rset[d].files, files)],
         NEW k \in {"write", "remove", "rename"}, NEW status, Called(k, d, "none", status), setting' = setting
  PROVE  TreeInv'
<1>1. TreeTypeOK /\ called.n \in Nat /\ Crossing
  BY Zenon DEF TreeInv, TreeTypeOK
<1>2. called' = [n |-> called.n + 1, last |-> [k |-> k, d |-> d, remote |-> "none", status |-> status]]
  BY Zenon DEF Called
<1>3. called'.n \in Nat /\ called'.last.k = k
  BY <1>1, <1>2
<1>4. rset = [rset EXCEPT ![d].files = rset[d].files] /\ ldir = [ldir EXCEPT ![d].files = ldir[d].files]
  <2>1. rset[d] = [rset[d] EXCEPT !.files = rset[d].files] /\ ldir[d] = [ldir[d] EXCEPT !.files = ldir[d].files]
    BY <1>1, Zenon DEF TreeTypeOK, RSets, LDirs
  <2> QED BY <1>1, <2>1, Zenon DEF TreeTypeOK
<1>5. TreeTypeOK' /\ TreesJoin'
  <2>1. CASE FileOnRados(d, f)
    <3>1. rset' = [rset EXCEPT ![d].files = files] /\ ldir' = [ldir EXCEPT ![d].files = ldir[d].files]
      BY <1>4, <2>1, Zenon DEF SetFiles
    <3> QED BY <1>3, <2>1, <3>1, FilesChange, Zenon
  <2>2. CASE ~FileOnRados(d, f)
    <3>1. rset' = [rset EXCEPT ![d].files = rset[d].files] /\ ldir' = [ldir EXCEPT ![d].files = files]
      BY <1>4, <2>2, Zenon DEF SetFiles
    <3> QED BY <1>3, <2>2, <3>1, FilesChange, Zenon
  <2> QED BY <2>1, <2>2, Zenon
<1>6. Crossing'
  BY <1>1, Zenon DEF Crossing
<1>7. MirrorExists'
  BY <1>3, Zenon DEF MirrorExists
<1> QED BY <1>5, <1>6, <1>7, Zenon DEF TreeInv

LEMMA WriteStep ==
  ASSUME TreeInv, NEW d \in EnvDirs, NEW f \in DbFiles, WriteFile(d, f)
  PROVE  TreeInv'
<1> DEFINE a == rset[d].files
           b == ldir[d].files
           c == called.n + 1
<1>1. Sided(d, a, b) /\ want[d] = Joined(d, a, b) /\ c \in Nat /\ want \in [EnvDirs -> Contents]
  BY DEF TreeInv, TreesJoin, TreeTypeOK
<1>2. want' = [want EXCEPT ![d] = Put1(want[d], f, c)] /\ setting' = setting /\ Called("write", d, "none", "ok")
  BY <1>1, Zenon DEF WriteFile
<1>3. Put1(want[d], f, c) \in Contents
  BY <1>1, PutContents, Zenon
<1>4. CASE FileOnRados(d, f)
  <2>1. SetFiles(d, f, Put1(a, f, c))
    BY <1>4, Zenon DEF WriteFile, FilesOf
  <2>2. Sided(d, Put1(a, f, c), b) /\ Joined(d, Put1(a, f, c), b) = Put1(want[d], f, c)
    BY <1>1, <1>4, PutJoins
  <2> QED BY <1>2, <1>3, <1>4, <2>1, <2>2, FileCall, Zenon
<1>5. CASE ~FileOnRados(d, f)
  <2>1. SetFiles(d, f, Put1(b, f, c))
    BY <1>5, Zenon DEF WriteFile, FilesOf
  <2>2. Sided(d, a, Put1(b, f, c)) /\ Joined(d, a, Put1(b, f, c)) = Put1(want[d], f, c)
    BY <1>1, <1>5, PutJoins
  <2> QED BY <1>2, <1>3, <1>5, <2>1, <2>2, FileCall, Zenon
<1> QED BY <1>4, <1>5, Zenon

LEMMA RemoveStep ==
  ASSUME TreeInv, NEW d \in EnvDirs, NEW f \in DbFiles, DeleteDbFile(d, f)
  PROVE  TreeInv'
<1> DEFINE a == rset[d].files
           b == ldir[d].files
<1>1. Sided(d, a, b) /\ want[d] = Joined(d, a, b) /\ want \in [EnvDirs -> Contents]
  BY Zenon DEF TreeInv, TreesJoin, TreeTypeOK
<1>2. want' = [want EXCEPT ![d] = Drop(want[d], f)] /\ setting' = setting /\ Called("remove", d, "none", "ok")
  BY <1>1, Zenon DEF DeleteDbFile
<1>3. Drop(want[d], f) \in Contents
  BY <1>1, DropContents, Zenon
<1>4. CASE FileOnRados(d, f)
  <2>1. SetFiles(d, f, Drop(a, f))
    BY <1>4, Zenon DEF DeleteDbFile, FilesOf
  <2>2. Sided(d, Drop(a, f), b) /\ Joined(d, Drop(a, f), b) = Drop(want[d], f)
    BY <1>1, <1>4, DropJoins
  <2> QED BY <1>2, <1>3, <1>4, <2>1, <2>2, FileCall, Zenon
<1>5. CASE ~FileOnRados(d, f)
  <2>1. SetFiles(d, f, Drop(b, f))
    BY <1>5, Zenon DEF DeleteDbFile, FilesOf
  <2>2. Sided(d, a, Drop(b, f)) /\ Joined(d, a, Drop(b, f)) = Drop(want[d], f)
    BY <1>1, <1>5, DropJoins
  <2> QED BY <1>2, <1>3, <1>5, <2>1, <2>2, FileCall, Zenon
<1> QED BY <1>4, <1>5, Zenon

LEMMA RenameStep ==
  ASSUME TreeInv, NEW d \in EnvDirs, NEW f \in DbFiles, NEW g \in DbFiles, RenameDbFile(d, f, g)
  PROVE  TreeInv'
<1> DEFINE a == rset[d].files
           b == ldir[d].files
<1>1. Sided(d, a, b) /\ want[d] = Joined(d, a, b) /\ want \in [EnvDirs -> Contents]
  BY Zenon DEF TreeInv, TreesJoin, TreeTypeOK
<1>2. CASE FileOnRados(d, f) # FileOnRados(d, g)
  <2>1. Called("rename", d, "none", "unsupported") /\ UNCHANGED <<rset, ldir, want, setting>>
    BY <1>2, Zenon DEF RenameDbFile
  <2>2. called'.last.k = "rename" /\ called'.n = called.n + 1
    BY <2>1, Zenon DEF Called
  <2>3. MirrorExists'
    BY <2>2, Zenon DEF MirrorExists
  <2>4. TreeTypeOK' /\ TreesJoin' /\ Crossing'
    BY <2>1, <2>2 DEF TreeInv, TreeTypeOK, TreesJoin, Crossing
  <2> QED BY <2>3, <2>4, Zenon DEF TreeInv
<1>3. CASE FileOnRados(d, f) = FileOnRados(d, g)
  <2>1. /\ SetFiles(d, f, Put1(Drop(FilesOf(d, f), f), g, FilesOf(d, f)[f]))
        /\ want' = [want EXCEPT ![d] = Put1(Drop(want[d], f), g, want[d][f])]
        /\ setting' = setting /\ Called("rename", d, "none", "ok") /\ f \in DOMAIN FilesOf(d, f)
    BY <1>1, <1>3, Zenon DEF RenameDbFile, FileExists
  <2>2. Drop(want[d], f) \in Contents /\ a \in Contents /\ b \in Contents
    BY <1>1, DropContents, Zenon DEF Sided
  <2>3. CASE FileOnRados(d, f)
    <3>1. FilesOf(d, f) = a /\ f \in DOMAIN a
      BY <2>1, <2>3, Zenon DEF FilesOf
    <3>2. want[d][f] = a[f] /\ a[f] \in Nat
      BY <1>1, <2>2, <2>3, <3>1, ContentsAre, Zenon DEF Joined
    <3>3. Sided(d, Drop(a, f), b) /\ Joined(d, Drop(a, f), b) = Drop(want[d], f)
      BY <1>1, <2>3, DropJoins
    <3>4. /\ Sided(d, Put1(Drop(a, f), g, a[f]), b)
          /\ Joined(d, Put1(Drop(a, f), g, a[f]), b) = Put1(Drop(want[d], f), g, a[f])
      <4>1. FileOnRados(d, g)
        BY <1>3, <2>3, Zenon
      <4> QED BY <3>2, <3>3, <4>1, PutJoins
    <3>5. Put1(Drop(want[d], f), g, a[f]) \in Contents
      BY <2>2, <3>2, PutContents, Zenon
    <3> QED BY <2>1, <2>3, <3>1, <3>2, <3>4, <3>5, FileCall, Zenon
  <2>4. CASE ~FileOnRados(d, f)
    <3>1. FilesOf(d, f) = b /\ f \in DOMAIN b
      BY <2>1, <2>4, Zenon DEF FilesOf
    <3>2. want[d][f] = b[f] /\ b[f] \in Nat
      BY <1>1, <2>2, <2>4, <3>1, ContentsAre, Zenon DEF Joined
    <3>3. Sided(d, a, Drop(b, f)) /\ Joined(d, a, Drop(b, f)) = Drop(want[d], f)
      BY <1>1, <2>4, DropJoins
    <3>4. /\ Sided(d, a, Put1(Drop(b, f), g, b[f]))
          /\ Joined(d, a, Put1(Drop(b, f), g, b[f])) = Put1(Drop(want[d], f), g, b[f])
      <4>1. ~FileOnRados(d, g)
        BY <1>3, <2>4, Zenon
      <4> QED BY <3>2, <3>3, <4>1, PutJoins
    <3>5. Put1(Drop(want[d], f), g, b[f]) \in Contents
      BY <2>2, <3>2, PutContents, Zenon
    <3> QED BY <2>1, <2>4, <3>1, <3>2, <3>4, <3>5, FileCall, Zenon
  <2> QED BY <2>3, <2>4, Zenon
<1> QED BY <1>2, <1>3, Zenon

-----------------------------------------------------------------------------
(* The rename of a temporary file to CURRENT.                              *)

LEMMA StartSetting ==
  ASSUME TreeInv, NEW d \in EnvDirs, NEW f \in DbFiles, NEW g \in DbFiles, RenameLocalTmpToRados(d, f, g)
  PROVE  TreeInv'
<1>1. TreeTypeOK /\ TreesJoin
  BY Zenon DEF TreeInv
<1>2. /\ ~FileOnRados(d, f) /\ FileOnRados(d, g) /\ f \in DOMAIN ldir[d].files
      /\ setting' = {[d |-> d, f |-> f, g |-> g, c |-> ldir[d].files[f], at |-> "put"]}
      /\ called' = [called EXCEPT !.n = @ + 1, !.last = NoCall] /\ UNCHANGED <<rset, ldir, want>>
  BY Zenon DEF RenameLocalTmpToRados, FileExists, FilesOf
<1>3. ldir[d].files[f] \in Nat
  BY <1>1, <1>2, ContentsAre, Zenon DEF TreeTypeOK, LDirs
<1>4. Crossing'
  BY <1>2, <1>3 DEF Crossing, Renames
<1>5. called'.n \in Nat /\ called'.last.k = "none"
  BY <1>1, <1>2 DEF NoCall, TreeTypeOK
<1>6. TreeTypeOK' /\ TreesJoin' /\ MirrorExists'
  BY <1>1, <1>2, <1>5, Zenon DEF TreeTypeOK, TreesJoin, MirrorExists
<1> QED BY <1>4, <1>6, Zenon DEF TreeInv

LEMMA PutStep ==
  ASSUME TreeInv, PutCurrent
  PROVE  TreeInv'
<1>1. TreeTypeOK /\ TreesJoin /\ Crossing /\ MirrorExists
  BY Zenon DEF TreeInv
<1>2. PICK s \in setting :
        /\ s.at = "put"
        /\ \/ /\ rset[s.d].mount = "rw"
              /\ rset' = [rset EXCEPT ![s.d].files = Put1(@, s.g, s.c)]
              /\ want' = [want EXCEPT ![s.d] = Put1(@, s.g, s.c)]
              /\ setting' = {[s EXCEPT !.at = "delete"]}
              /\ UNCHANGED envErrs
           \/ /\ rset[s.d].mount # "rw" \/ envErrs < MaxEnvErrors
              /\ envErrs' = IF rset[s.d].mount = "rw" THEN envErrs + 1 ELSE envErrs
              /\ setting' = {}
              /\ UNCHANGED <<rset, want>>
        /\ UNCHANGED <<ldir, called>>
  BY Zenon DEF PutCurrent
<1>3. s.d \in EnvDirs /\ s.f \in DbFiles /\ s.g \in DbFiles /\ s.c \in Nat
      /\ ~FileOnRados(s.d, s.f) /\ FileOnRados(s.d, s.g)
  BY <1>1, Zenon DEF Crossing, Renames
<1>4. CASE rset' = rset /\ want' = want /\ setting' = {}
  BY <1>1, <1>2, <1>4, Zenon DEF TreeInv, TreeTypeOK, TreesJoin, Crossing, MirrorExists
<1>5. CASE /\ rset' = [rset EXCEPT ![s.d].files = Put1(@, s.g, s.c)]
           /\ want' = [want EXCEPT ![s.d] = Put1(@, s.g, s.c)]
           /\ setting' = {[s EXCEPT !.at = "delete"]}
  <2> DEFINE a == rset[s.d].files
             b == ldir[s.d].files
             new == Put1(a, s.g, s.c)
  <2>1. Sided(s.d, a, b) /\ want[s.d] = Joined(s.d, a, b) /\ want[s.d] \in Contents
    BY <1>1, <1>3, Zenon DEF TreesJoin, TreeTypeOK
  <2>2. Sided(s.d, new, b) /\ Joined(s.d, new, b) = Put1(want[s.d], s.g, s.c)
    BY <1>3, <2>1, PutJoins
  <2>3. Joined(s.d, new, b) \in Contents
    <3>1. Put1(want[s.d], s.g, s.c) \in Contents
      BY <1>3, <2>1, PutContents, Zenon
    <3> QED BY <2>2, <3>1, Zenon
  <2>4. rset' = [rset EXCEPT ![s.d].files = new]
    BY <1>1, <1>3, <1>5, Zenon DEF TreeTypeOK
  <2>5. want' = [want EXCEPT ![s.d] = Joined(s.d, new, b)]
    BY <1>1, <1>3, <1>5, <2>2, Zenon DEF TreeTypeOK
  <2>6. ldir' = [ldir EXCEPT ![s.d].files = b]
    <3>1. ldir[s.d] = [ldir[s.d] EXCEPT !.files = b]
      BY <1>1, <1>3, Zenon DEF TreeTypeOK, LDirs
    <3> QED BY <1>1, <1>2, <1>3, <3>1, Zenon DEF TreeTypeOK
  <2> HIDE DEF a, b, new
  <2>7. TreeTypeOK' /\ TreesJoin'
    BY <1>1, <1>2, <1>3, <2>2, <2>3, <2>4, <2>5, <2>6, FilesChange, Zenon DEF TreeTypeOK
  <2>8. Crossing'
    <3> DEFINE t == [s EXCEPT !.at = "delete"]
    <3>1. t \in Renames /\ t.d = s.d /\ t.f = s.f /\ t.g = s.g
      BY <1>1, Zenon DEF Crossing, Renames
    <3> HIDE DEF t
    <3>2. setting' = {t}
      BY <1>5, Zenon DEF t
    <3> QED BY <1>3, <3>1, <3>2, Zenon DEF Crossing
  <2>9. MirrorExists'
    BY <1>1, <1>2, Zenon DEF MirrorExists
  <2> QED BY <2>7, <2>8, <2>9, Zenon DEF TreeInv
<1> QED BY <1>2, <1>4, <1>5, Zenon

LEMMA DeleteStep ==
  ASSUME TreeInv, DeleteTmp
  PROVE  TreeInv'
<1>1. TreeTypeOK /\ TreesJoin /\ Crossing /\ MirrorExists
  BY Zenon DEF TreeInv
<1>2. PICK s \in setting :
        /\ s.at = "delete"
        /\ ldir' = [ldir EXCEPT ![s.d].files = Drop(@, s.f)]
        /\ want' = [want EXCEPT ![s.d] = Drop(@, s.f)]
        /\ setting' = {}
        /\ UNCHANGED <<rset, called, envErrs>>
  BY Zenon DEF DeleteTmp
<1>3. s.d \in EnvDirs /\ ~FileOnRados(s.d, s.f)
  BY <1>1, Zenon DEF Crossing, Renames
<1> DEFINE a == rset[s.d].files
           b == ldir[s.d].files
           new == Drop(b, s.f)
<1>4. Sided(s.d, a, b) /\ want[s.d] = Joined(s.d, a, b) /\ want[s.d] \in Contents
  BY <1>1, <1>3, Zenon DEF TreesJoin, TreeTypeOK
<1>5. Sided(s.d, a, new) /\ Joined(s.d, a, new) = Drop(want[s.d], s.f)
  BY <1>3, <1>4, DropJoins
<1>6. Joined(s.d, a, new) \in Contents
  BY <1>4, <1>5, DropContents, Zenon
<1>7. ldir' = [ldir EXCEPT ![s.d].files = new]
  BY <1>1, <1>2, <1>3, Zenon DEF TreeTypeOK
<1>8. want' = [want EXCEPT ![s.d] = Joined(s.d, a, new)]
  BY <1>1, <1>2, <1>3, <1>5, Zenon DEF TreeTypeOK
<1>9. rset' = [rset EXCEPT ![s.d].files = a]
  <2>1. rset[s.d] = [rset[s.d] EXCEPT !.files = a]
    BY <1>1, <1>3, Zenon DEF TreeTypeOK, RSets
  <2> QED BY <1>1, <1>2, <1>3, <2>1, Zenon DEF TreeTypeOK
<1> HIDE DEF a, b, new
<1>10. TreeTypeOK' /\ TreesJoin' /\ \A e \in EnvDirs : ldir'[e].exists = ldir[e].exists
  BY <1>1, <1>2, <1>3, <1>5, <1>6, <1>7, <1>8, <1>9, FilesChange, Zenon DEF TreeTypeOK
<1>11. Crossing'
  BY <1>2, Zenon DEF Crossing
<1>12. MirrorExists'
  BY <1>1, <1>2, <1>10 DEF MirrorExists, PathOnRados, EnvDirs
<1> QED BY <1>10, <1>11, <1>12, Zenon DEF TreeInv

LEMMA RestartStep ==
  ASSUME TreeInv, Restart
  PROVE  TreeInv'
<1>1. TreeTypeOK /\ TreesJoin
  BY Zenon DEF TreeInv
<1>2. /\ rset' = [d \in EnvDirs |-> [rset[d] EXCEPT !.mount = "no"]]
      /\ called' = [called EXCEPT !.last = NoCall] /\ setting' = {} /\ ldir' = ldir /\ want' = want
  BY Zenon DEF Restart
<1>3. ASSUME NEW d \in EnvDirs
      PROVE  [rset[d] EXCEPT !.mount = "no"] \in RSets /\ [rset[d] EXCEPT !.mount = "no"].files = rset[d].files
  BY <1>1, Zenon DEF TreeTypeOK, RSets
<1>4. rset' \in [EnvDirs -> RSets] /\ \A d \in EnvDirs : rset'[d].files = rset[d].files
  BY <1>2, <1>3, Zenon
<1>5. called'.n = called.n
  BY <1>2
<1>6. called'.last.k = "none"
  BY <1>2 DEF NoCall
<1>7. TreeTypeOK'
  BY <1>1, <1>2, <1>4, <1>5, Zenon DEF TreeTypeOK
<1>8. TreesJoin'
  BY <1>1, <1>2, <1>4, Zenon DEF TreesJoin
<1>9. Crossing' /\ MirrorExists'
  BY <1>2, <1>6, Zenon DEF Crossing, MirrorExists
<1> QED BY <1>7, <1>8, <1>9, Zenon DEF TreeInv

-----------------------------------------------------------------------------
LEMMA TreesInitially == EnvInit => TreeInv
<1> SUFFICES ASSUME EnvInit PROVE TreeInv
  BY Zenon
<1>1. Empty \in Contents /\ DOMAIN Empty = {}
  BY ContentsAre, Zenon DEF Empty
<1>2. TreeTypeOK
  BY <1>1, Zenon DEF EnvInit, TreeTypeOK, RSets, LDirs
<1>3. \A d : Joined(d, Empty, Empty) = Empty
  BY <1>1, Zenon DEF Joined, Empty
<1>4. TreesJoin
  BY <1>1, <1>3, Zenon DEF EnvInit, TreesJoin, Sided
<1>5. Crossing /\ MirrorExists
  BY Zenon DEF EnvInit, Crossing, MirrorExists, NoCall
<1> QED BY <1>2, <1>4, <1>5, Zenon DEF TreeInv

LEMMA TreesStep == TreeInv /\ [EnvNext]_envVars => TreeInv'
<1> SUFFICES ASSUME TreeInv, [EnvNext]_envVars PROVE TreeInv'
  BY Zenon
<1>1. CASE UNCHANGED envVars
  BY <1>1, Zenon DEF envVars, TreeInv, TreeTypeOK, TreesJoin, Crossing, MirrorExists
<1>2. CASE EnvNext
  BY <1>2, DirectoryStep, WriteStep, RemoveStep, RenameStep, StartSetting, PutStep, DeleteStep, RestartStep,
     Zenon DEF EnvNext
<1> QED BY <1>1, <1>2, Zenon

\* Files on both sides are one directory, whatever calls fail halfway and whenever the
\* process is restarted, and a mounted directory has its mirror (rados_db_env.cc).
THEOREM TreesAlwaysAgree == EnvSpec => []TreesAgree
<1>1. TreeInv => TreesAgree
  <2> SUFFICES ASSUME TreeInv PROVE TreesAreOne
    BY Zenon DEF TreeInv, TreesAgree
  <2>1. ASSUME NEW d \in EnvDirs PROVE GetChildren(d) = Joined(d, rset[d].files, ldir[d].files)
    <3>1. \A f \in DOMAIN rset[d].files : PathOnRados(d)
      BY Zenon DEF TreeInv, TreesJoin, Sided, FileOnRados
    <3> QED BY <3>1, Zenon DEF GetChildren, Joined
  <2> QED BY <2>1, Zenon DEF TreesAreOne, TreeInv, TreesJoin
<1> QED BY <1>1, TreesInitially, TreesStep, PTL DEF EnvSpec

-----------------------------------------------------------------------------
(* The read-only follower.                                                 *)

\* What the counts rest on of FiniteSetTheorems: an assumption of the lemmas that count, which
\* Counts proves at the end of the module, where the library's theorems come in.
Counting ==
  /\ IsFiniteSet({}) /\ Cardinality({}) = 0 /\ \A S : IsFiniteSet(S) => (Cardinality(S) = 0 <=> S = {})
  /\ \A S : IsFiniteSet(S) => Cardinality(S) \in Nat
  /\ \A S, T : IsFiniteSet(S) /\ T \subseteq S =>
       /\ IsFiniteSet(T) /\ Cardinality(T) <= Cardinality(S)
       /\ Cardinality(S) = Cardinality(T) => S = T
  /\ \A S, x : IsFiniteSet(S) =>
       /\ IsFiniteSet(S \cup {x})
       /\ Cardinality(S \cup {x}) = IF x \in S THEN Cardinality(S) ELSE Cardinality(S) + 1
  /\ \A S, x : IsFiniteSet(S) =>
       /\ IsFiniteSet(S \ {x})
       /\ Cardinality(S \ {x}) = IF x \in S THEN Cardinality(S) - 1 ELSE Cardinality(S)

LEMMA NoneCounted ==
  ASSUME Counting
  PROVE  IsFiniteSet({}) /\ Cardinality({}) = 0 /\ \A S : IsFiniteSet(S) => (Cardinality(S) = 0 <=> S = {})
BY Zenon DEF Counting

LEMMA CountTyped ==
  ASSUME Counting, NEW S, IsFiniteSet(S)
  PROVE  Cardinality(S) \in Nat
BY Zenon DEF Counting

LEMMA PartCounted ==
  ASSUME Counting, NEW S, IsFiniteSet(S), NEW T \in SUBSET S
  PROVE  IsFiniteSet(T) /\ Cardinality(T) <= Cardinality(S) /\ (Cardinality(S) = Cardinality(T) => S = T)
BY Zenon DEF Counting

LEMMA OneAdded ==
  ASSUME Counting, NEW S, NEW x, IsFiniteSet(S)
  PROVE  /\ IsFiniteSet(S \cup {x})
         /\ Cardinality(S \cup {x}) = IF x \in S THEN Cardinality(S) ELSE Cardinality(S) + 1
BY Zenon DEF Counting

LEMMA OneRemoved ==
  ASSUME Counting, NEW S, NEW x, IsFiniteSet(S)
  PROVE  /\ IsFiniteSet(S \ {x})
         /\ Cardinality(S \ {x}) = IF x \in S THEN Cardinality(S) - 1 ELSE Cardinality(S)
BY Zenon DEF Counting

-----------------------------------------------------------------------------
(* A follower whose Reload holds the mutex.                                *)

\* How far each kind of read has come with its statements.
ReadStages ==
  {<<"get", <<"pick", "ref">>>>, <<"get", <<"ref">>>>, <<"get", <<>>>>,
   <<"iter", <<"pick", "refcur", "clean">>>>, <<"iter", <<"refcur", "clean">>>>, <<"iter", <<"clean">>>>,
   <<"iter", <<>>>>, <<"sizes", <<"refcur", "pick">>>>, <<"sizes", <<"pick">>>>, <<"sizes", <<>>>>}
Reads  == [op : {"get", "iter", "sizes"}, todo : Seq({"pick", "ref", "refcur", "clean"}), seq : Nat,
           version : 0..MaxEdits, clean : 0..MaxEdits, failed : SUBSET Nat]
Edits  == [deleted : SUBSET Nat, lastSeq : Nat]
Views  == [open : BOOLEAN, current : 0..MaxEdits, lastSeq : Nat, reloading : BOOLEAN]

FollowTypeOK ==
  /\ edits \in Seq(Edits) /\ Len(edits) <= MaxEdits
  /\ view \in Views /\ refs \in [0..MaxEdits -> Int] /\ reads \in [Clients -> Reads \cup {NoRead}]

\* The current version is one of the MANIFEST's, and what a Reload does, it does with the mutex.
Opened ==
  /\ view.current <= Len(edits) /\ (view.open => view.lastSeq = SequenceAt(view.current))
  /\ view.reloading => view.open /\ holder = "reload"
  /\ WriterFiles \subseteq onDisk

\* A read between its statements holds the mutex, and what it picked is still current.
ReadInv(c) ==
  reads[c] # NoRead =>
    /\ view.open /\ <<reads[c].op, reads[c].todo>> \in ReadStages
    /\ reads[c].version <= view.current /\ reads[c].clean <= view.current
    /\ reads[c].todo # <<>> => holder = c /\ reads[c].seq = view.lastSeq
    /\ reads[c].todo \in {<<"ref">>, <<"refcur", "clean">>, <<"clean">>} =>
         reads[c].version = view.current /\ reads[c].clean = view.current
    /\ reads[c].todo = <<>> /\ reads[c].op # "sizes" => reads[c].seq = SequenceAt(reads[c].version)
    /\ reads[c].failed \subseteq (1..Len(edits)) \ WriterFiles

\* The version that a read has a reference to.
Pins(c, i) ==
  /\ reads[c] # NoRead
  /\ \/ reads[c].todo = <<"pick">> /\ view.current = i
     \/ reads[c].todo \in {<<"clean">>, <<>>} /\ reads[c].clean = i
Pinned(i)  == {c \in Clients : Pins(c, i)}
IsCurrent(i) == IF view.open /\ view.current = i THEN 1 ELSE 0
CountInv == \A i \in 0..MaxEdits : refs[i] = Cardinality(Pinned(i)) + IsCurrent(i)

FollowInv == FollowTypeOK /\ Opened /\ CountInv /\ \A c \in Clients : ReadInv(c)

LEMMA ReadsApart == NoRead \notin Reads
BY DEF NoRead, Reads

\* The statements a read begins with, and those it has left once it holds its version.
LEMMA StagesApart ==
  /\ \A s \in {<<"pick", "ref">>, <<"pick", "refcur", "clean">>, <<"refcur", "pick">>} :
       s # <<>> /\ s \notin {<<"ref">>, <<"refcur", "clean">>, <<"clean">>, <<"pick">>}
  /\ <<"pick">> \notin {<<"clean">>, <<>>} /\ <<"clean">> # <<>>
OBVIOUS

LEMMA PinnedFinite ==
  ASSUME Counting
  PROVE  \A i : IsFiniteSet(Pinned(i)) /\ Cardinality(Pinned(i)) \in Nat
<1>1. ASSUME NEW i PROVE IsFiniteSet(Pinned(i))
  <2>1. Pinned(i) \subseteq Clients
    BY Zenon DEF Pinned
  <2> QED BY <2>1, PartCounted, FollowAssumption, Zenon
<1> QED BY <1>1, CountTyped, Zenon

LEMMA CountsKept ==
  ASSUME CountInv, \A c \in Clients : \A i \in 0..MaxEdits : Pins(c, i)' <=> Pins(c, i), refs' = refs,
         view'.open = view.open, view'.current = view.current
  PROVE  CountInv'
<1>1. \A i \in 0..MaxEdits : Pinned(i)' = Pinned(i) /\ IsCurrent(i)' = IsCurrent(i)
  BY Zenon DEF Pinned, IsCurrent
<1> QED BY <1>1, Zenon DEF CountInv

LEMMA CountGrows ==
  ASSUME Counting, CountInv, refs \in [0..MaxEdits -> Int], NEW c \in Clients, NEW v \in 0..MaxEdits,
         refs' = [refs EXCEPT ![v] = @ + 1],
         \A i \in 0..MaxEdits : ~Pins(c, i) /\ (Pins(c, i)' <=> i = v),
         \A d \in Clients : d # c => \A i \in 0..MaxEdits : Pins(d, i)' <=> Pins(d, i),
         view'.open = view.open, view'.current = view.current
  PROVE  CountInv'
<1>1. \A i \in 0..MaxEdits : IsCurrent(i)' = IsCurrent(i) /\ IsCurrent(i) \in Int
  BY DEF IsCurrent
<1>2. Pinned(v)' = Pinned(v) \cup {c} /\ c \notin Pinned(v)
  BY Zenon DEF Pinned
<1>3. Cardinality(Pinned(v)') = Cardinality(Pinned(v)) + 1
  BY <1>2, PinnedFinite, OneAdded, Zenon
<1>4. \A i \in 0..MaxEdits : i # v => Pinned(i)' = Pinned(i)
  BY Zenon DEF Pinned
<1>5. \A i \in 0..MaxEdits : refs'[i] = IF i = v THEN refs[i] + 1 ELSE refs[i]
  BY Zenon
<1>6. ASSUME NEW i \in 0..MaxEdits PROVE refs'[i] = Cardinality(Pinned(i)') + IsCurrent(i)'
  <2>1. refs[i] = Cardinality(Pinned(i)) + IsCurrent(i) /\ Cardinality(Pinned(i)) \in Nat
    BY PinnedFinite, Zenon DEF CountInv
  <2>2. CASE i = v
    BY <1>1, <1>3, <1>5, <2>1, <2>2
  <2>3. CASE i # v
    BY <1>1, <1>4, <1>5, <2>1, <2>3, Zenon
  <2> QED BY <2>2, <2>3, Zenon
<1> QED BY <1>6, Zenon DEF CountInv

LEMMA CountShrinks ==
  ASSUME Counting, CountInv, refs \in [0..MaxEdits -> Int], NEW c \in Clients, NEW v \in 0..MaxEdits,
         refs' = [refs EXCEPT ![v] = @ - 1],
         \A i \in 0..MaxEdits : ~Pins(c, i)' /\ (Pins(c, i) <=> i = v),
         \A d \in Clients : d # c => \A i \in 0..MaxEdits : Pins(d, i)' <=> Pins(d, i),
         view'.open = view.open, view'.current = view.current
  PROVE  CountInv'
<1>1. \A i \in 0..MaxEdits : IsCurrent(i)' = IsCurrent(i) /\ IsCurrent(i) \in Int
  BY DEF IsCurrent
<1>2. Pinned(v)' = Pinned(v) \ {c} /\ c \in Pinned(v)
  BY Zenon DEF Pinned
<1>3. Cardinality(Pinned(v)') = Cardinality(Pinned(v)) - 1
  BY <1>2, PinnedFinite, OneRemoved, Zenon
<1>4. \A i \in 0..MaxEdits : i # v => Pinned(i)' = Pinned(i)
  BY Zenon DEF Pinned
<1>5. \A i \in 0..MaxEdits : refs'[i] = IF i = v THEN refs[i] - 1 ELSE refs[i]
  BY Zenon
<1>6. ASSUME NEW i \in 0..MaxEdits PROVE refs'[i] = Cardinality(Pinned(i)') + IsCurrent(i)'
  <2>1. refs[i] = Cardinality(Pinned(i)) + IsCurrent(i) /\ Cardinality(Pinned(i)) \in Nat
    BY PinnedFinite, Zenon DEF CountInv
  <2>2. CASE i = v
    BY <1>1, <1>3, <1>5, <2>1, <2>2
  <2>3. CASE i # v
    BY <1>1, <1>4, <1>5, <2>1, <2>3, Zenon
  <2> QED BY <2>2, <2>3, Zenon
<1> QED BY <1>6, Zenon DEF CountInv

\* A version that nobody reads.
LEMMA NotPinned ==
  ASSUME Counting, NEW i, \A c \in Clients : ~Pins(c, i)
  PROVE  Cardinality(Pinned(i)) = 0
<1>1. Pinned(i) = {}
  BY Zenon DEF Pinned
<1> QED BY <1>1, NoneCounted, Zenon

LEMMA NotPinnedNext ==
  ASSUME Counting, NEW i, \A c \in Clients : ~Pins(c, i)'
  PROVE  Cardinality(Pinned(i)') = 0
<1>1. Pinned(i)' = {}
  BY Zenon DEF Pinned
<1> QED BY <1>1, NoneCounted, Zenon

-----------------------------------------------------------------------------
(* The writer.                                                             *)

LEMMA WriterLogStep ==
  ASSUME FollowInv, NEW dropped \in SUBSET WriterFiles, WriterLog(dropped)
  PROVE  FollowInv'
<1>1. /\ Len(edits) < MaxEdits /\ edits' = Append(edits, [deleted |-> dropped, lastSeq |-> Len(edits) + 1])
      /\ onDisk' = onDisk \cup {Len(edits) + 1} /\ UNCHANGED <<view, refs, holder, reads>>
  BY Zenon DEF WriterLog
<1>2. FollowTypeOK /\ Opened /\ CountInv /\ edits \in Seq(Edits) /\ Len(edits) \in Nat
  BY DEF FollowInv, FollowTypeOK
<1>3. [deleted |-> dropped, lastSeq |-> Len(edits) + 1] \in Edits
  BY <1>2 DEF Edits, WriterFiles, VersionAt
<1>4. /\ edits' \in Seq(Edits) /\ Len(edits') = Len(edits) + 1
      /\ \A i \in 1..Len(edits) : edits'[i] = edits[i]
  BY <1>1, <1>2, <1>3
<1>5. FollowTypeOK'
  BY <1>1, <1>2, <1>4, FollowAssumption DEF FollowTypeOK
<1>6. \A n \in 0..Len(edits) : SequenceAt(n)' = SequenceAt(n)
  BY <1>2, <1>4 DEF SequenceAt
<1>7. WriterFiles' \subseteq WriterFiles \cup {Len(edits) + 1}
  BY <1>2, <1>4 DEF WriterFiles, VersionAt
<1>8. Opened'
  <2>1. view.current \in 0..Len(edits)
    BY <1>2 DEF FollowTypeOK, Views, Opened
  <2> QED BY <1>1, <1>2, <1>4, <1>6, <1>7, <2>1 DEF Opened
<1>9. CountInv'
  BY <1>1, <1>2, CountsKept, Zenon DEF Pins
<1>10. ASSUME NEW c \in Clients PROVE ReadInv(c)'
  <2>1. CASE reads[c] = NoRead
    BY <1>1, <2>1, Zenon DEF ReadInv
  <2>2. CASE reads[c] # NoRead
    <3>1. ReadInv(c) /\ reads[c] \in Reads
      BY <2>2, <1>2, Zenon DEF FollowInv, FollowTypeOK
    <3>2. reads[c].version \in 0..Len(edits)
      BY <1>2, <2>2, <3>1 DEF ReadInv, Reads, Opened, FollowTypeOK, Views
    <3>3. reads[c].failed \subseteq (1..Len(edits')) \ WriterFiles'
      BY <1>2, <1>4, <1>7, <2>2, <3>1 DEF ReadInv
    <3> QED BY <1>1, <1>6, <2>2, <3>1, <3>2, <3>3, Zenon DEF ReadInv
  <2> QED BY <2>1, <2>2, Zenon
<1> QED BY <1>5, <1>8, <1>9, <1>10, Zenon DEF FollowInv

LEMMA WriterRemoveStep ==
  ASSUME FollowInv, NEW f, WriterRemove(f)
  PROVE  FollowInv'
<1>1. /\ f \notin WriterFiles /\ onDisk' = onDisk \ {f} /\ UNCHANGED <<edits, view, refs, holder, reads>>
  BY Zenon DEF WriterRemove
<1>2. WriterFiles' = WriterFiles /\ \A n : SequenceAt(n)' = SequenceAt(n)
  BY <1>1, Zenon DEF WriterFiles, VersionAt, SequenceAt
<1>3. FollowTypeOK' /\ Opened'
  BY <1>1, <1>2, Zenon DEF FollowInv, FollowTypeOK, Opened
<1>4. CountInv'
  BY <1>1, CountsKept, Zenon DEF FollowInv, Pins
<1>5. \A c \in Clients : ReadInv(c)'
  BY <1>1, <1>2 DEF FollowInv, ReadInv
<1> QED BY <1>3, <1>4, <1>5, Zenon DEF FollowInv
-----------------------------------------------------------------------------
(* Open, close and reload.                                                 *)

\* The mutex is not a reader's: every read is between its statements and its end.
LEMMA NobodyInside ==
  ASSUME FollowInv, holder = Free \/ holder = "reload", NEW c \in Clients, reads[c] # NoRead
  PROVE  reads[c].todo = <<>>
BY FollowAssumption, Zenon DEF FollowInv, ReadInv, Free

LEMMA SequenceTyped ==
  ASSUME FollowTypeOK, NEW n \in 0..Len(edits)
  PROVE  SequenceAt(n) \in Nat
<1>1. ASSUME NEW q \in Seq(Edits), NEW i \in 1..Len(q) PROVE q[i].lastSeq \in Nat
  <2>1. q[i] \in Edits
    OBVIOUS
  <2> QED BY <2>1, Zenon DEF Edits
<1>2. edits \in Seq(Edits) /\ Len(edits) \in Nat
  BY DEF FollowTypeOK
<1> QED BY <1>1, <1>2 DEF SequenceAt

LEMMA FollowerOpenStep ==
  ASSUME Counting, FollowInv, FollowerOpen
  PROVE  FollowInv'
<1>1. /\ ~view.open /\ refs' = [refs EXCEPT ![Len(edits)] = 1]
      /\ view' = [open |-> TRUE, current |-> Len(edits), lastSeq |-> SequenceAt(Len(edits)), reloading |-> FALSE]
      /\ UNCHANGED <<edits, onDisk, holder, reads>>
  BY Zenon DEF FollowerOpen
<1>2. FollowTypeOK /\ Opened /\ CountInv /\ Len(edits) \in 0..MaxEdits
  BY FollowAssumption DEF FollowInv, FollowTypeOK
<1>3. WriterFiles' = WriterFiles /\ (\A n : SequenceAt(n)' = SequenceAt(n)) /\ SequenceAt(Len(edits)) \in Nat
  <2>1. SequenceAt(Len(edits)) \in Nat
    BY <1>2, SequenceTyped
  <2> QED BY <1>1, <2>1, Zenon DEF WriterFiles, VersionAt, SequenceAt
<1>4. FollowTypeOK' /\ Opened'
  <2>1. view' \in Views
    BY <1>1, <1>2, <1>3, Zenon DEF Views
  <2>2. view'.current = Len(edits) /\ view'.lastSeq = SequenceAt(Len(edits)) /\ ~view'.reloading
    BY <1>1, Zenon
  <2> QED BY <1>1, <1>2, <1>3, <2>1, <2>2 DEF FollowTypeOK, Opened
<1>5. \A c \in Clients : reads[c] = NoRead
  BY <1>1, Zenon DEF FollowInv, ReadInv
<1>6. CountInv'
  <2>1. \A i \in 0..MaxEdits : Cardinality(Pinned(i)) = 0 /\ Cardinality(Pinned(i)') = 0
    BY <1>1, <1>5, NotPinned, NotPinnedNext, Zenon DEF Pins
  <2>2. \A i \in 0..MaxEdits : refs[i] = 0
    BY <1>1, <1>2, <2>1 DEF CountInv, IsCurrent
  <2>3. \A i \in 0..MaxEdits : refs'[i] = IF i = Len(edits) THEN 1 ELSE 0
    BY <1>1, <1>2, <2>2, Zenon DEF FollowTypeOK
  <2> QED BY <1>1, <2>1, <2>3 DEF CountInv, IsCurrent
<1>7. \A c \in Clients : ReadInv(c)'
  BY <1>1, <1>5, Zenon DEF ReadInv
<1> QED BY <1>4, <1>6, <1>7, Zenon DEF FollowInv

LEMMA FollowerCloseStep ==
  ASSUME Counting, FollowInv, FollowerClose
  PROVE  FollowInv'
<1>1. /\ view.open /\ (\A c \in Clients : reads[c] = NoRead) /\ view' = Closed
      /\ refs' = [refs EXCEPT ![view.current] = @ - 1] /\ UNCHANGED <<edits, onDisk, holder, reads>>
  BY Zenon DEF FollowerClose
<1>2. FollowTypeOK /\ Opened /\ CountInv /\ view.current \in 0..MaxEdits /\ refs \in [0..MaxEdits -> Int]
  BY Zenon DEF FollowInv, FollowTypeOK, Views
<1>3. WriterFiles' = WriterFiles
  BY <1>1, Zenon DEF WriterFiles, VersionAt
<1>4. FollowTypeOK' /\ Opened'
  <2>1. view' \in Views /\ ~view'.open /\ ~view'.reloading /\ view'.current = 0
    BY <1>1, FollowAssumption DEF Views, Closed
  <2>2. Len(edits) \in Nat
    BY <1>2 DEF FollowTypeOK
  <2> QED BY <1>1, <1>2, <1>3, <2>1, <2>2 DEF FollowTypeOK, Opened
<1>5. CountInv'
  <2>1. \A i \in 0..MaxEdits : Cardinality(Pinned(i)) = 0 /\ Cardinality(Pinned(i)') = 0
    BY <1>1, NotPinned, NotPinnedNext, Zenon DEF Pins
  <2>2. \A i \in 0..MaxEdits : refs[i] = IF i = view.current THEN 1 ELSE 0
    BY <1>1, <1>2, <2>1 DEF CountInv, IsCurrent
  <2>3. \A i \in 0..MaxEdits : refs'[i] = 0
    BY <1>1, <1>2, <2>2
  <2>4. ~view'.open
    BY <1>1, Zenon DEF Closed
  <2> QED BY <2>1, <2>3, <2>4 DEF CountInv, IsCurrent
<1>6. \A c \in Clients : ReadInv(c)'
  BY <1>1, Zenon DEF ReadInv
<1> QED BY <1>4, <1>5, <1>6, Zenon DEF FollowInv

LEMMA ReloadEdgeStep ==
  ASSUME FollowInv, Locked, ReloadStart \/ ReloadEnd
  PROVE  FollowInv'
<1>1. /\ view.open /\ holder \in {Free, "reload"} /\ holder' = (IF view'.reloading THEN "reload" ELSE Free)
      /\ view' = [view EXCEPT !.reloading = ~view.reloading]
      /\ UNCHANGED <<edits, onDisk, refs, reads>>
  <2>1. view \in Views /\ (view.reloading => view.open /\ holder = "reload")
    BY Zenon DEF FollowInv, FollowTypeOK, Opened
  <2>2. CASE ReloadStart
    BY <2>1, <2>2, Zenon DEF ReloadStart, Views
  <2>3. CASE ReloadEnd
    BY <2>1, <2>3, Zenon DEF ReloadEnd, Views
  <2> QED BY <2>2, <2>3, Zenon
<1>2. FollowTypeOK /\ Opened /\ CountInv /\ view \in Views
  BY Zenon DEF FollowInv, FollowTypeOK
<1>3. /\ view' \in Views /\ view'.open = view.open /\ view'.current = view.current
      /\ view'.lastSeq = view.lastSeq
  BY <1>1, <1>2, Zenon DEF Views
<1>4. WriterFiles' = WriterFiles /\ (\A n : SequenceAt(n)' = SequenceAt(n))
  BY <1>1, Zenon DEF WriterFiles, VersionAt, SequenceAt
<1>5. FollowTypeOK' /\ Opened'
  BY <1>1, <1>2, <1>3, <1>4, Zenon DEF FollowTypeOK, Opened
<1>6. CountInv'
  BY <1>1, <1>2, <1>3, CountsKept, Zenon DEF Pins
<1>7. ASSUME NEW c \in Clients PROVE ReadInv(c)'
  <2>1. reads[c] # NoRead => reads[c].todo = <<>>
    BY <1>1, NobodyInside, Zenon
  <2> QED BY <1>1, <1>3, <1>4, <2>1, Zenon DEF FollowInv, ReadInv
<1> QED BY <1>5, <1>6, <1>7, Zenon DEF FollowInv

LEMMA ForeignApplyStep ==
  ASSUME Counting, FollowInv, ForeignApply
  PROVE  FollowInv'
<1> DEFINE k == view.current
           n == view.current + 1
<1>1. /\ view.reloading /\ k < Len(edits) /\ refs' = [refs EXCEPT ![k] = @ - 1, ![n] = 1]
      /\ view' = [open |-> view.open, current |-> n, lastSeq |-> SequenceAt(n), reloading |-> TRUE]
      /\ UNCHANGED <<edits, onDisk, holder, reads>>
  BY Zenon DEF ForeignApply
<1>2. FollowTypeOK /\ Opened /\ CountInv /\ view.open /\ holder = "reload"
  BY <1>1, Zenon DEF FollowInv, Opened
<1>3. /\ k \in 0..MaxEdits /\ n \in 1..MaxEdits /\ n \in 1..Len(edits) /\ k # n /\ view.open \in BOOLEAN
      /\ Len(edits) \in Nat /\ refs \in [0..MaxEdits -> Int]
  BY <1>1, <1>2, FollowAssumption DEF FollowTypeOK, Views
<1>4. WriterFiles' = WriterFiles /\ (\A m : SequenceAt(m)' = SequenceAt(m)) /\ SequenceAt(n) \in Nat
  <2>1. SequenceAt(n) \in Nat
    BY <1>2, <1>3, SequenceTyped
  <2>2. UNCHANGED edits
    BY <1>1, Zenon
  <2> QED BY <2>1, <2>2, Zenon DEF WriterFiles, VersionAt, SequenceAt
<1>5. view'.open = view.open /\ view'.current = n /\ view'.lastSeq = SequenceAt(n) /\ view'.reloading = TRUE
  BY <1>1, Zenon
<1>6. refs' \in [0..MaxEdits -> Int] /\ refs'[k] = refs[k] - 1 /\ refs'[n] = 1
      /\ \A i \in 0..MaxEdits : i # k /\ i # n => refs'[i] = refs[i]
  BY <1>1, <1>3
<1>7. view' \in Views
  BY <1>1, <1>3, <1>4 DEF Views
<1> HIDE DEF k, n
<1>8. FollowTypeOK' /\ Opened'
  BY <1>1, <1>2, <1>3, <1>4, <1>5, <1>6, <1>7 DEF FollowTypeOK, Opened
<1>9. \A c \in Clients : reads[c] # NoRead => reads[c].todo = <<>> /\ reads[c].clean <= k /\ reads[c].clean \in Int
  <2>1. ASSUME NEW c \in Clients, reads[c] # NoRead
        PROVE  reads[c].todo = <<>> /\ reads[c].clean <= k /\ reads[c].clean \in Int
    <3>1. reads[c].todo = <<>>
      BY <1>2, <2>1, NobodyInside, Zenon
    <3>2. reads[c] \in Reads /\ reads[c].clean <= view.current
      BY <1>2, <2>1, Zenon DEF FollowInv, ReadInv, FollowTypeOK
    <3> QED BY <3>1, <3>2 DEF Reads, k
  <2> QED BY <2>1, Zenon
<1>10. CountInv'
  <2>1. \A c \in Clients : \A i : Pins(c, i) <=> reads[c] # NoRead /\ reads[c].clean = i
    BY <1>9 DEF Pins
  <2>2. \A c \in Clients : \A i : Pins(c, i)' <=> reads[c] # NoRead /\ reads[c].clean = i
    BY <1>1, <1>9 DEF Pins
  <2>3. \A i : Pinned(i)' = Pinned(i)
    BY <2>1, <2>2, Zenon DEF Pinned
  <2>4. Cardinality(Pinned(n)) = 0
    <3>1. \A c \in Clients : ~Pins(c, n)
      BY <1>3, <1>9, <2>1 DEF k, n
    <3> QED BY <3>1, NotPinned, Zenon
  <2>5. \A i : IsCurrent(i) = (IF i = k THEN 1 ELSE 0) /\ IsCurrent(i)' = (IF i = n THEN 1 ELSE 0)
    BY <1>2, <1>5, Zenon DEF IsCurrent, k
  <2>6. ASSUME NEW i \in 0..MaxEdits PROVE refs'[i] = Cardinality(Pinned(i)') + IsCurrent(i)'
    <3>1. refs[i] = Cardinality(Pinned(i)) + (IF i = k THEN 1 ELSE 0) /\ Cardinality(Pinned(i)) \in Nat
      BY <1>2, <2>5, PinnedFinite, Zenon DEF CountInv
    <3>2. CASE i = k
      BY <1>3, <1>6, <2>3, <2>5, <3>1, <3>2
    <3>3. CASE i = n
      BY <1>3, <1>6, <2>3, <2>4, <2>5, <3>3
    <3>4. CASE i # k /\ i # n
      BY <1>6, <2>3, <2>5, <3>1, <3>4, Zenon
    <3> QED BY <3>2, <3>3, <3>4, Zenon
  <2> QED BY <2>6, Zenon DEF CountInv
<1>11. ASSUME NEW c \in Clients PROVE ReadInv(c)'
  <2>1. CASE reads[c] = NoRead
    BY <1>1, <2>1, Zenon DEF ReadInv
  <2>2. CASE reads[c] # NoRead
    <3>1. reads[c].todo = <<>> /\ ReadInv(c) /\ reads[c] \in Reads
      BY <1>2, <1>9, <2>2, Zenon DEF FollowInv, FollowTypeOK
    <3>2. reads[c].version <= n /\ reads[c].clean <= n
      <4>1. /\ reads[c].version <= view.current /\ reads[c].clean <= view.current
            /\ reads[c].version \in Int /\ reads[c].clean \in Int
        BY <2>2, <3>1 DEF ReadInv, Reads
      <4> QED BY <1>3, <4>1 DEF k, n
    <3>3. <<>> \notin {<<"ref">>, <<"refcur", "clean">>, <<"clean">>}
      BY Zenon
    <3> QED BY <1>1, <1>2, <1>4, <1>5, <2>2, <3>1, <3>2, <3>3, Zenon DEF ReadInv
  <2> QED BY <2>1, <2>2, Zenon
<1> QED BY <1>8, <1>10, <1>11, Zenon DEF FollowInv

-----------------------------------------------------------------------------
(* Readers.                                                                *)

LEMMA StagesTyped ==
  ASSUME NEW op, NEW t, <<op, t>> \in ReadStages
  PROVE  op \in {"get", "iter", "sizes"} /\ t \in Seq({"pick", "ref", "refcur", "clean"})
<1> DEFINE S == {"pick", "ref", "refcur", "clean"}
<1>1. /\ <<"pick", "ref">> \in Seq(S) /\ <<"ref">> \in Seq(S) /\ <<>> \in Seq(S)
      /\ <<"pick", "refcur", "clean">> \in Seq(S) /\ <<"refcur", "clean">> \in Seq(S) /\ <<"clean">> \in Seq(S)
      /\ <<"refcur", "pick">> \in Seq(S) /\ <<"pick">> \in Seq(S)
  OBVIOUS
<1> HIDE DEF S
<1>2. t \in Seq(S)
  BY <1>1, Zenon DEF ReadStages
<1> QED BY <1>2, Zenon DEF S, ReadStages

LEMMA StatementsBy ==
  ASSUME NEW op \in DOMAIN Statements
  PROVE  /\ <<op, Statements[op]>> \in ReadStages
         /\ Statements[op] \in {<<"pick", "ref">>, <<"pick", "refcur", "clean">>, <<"refcur", "pick">>}
<1>1. op \in {"get", "iter", "sizes"}
  BY Zenon DEF Statements
<1>2. CASE op = "get"
  BY <1>2, Zenon DEF Statements, ReadStages
<1>3. CASE op = "iter"
  BY <1>3, Zenon DEF Statements, ReadStages
<1>4. CASE op = "sizes"
  BY <1>4, Zenon DEF Statements, ReadStages
<1> QED BY <1>1, <1>2, <1>3, <1>4, Zenon

LEMMA ReadBeginStep ==
  ASSUME FollowInv, NEW c \in Clients, NEW op \in DOMAIN Statements, ReadBegin(c, op)
  PROVE  FollowInv'
<1> DEFINE r == [op |-> op, todo |-> Statements[op], seq |-> view.lastSeq, version |-> 0, clean |-> 0, failed |-> {}]
<1>1. /\ view.open /\ reads[c] = NoRead /\ holder = Free /\ holder' = c /\ reads' = [reads EXCEPT ![c] = r]
      /\ UNCHANGED <<edits, onDisk, view, refs>>
  BY Zenon DEF ReadBegin
<1>2. /\ FollowTypeOK /\ Opened /\ CountInv /\ view \in Views /\ reads \in [Clients -> Reads \cup {NoRead}]
  BY Zenon DEF FollowInv, FollowTypeOK
<1>3. /\ r.op = op /\ r.version = 0 /\ r.clean = 0 /\ r.failed = {} /\ r.seq = view.lastSeq
      /\ <<r.op, r.todo>> \in ReadStages /\ r.op \in {"get", "iter", "sizes"}
      /\ r.todo \in Seq({"pick", "ref", "refcur", "clean"})
      /\ r.todo \in {<<"pick", "ref">>, <<"pick", "refcur", "clean">>, <<"refcur", "pick">>}
  <2>1. r.op = op /\ r.todo = Statements[op]
    BY Zenon
  <2>2. r.version = 0 /\ r.clean = 0 /\ r.failed = {} /\ r.seq = view.lastSeq
    BY Zenon
  <2> HIDE DEF r
  <2> QED BY <2>1, <2>2, StatementsBy, StagesTyped, Zenon
<1>4. r \in Reads
  BY <1>2, <1>3, FollowAssumption DEF Reads, Views
<1> HIDE DEF r
<1>5. r # NoRead /\ r.todo # <<>> /\ r.todo \notin {<<"ref">>, <<"refcur", "clean">>, <<"clean">>, <<"pick">>}
  BY <1>3, <1>4, ReadsApart, StagesApart, Zenon
<1>6. reads'[c] = r /\ \A d \in Clients : d # c => reads'[d] = reads[d]
  BY <1>1, <1>2, Zenon
<1>7. WriterFiles' = WriterFiles /\ (\A n : SequenceAt(n)' = SequenceAt(n))
  BY <1>1, Zenon DEF WriterFiles, VersionAt, SequenceAt
<1>8. FollowTypeOK' /\ Opened'
  <2>1. reads' \in [Clients -> Reads \cup {NoRead}]
    BY <1>1, <1>2, <1>4, Zenon
  <2>2. ~view.reloading
    BY <1>1, <1>2, Zenon DEF Opened, Free
  <2> QED BY <1>1, <1>2, <1>7, <2>1, <2>2, Zenon DEF FollowTypeOK, Opened
<1>9. CountInv'
  <2>1. \A d \in Clients : \A i \in 0..MaxEdits : Pins(d, i)' <=> Pins(d, i)
    BY <1>1, <1>5, <1>6, Zenon DEF Pins
  <2> QED BY <1>1, <1>2, <2>1, CountsKept, Zenon
<1>10. ASSUME NEW d \in Clients PROVE ReadInv(d)'
  <2>1. CASE d = c
    <3>1. 0 <= view.current
      BY <1>2 DEF Views
    <3> QED BY <1>1, <1>3, <1>5, <1>6, <2>1, <3>1 DEF ReadInv
  <2>2. CASE d # c
    <3>1. reads[d] # NoRead => reads[d].todo = <<>>
      BY <1>1, NobodyInside, Zenon
    <3> QED BY <1>1, <1>6, <1>7, <2>2, <3>1 DEF FollowInv, ReadInv
  <2> QED BY <2>1, <2>2, Zenon
<1> QED BY <1>8, <1>9, <1>10, Zenon DEF FollowInv

\* What a statement leaves to do.
LEMMA Suffixes ==
  /\ Head(<<"pick", "ref">>) = "pick" /\ Tail(<<"pick", "ref">>) = <<"ref">>
  /\ Head(<<"ref">>) = "ref" /\ Tail(<<"ref">>) = <<>>
  /\ Head(<<"pick", "refcur", "clean">>) = "pick" /\ Tail(<<"pick", "refcur", "clean">>) = <<"refcur", "clean">>
  /\ Head(<<"refcur", "clean">>) = "refcur" /\ Tail(<<"refcur", "clean">>) = <<"clean">>
  /\ Head(<<"clean">>) = "clean" /\ Tail(<<"clean">>) = <<>>
  /\ Head(<<"refcur", "pick">>) = "refcur" /\ Tail(<<"refcur", "pick">>) = <<"pick">>
  /\ Head(<<"pick">>) = "pick" /\ Tail(<<"pick">>) = <<>>
OBVIOUS

\* The sequence of statements, taken apart: what each read before, and what it does.
Picks(c, from, to) ==
  /\ reads[c].todo = from /\ reads'[c].todo = to /\ refs' = refs
  /\ reads'[c].version = view.current /\ reads'[c].clean = view.current
Refs(c, from, to, v) ==
  /\ reads[c].todo = from /\ reads'[c].todo = to /\ refs' = [refs EXCEPT ![v] = @ + 1]
  /\ reads'[c].version = reads[c].version /\ reads'[c].clean = reads[c].clean

LEMMA StatementCases ==
  ASSUME FollowInv, NEW c \in Clients, ReadStatement(c)
  PROVE  /\ reads[c] # NoRead /\ reads[c].todo # <<>> /\ reads[c] \in Reads /\ reads'[c] \in Reads
         /\ <<reads[c].op, reads'[c].todo>> \in ReadStages
         /\ reads'[c].op = reads[c].op /\ reads'[c].seq = reads[c].seq /\ reads'[c].failed = reads[c].failed
         /\ holder' = IF reads'[c].todo = <<>> THEN Free ELSE holder
         /\ reads' \in [Clients -> Reads \cup {NoRead}] /\ \A d \in Clients : d # c => reads'[d] = reads[d]
         /\ UNCHANGED <<edits, onDisk, view>>
         /\ \/ Picks(c, <<"pick", "ref">>, <<"ref">>)
            \/ Refs(c, <<"ref">>, <<>>, reads[c].version)
            \/ Picks(c, <<"pick", "refcur", "clean">>, <<"refcur", "clean">>)
            \/ Refs(c, <<"refcur", "clean">>, <<"clean">>, view.current)
            \/ /\ reads[c].todo = <<"clean">> /\ reads'[c].todo = <<>> /\ refs' = refs
               /\ reads'[c].version = reads[c].version /\ reads'[c].clean = view.current
            \/ reads[c].op = "sizes" /\ Refs(c, <<"refcur", "pick">>, <<"pick">>, view.current)
            \/ reads[c].op = "sizes" /\ Picks(c, <<"pick">>, <<>>)
<1> DEFINE s == Head(reads[c].todo)
           t == Tail(reads[c].todo)
           r == [op |-> reads[c].op, todo |-> t, seq |-> reads[c].seq, failed |-> reads[c].failed,
                 version |-> IF s = "pick" THEN view.current ELSE reads[c].version,
                 clean |-> IF s \in {"pick", "clean"} THEN view.current ELSE reads[c].clean]
<1>1. /\ reads[c] # NoRead /\ reads[c].todo # <<>> /\ reads' = [reads EXCEPT ![c] = r]
      /\ holder' = (IF t = <<>> THEN Free ELSE holder) /\ UNCHANGED <<edits, onDisk, view>>
  BY Zenon DEF ReadStatement
<1>2. /\ s = "ref" => refs' = [refs EXCEPT ![reads[c].version] = @ + 1]
      /\ s = "refcur" => refs' = [refs EXCEPT ![view.current] = @ + 1]
      /\ s \in {"pick", "clean"} => refs' = refs
  BY Zenon DEF ReadStatement
<1>3. /\ reads \in [Clients -> Reads \cup {NoRead}] /\ reads[c] \in Reads /\ view.current \in 0..MaxEdits
      /\ <<reads[c].op, reads[c].todo>> \in ReadStages
  BY <1>1, Zenon DEF FollowInv, FollowTypeOK, ReadInv, Views
<1>4. \/ reads[c].todo = <<"pick", "ref">> /\ s = "pick" /\ t = <<"ref">> /\ reads[c].op = "get"
      \/ reads[c].todo = <<"ref">> /\ s = "ref" /\ t = <<>> /\ reads[c].op = "get"
      \/ /\ reads[c].todo = <<"pick", "refcur", "clean">> /\ s = "pick" /\ t = <<"refcur", "clean">>
         /\ reads[c].op = "iter"
      \/ reads[c].todo = <<"refcur", "clean">> /\ s = "refcur" /\ t = <<"clean">> /\ reads[c].op = "iter"
      \/ reads[c].todo = <<"clean">> /\ s = "clean" /\ t = <<>> /\ reads[c].op = "iter"
      \/ reads[c].todo = <<"refcur", "pick">> /\ s = "refcur" /\ t = <<"pick">> /\ reads[c].op = "sizes"
      \/ reads[c].todo = <<"pick">> /\ s = "pick" /\ t = <<>> /\ reads[c].op = "sizes"
  <2>1. \/ reads[c].op = "get" /\ reads[c].todo \in {<<"pick", "ref">>, <<"ref">>}
        \/ reads[c].op = "iter" /\ reads[c].todo \in {<<"pick", "refcur", "clean">>, <<"refcur", "clean">>, <<"clean">>}
        \/ reads[c].op = "sizes" /\ reads[c].todo \in {<<"refcur", "pick">>, <<"pick">>}
    BY <1>1, <1>3, Zenon DEF ReadStages
  <2>2. CASE reads[c].op = "get" /\ reads[c].todo \in {<<"pick", "ref">>, <<"ref">>}
    BY <2>2, Suffixes, Zenon
  <2>3. CASE /\ reads[c].op = "iter"
             /\ reads[c].todo \in {<<"pick", "refcur", "clean">>, <<"refcur", "clean">>, <<"clean">>}
    BY <2>3, Suffixes, Zenon
  <2>4. CASE reads[c].op = "sizes" /\ reads[c].todo \in {<<"refcur", "pick">>, <<"pick">>}
    BY <2>4, Suffixes, Zenon
  <2> QED BY <2>1, <2>2, <2>3, <2>4, Zenon
<1>5. <<reads[c].op, t>> \in ReadStages /\ t \in Seq({"pick", "ref", "refcur", "clean"})
  <2> HIDE DEF s, t
  <2>1. <<reads[c].op, t>> \in ReadStages
    BY <1>4, Zenon DEF ReadStages
  <2> QED BY <2>1, StagesTyped, Zenon
<1>6. r \in Reads
  BY <1>3, <1>5, Zenon DEF Reads
<1>7. /\ r.op = reads[c].op /\ r.todo = t /\ r.seq = reads[c].seq /\ r.failed = reads[c].failed
      /\ r.version = (IF s = "pick" THEN view.current ELSE reads[c].version)
      /\ r.clean = (IF s \in {"pick", "clean"} THEN view.current ELSE reads[c].clean)
  BY Zenon
<1> HIDE DEF s, t, r
<1>8. reads'[c] = r /\ reads' \in [Clients -> Reads \cup {NoRead}] /\ \A d \in Clients : d # c => reads'[d] = reads[d]
  BY <1>1, <1>3, <1>6, Zenon
<1>9. \/ Picks(c, <<"pick", "ref">>, <<"ref">>)
      \/ Refs(c, <<"ref">>, <<>>, reads[c].version)
      \/ Picks(c, <<"pick", "refcur", "clean">>, <<"refcur", "clean">>)
      \/ Refs(c, <<"refcur", "clean">>, <<"clean">>, view.current)
      \/ /\ reads[c].todo = <<"clean">> /\ reads'[c].todo = <<>> /\ refs' = refs
         /\ reads'[c].version = reads[c].version /\ reads'[c].clean = view.current
      \/ reads[c].op = "sizes" /\ Refs(c, <<"refcur", "pick">>, <<"pick">>, view.current)
      \/ reads[c].op = "sizes" /\ Picks(c, <<"pick">>, <<>>)
  <2>1. reads'[c].todo = t
    BY <1>7, <1>8, Zenon
  <2>2. s = "pick" => \A from : reads[c].todo = from => Picks(c, from, t)
    BY <1>2, <1>7, <1>8, <2>1, Zenon DEF Picks
  <2>3. s = "ref" => \A from : reads[c].todo = from => Refs(c, from, t, reads[c].version)
    BY <1>2, <1>7, <1>8, <2>1, Zenon DEF Refs
  <2>4. s = "refcur" => \A from : reads[c].todo = from => Refs(c, from, t, view.current)
    BY <1>2, <1>7, <1>8, <2>1, Zenon DEF Refs
  <2>5. s = "clean" => refs' = refs /\ reads'[c].version = reads[c].version /\ reads'[c].clean = view.current
    BY <1>2, <1>7, <1>8, Zenon
  <2> QED BY <1>4, <2>1, <2>2, <2>3, <2>4, <2>5, Zenon
<1>10. /\ reads[c] # NoRead /\ reads[c].todo # <<>> /\ reads'[c] \in Reads
       /\ <<reads[c].op, reads'[c].todo>> \in ReadStages
       /\ reads'[c].op = reads[c].op /\ reads'[c].seq = reads[c].seq /\ reads'[c].failed = reads[c].failed
       /\ holder' = IF reads'[c].todo = <<>> THEN Free ELSE holder
  BY <1>1, <1>5, <1>6, <1>7, <1>8, Zenon
<1> QED BY <1>1, <1>3, <1>8, <1>9, <1>10, Zenon

LEMMA ReadStatementStep ==
  ASSUME Counting, FollowInv, NEW c \in Clients, ReadStatement(c)
  PROVE  FollowInv'
<1> DEFINE r == reads[c]
           n == reads'[c]
           v == view.current
<1>1. /\ r # NoRead /\ r.todo # <<>> /\ r \in Reads /\ n \in Reads /\ <<r.op, n.todo>> \in ReadStages
      /\ n.op = r.op /\ n.seq = r.seq /\ n.failed = r.failed
      /\ holder' = (IF n.todo = <<>> THEN Free ELSE holder)
      /\ reads' \in [Clients -> Reads \cup {NoRead}] /\ (\A d \in Clients : d # c => reads'[d] = reads[d])
      /\ UNCHANGED <<edits, onDisk, view>>
  BY StatementCases, Zenon
<1>2. /\ FollowTypeOK /\ Opened /\ CountInv /\ ReadInv(c) /\ v \in 0..MaxEdits /\ refs \in [0..MaxEdits -> Int]
  BY Zenon DEF FollowInv, FollowTypeOK, Views
<1>3. /\ view.open /\ holder = c /\ r.seq = view.lastSeq /\ v <= Len(edits)
      /\ r.version <= v /\ r.clean <= v /\ r.failed \subseteq (1..Len(edits)) \ WriterFiles
      /\ r.todo \in {<<"ref">>, <<"refcur", "clean">>, <<"clean">>} => r.version = v /\ r.clean = v
      /\ r.seq = SequenceAt(v)
  BY <1>1, <1>2, Zenon DEF ReadInv, Opened
<1>4. \A d \in Clients : d # c => \A i \in 0..MaxEdits : Pins(d, i)' <=> Pins(d, i)
  BY <1>1, Zenon DEF Pins
<1>5. n # NoRead
  BY <1>1, ReadsApart, Zenon
<1>6. /\ refs' \in [0..MaxEdits -> Int] /\ CountInv' /\ n.version <= v /\ n.clean <= v
      /\ n.todo \in {<<"ref">>, <<"refcur", "clean">>, <<"clean">>} => n.version = v /\ n.clean = v
      /\ n.todo = <<>> /\ n.op # "sizes" => n.version = v
  <2>1. \/ Picks(c, <<"pick", "ref">>, <<"ref">>) \/ Refs(c, <<"ref">>, <<>>, r.version)
        \/ Picks(c, <<"pick", "refcur", "clean">>, <<"refcur", "clean">>)
        \/ Refs(c, <<"refcur", "clean">>, <<"clean">>, v)
        \/ r.todo = <<"clean">> /\ n.todo = <<>> /\ refs' = refs /\ n.version = r.version /\ n.clean = v
        \/ r.op = "sizes" /\ Refs(c, <<"refcur", "pick">>, <<"pick">>, v)
        \/ r.op = "sizes" /\ Picks(c, <<"pick">>, <<>>)
    BY StatementCases, Zenon
  <2>2. CASE Picks(c, <<"pick", "ref">>, <<"ref">>) \/ Picks(c, <<"pick", "refcur", "clean">>, <<"refcur", "clean">>)
    <3>1. /\ r.todo \in {<<"pick", "ref">>, <<"pick", "refcur", "clean">>} /\ n.todo \in {<<"ref">>, <<"refcur", "clean">>}
          /\ refs' = refs /\ n.version = v /\ n.clean = v
      BY <2>2, Zenon DEF Picks
    <3>2. \A i \in 0..MaxEdits : Pins(c, i)' <=> Pins(c, i)
      <4>1. \A t : t \in {<<"pick", "ref">>, <<"pick", "refcur", "clean">>} => t \notin {<<"clean">>, <<>>, <<"pick">>}
        OBVIOUS
      <4>2. \A t : t \in {<<"ref">>, <<"refcur", "clean">>} => t \notin {<<"clean">>, <<>>, <<"pick">>}
        OBVIOUS
      <4>3. r.todo \notin {<<"clean">>, <<>>, <<"pick">>} /\ n.todo \notin {<<"clean">>, <<>>, <<"pick">>}
        BY <3>1, <4>1, <4>2, Zenon
      <4> QED BY <4>3, Zenon DEF Pins
    <3>3. CountInv'
      BY <1>1, <1>2, <1>4, <3>1, <3>2, CountsKept, Zenon
    <3> QED BY <1>2, <3>1, <3>3
  <2>3. CASE Refs(c, <<"ref">>, <<>>, r.version)
    <3>1. /\ r.todo = <<"ref">> /\ n.todo = <<>> /\ refs' = [refs EXCEPT ![v] = @ + 1] /\ n.version = v /\ n.clean = v
      BY <1>3, <2>3, Zenon DEF Refs
    <3>2. \A i \in 0..MaxEdits : ~Pins(c, i) /\ (Pins(c, i)' <=> i = v)
      BY <1>5, <3>1 DEF Pins
    <3>3. CountInv'
      BY <1>1, <1>2, <1>4, <3>1, <3>2, CountGrows, Zenon
    <3> QED BY <1>2, <3>1, <3>3
  <2>4. CASE Refs(c, <<"refcur", "clean">>, <<"clean">>, v)
    <3>1. /\ r.todo = <<"refcur", "clean">> /\ n.todo = <<"clean">> /\ refs' = [refs EXCEPT ![v] = @ + 1]
          /\ n.version = v /\ n.clean = v
      BY <1>3, <2>4, Zenon DEF Refs
    <3>2. \A i \in 0..MaxEdits : ~Pins(c, i) /\ (Pins(c, i)' <=> i = v)
      BY <1>5, <3>1 DEF Pins
    <3>3. CountInv'
      BY <1>1, <1>2, <1>4, <3>1, <3>2, CountGrows, Zenon
    <3> QED BY <1>2, <3>1, <3>3
  <2>5. CASE r.todo = <<"clean">> /\ n.todo = <<>> /\ refs' = refs /\ n.version = r.version /\ n.clean = v
    <3>1. n.version = v /\ r.clean = v
      BY <1>3, <2>5, Zenon
    <3>2. \A i \in 0..MaxEdits : Pins(c, i)' <=> Pins(c, i)
      BY <1>1, <1>5, <2>5, <3>1, Zenon DEF Pins
    <3>3. CountInv'
      BY <1>1, <1>2, <1>4, <2>5, <3>2, CountsKept, Zenon
    <3> QED BY <1>2, <2>5, <3>1, <3>3
  <2>6. CASE r.op = "sizes" /\ Refs(c, <<"refcur", "pick">>, <<"pick">>, v)
    <3>1. /\ r.todo = <<"refcur", "pick">> /\ n.todo = <<"pick">> /\ refs' = [refs EXCEPT ![v] = @ + 1]
          /\ n.version = r.version /\ n.clean = r.clean
      BY <2>6, Zenon DEF Refs
    <3>2. \A i \in 0..MaxEdits : ~Pins(c, i) /\ (Pins(c, i)' <=> i = v)
      BY <1>1, <1>5, <3>1 DEF Pins
    <3>3. CountInv'
      BY <1>1, <1>2, <1>4, <3>1, <3>2, CountGrows, Zenon
    <3> QED BY <1>2, <1>3, <3>1, <3>3
  <2>7. CASE r.op = "sizes" /\ Picks(c, <<"pick">>, <<>>)
    <3>1. r.todo = <<"pick">> /\ n.todo = <<>> /\ refs' = refs /\ n.version = v /\ n.clean = v
      BY <2>7, Zenon DEF Picks
    <3>2. \A i \in 0..MaxEdits : Pins(c, i)' <=> Pins(c, i)
      BY <1>1, <1>5, <3>1, StagesApart, Zenon DEF Pins
    <3>3. CountInv'
      BY <1>1, <1>2, <1>4, <3>1, <3>2, CountsKept, Zenon
    <3> QED BY <1>2, <3>1, <3>3
  <2> QED BY <2>1, <2>2, <2>3, <2>4, <2>5, <2>6, <2>7, Zenon
<1>7. WriterFiles' = WriterFiles /\ (\A m : SequenceAt(m)' = SequenceAt(m))
  BY <1>1, Zenon DEF WriterFiles, VersionAt, SequenceAt
<1>8. FollowTypeOK' /\ Opened'
  <2>1. ~view.reloading
    BY <1>2, <1>3, FollowAssumption, Zenon DEF Opened
  <2> QED BY <1>1, <1>2, <1>6, <1>7, <2>1, Zenon DEF FollowTypeOK, Opened
<1>9. ASSUME NEW d \in Clients PROVE ReadInv(d)'
  <2>1. CASE d = c
    <3>1. n.todo # <<>> => holder' = c
      BY <1>1, <1>3, Zenon
    <3> QED BY <1>1, <1>3, <1>6, <1>7, <2>1, <3>1, Zenon DEF ReadInv
  <2>2. CASE d # c
    <3>1. reads'[d] = reads[d] /\ ReadInv(d)
      BY <1>1, <2>2, Zenon DEF FollowInv
    <3>2. reads[d] # NoRead => reads[d].todo = <<>>
      BY <1>3, <2>2, <3>1, Zenon DEF ReadInv
    <3> QED BY <1>1, <1>7, <3>1, <3>2, Zenon DEF ReadInv
  <2> QED BY <2>1, <2>2, Zenon
<1> QED BY <1>6, <1>8, <1>9, Zenon DEF FollowInv

LEMMA ReadTableStep ==
  ASSUME FollowInv, NEW c \in Clients, NEW f \in 1..Len(edits), ReadTable(c, f)
  PROVE  FollowInv'
<1>1. reads[c] # NoRead /\ reads[c].todo = <<>> /\ UNCHANGED <<edits, onDisk, view, refs, holder>>
  BY Zenon DEF ReadTable, Reading
<1>2. FollowTypeOK /\ Opened /\ CountInv /\ reads \in [Clients -> Reads \cup {NoRead}] /\ reads[c] \in Reads
  BY <1>1, Zenon DEF FollowInv, FollowTypeOK
<1>3. WriterFiles' = WriterFiles /\ (\A m : SequenceAt(m)' = SequenceAt(m))
  BY <1>1, Zenon DEF WriterFiles, VersionAt, SequenceAt
<1>4. /\ reads' \in [Clients -> Reads \cup {NoRead}] /\ reads'[c] # NoRead
      /\ reads'[c].op = reads[c].op /\ reads'[c].todo = reads[c].todo /\ reads'[c].seq = reads[c].seq
      /\ reads'[c].version = reads[c].version /\ reads'[c].clean = reads[c].clean
      /\ reads'[c].failed \subseteq reads[c].failed \cup ({f} \ onDisk)
      /\ \A d \in Clients : d # c => reads'[d] = reads[d]
  <2>1. CASE UNCHANGED reads
    BY <1>1, <1>2, <2>1, Zenon
  <2>2. CASE f \notin cached \cup onDisk /\ reads' = [reads EXCEPT ![c].failed = @ \cup {f}]
    <3> DEFINE n == [reads[c] EXCEPT !.failed = @ \cup {f}]
    <3>1. reads' = [reads EXCEPT ![c] = n]
      BY <1>2, <2>2, Zenon
    <3>2. n \in Reads /\ n # NoRead
      <4>a. f \in Nat
        BY <1>2 DEF FollowTypeOK
      <4>b. reads[c].failed \in SUBSET Nat
        BY <1>2, Zenon DEF Reads
      <4>1. reads[c].failed \cup {f} \in SUBSET Nat
        BY <4>a, <4>b, Zenon
      <4>2. n \in Reads
        BY <1>2, <4>1, Zenon DEF Reads
      <4> QED BY <4>2, ReadsApart, Zenon
    <3>3. /\ n.op = reads[c].op /\ n.todo = reads[c].todo /\ n.seq = reads[c].seq
          /\ n.version = reads[c].version /\ n.clean = reads[c].clean /\ n.failed = reads[c].failed \cup {f}
      BY <1>2, Zenon DEF Reads
    <3> HIDE DEF n
    <3> QED BY <1>2, <2>2, <3>1, <3>2, <3>3, Zenon
  <2>3. UNCHANGED reads \/ (f \notin cached \cup onDisk /\ reads' = [reads EXCEPT ![c].failed = @ \cup {f}])
    BY Zenon DEF ReadTable
  <2> QED BY <2>1, <2>2, <2>3, Zenon
<1>5. FollowTypeOK' /\ Opened'
  BY <1>1, <1>2, <1>3, <1>4, Zenon DEF FollowTypeOK, Opened
<1>6. CountInv'
  <2>1. \A d \in Clients : \A i \in 0..MaxEdits : Pins(d, i)' <=> Pins(d, i)
    <3>1. \A i \in 0..MaxEdits : Pins(c, i)' <=> Pins(c, i)
      BY <1>1, <1>4, Zenon DEF Pins
    <3>2. \A d \in Clients : d # c => \A i \in 0..MaxEdits : Pins(d, i)' <=> Pins(d, i)
      BY <1>1, <1>4, Zenon DEF Pins
    <3> QED BY <3>1, <3>2, Zenon
  <2> QED BY <1>1, <1>2, <2>1, CountsKept, Zenon
<1>7. ASSUME NEW d \in Clients PROVE ReadInv(d)'
  <2>1. CASE d = c
    <3>1. reads'[c].failed \subseteq (1..Len(edits)) \ WriterFiles
      BY <1>1, <1>2, <1>4, Zenon DEF FollowInv, ReadInv, Opened
    <3>2. ReadInv(c)
      BY Zenon DEF FollowInv
    <3>3. UNCHANGED <<edits, view, holder>> /\ reads[c] # NoRead
      BY <1>1, <1>2, Zenon
    <3> QED BY <1>3, <1>4, <2>1, <3>1, <3>2, <3>3, Zenon DEF ReadInv
  <2>2. CASE d # c
    <3>1. ReadInv(d)
      BY Zenon DEF FollowInv
    <3> QED BY <1>1, <1>3, <1>4, <2>2, <3>1, Zenon DEF ReadInv
  <2> QED BY <2>1, <2>2, Zenon
<1> QED BY <1>5, <1>6, <1>7, Zenon DEF FollowInv

LEMMA ReadEndStep ==
  ASSUME Counting, FollowInv, NEW c \in Clients, ReadEnd(c)
  PROVE  FollowInv'
<1>1. /\ reads[c] # NoRead /\ reads[c].todo = <<>> /\ holder = Free
      /\ refs' = [refs EXCEPT ![reads[c].clean] = @ - 1] /\ reads' = [reads EXCEPT ![c] = NoRead]
      /\ UNCHANGED <<edits, onDisk, view, holder>>
  BY Zenon DEF ReadEnd, Reading
<1>2. /\ FollowTypeOK /\ Opened /\ CountInv /\ reads \in [Clients -> Reads \cup {NoRead}] /\ reads[c] \in Reads
      /\ refs \in [0..MaxEdits -> Int] /\ reads[c].clean \in 0..MaxEdits
  BY <1>1, Zenon DEF FollowInv, FollowTypeOK, Reads
<1>3. WriterFiles' = WriterFiles /\ (\A m : SequenceAt(m)' = SequenceAt(m))
  BY <1>1, Zenon DEF WriterFiles, VersionAt, SequenceAt
<1>4. reads'[c] = NoRead /\ \A d \in Clients : d # c => reads'[d] = reads[d]
  BY <1>1, <1>2, Zenon
<1>5. FollowTypeOK' /\ Opened'
  BY <1>1, <1>2, <1>3 DEF FollowTypeOK, Opened
<1>6. CountInv'
  <2>1. \A i \in 0..MaxEdits : ~Pins(c, i)' /\ (Pins(c, i) <=> i = reads[c].clean)
    BY <1>1, <1>4 DEF Pins
  <2>2. \A d \in Clients : d # c => \A i \in 0..MaxEdits : Pins(d, i)' <=> Pins(d, i)
    BY <1>1, <1>4, Zenon DEF Pins
  <2> QED BY <1>1, <1>2, <2>1, <2>2, CountShrinks, Zenon
<1>7. ASSUME NEW d \in Clients PROVE ReadInv(d)'
  <2>1. ReadInv(d)
    BY Zenon DEF FollowInv
  <2> QED BY <1>1, <1>3, <1>4, <2>1, Zenon DEF ReadInv
<1> QED BY <1>5, <1>6, <1>7, Zenon DEF FollowInv

-----------------------------------------------------------------------------
(* The invariant.                                                          *)

LEMMA FollowInitially ==
  ASSUME Counting, FollowInit
  PROVE  FollowInv
<1>1. /\ edits = <<>> /\ onDisk = {} /\ view = Closed /\ refs = [i \in 0..MaxEdits |-> 0]
      /\ reads = [c \in Clients |-> NoRead]
  BY Zenon DEF FollowInit
<1>2. view \in Views /\ ~view.open /\ ~view.reloading /\ view.current = 0
  BY <1>1, FollowAssumption DEF Views, Closed
<1>3. FollowTypeOK
  BY <1>1, <1>2, FollowAssumption DEF FollowTypeOK
<1>4. Opened
  BY <1>1, <1>2 DEF Opened, WriterFiles, VersionAt
<1>5. CountInv
  <2>1. \A i : Cardinality(Pinned(i)) = 0
    BY <1>1, NotPinned, Zenon DEF Pins
  <2> QED BY <1>1, <1>2, <2>1 DEF CountInv, IsCurrent
<1>6. \A c \in Clients : ReadInv(c)
  BY <1>1, Zenon DEF ReadInv
<1> QED BY <1>3, <1>4, <1>5, <1>6, Zenon DEF FollowInv

LEMMA FollowStutters ==
  ASSUME FollowInv, UNCHANGED <<edits, onDisk, view, refs, holder, reads>>
  PROVE  FollowInv'
<1>1. WriterFiles' = WriterFiles /\ (\A m : SequenceAt(m)' = SequenceAt(m))
  BY Zenon DEF WriterFiles, VersionAt, SequenceAt
<1>2. FollowTypeOK' /\ Opened'
  BY <1>1, Zenon DEF FollowInv, FollowTypeOK, Opened
<1>3. CountInv'
  BY CountsKept, Zenon DEF FollowInv, Pins
<1>4. \A c \in Clients : ReadInv(c)'
  BY <1>1, Zenon DEF FollowInv, ReadInv
<1> QED BY <1>2, <1>3, <1>4, Zenon DEF FollowInv

LEMMA StagesBy ==
  ASSUME NEW op, NEW t, <<op, t>> \in ReadStages
  PROVE  /\ t \in {<<"pick", "ref">>, <<"ref">>, <<"pick", "refcur", "clean">>, <<"refcur", "clean">>,
                   <<"refcur", "pick">>, <<"clean">>, <<"pick">>, <<>>}
         /\ t = <<"pick">> => op = "sizes"
         /\ t = <<"clean">> => op # "sizes"
<1>1. \/ op = "get" /\ t \in {<<"pick", "ref">>, <<"ref">>, <<>>}
      \/ op = "iter" /\ t \in {<<"pick", "refcur", "clean">>, <<"refcur", "clean">>, <<"clean">>, <<>>}
      \/ op = "sizes" /\ t \in {<<"refcur", "pick">>, <<"pick">>, <<>>}
  BY Zenon DEF ReadStages
<1> QED BY <1>1

LEMMA FollowHolds == FollowInv => FollowerExact
<1> SUFFICES ASSUME FollowInv PROVE FollowerExact
  BY Zenon
<1>1. RefsExact
  <2>1. ASSUME NEW t, t \in {<<"pick", "ref">>, <<"ref">>, <<"pick", "refcur", "clean">>, <<"refcur", "clean">>,
                             <<"refcur", "pick">>, <<"clean">>, <<"pick">>, <<>>}
        PROVE  ("ref" \notin {t[i] : i \in 1..Len(t)} /\ "refcur" \notin {t[i] : i \in 1..Len(t)})
                 <=> t \in {<<"clean">>, <<"pick">>, <<>>}
    <3>1. CASE t = <<"pick", "ref">>
      BY <3>1
    <3>2. CASE t = <<"ref">>
      BY <3>2
    <3>3. CASE t = <<"pick", "refcur", "clean">>
      BY <3>3
    <3>4. CASE t = <<"refcur", "clean">>
      BY <3>4
    <3>5. CASE t = <<"refcur", "pick">>
      BY <3>5
    <3>6. CASE t \in {<<"clean">>, <<"pick">>, <<>>}
      BY <3>6
    <3> QED BY <2>1, <3>1, <3>2, <3>3, <3>4, <3>5, <3>6, Zenon
  <2>2. ASSUME NEW c \in Clients, NEW i
        PROVE  Pins(c, i) <=> /\ Referenced(c)
                              /\ (IF reads[c].todo # <<>> /\ reads[c].op = "sizes"
                                  THEN view.current ELSE reads[c].clean) = i
    <3>1. CASE reads[c] = NoRead
      BY <3>1, Zenon DEF Pins, Referenced
    <3>2. CASE reads[c] # NoRead
      <4>1. <<reads[c].op, reads[c].todo>> \in ReadStages
        BY <3>2, Zenon DEF FollowInv, ReadInv
      <4>2. /\ reads[c].todo \in {<<"pick", "ref">>, <<"ref">>, <<"pick", "refcur", "clean">>, <<"refcur", "clean">>,
                                  <<"refcur", "pick">>, <<"clean">>, <<"pick">>, <<>>}
            /\ reads[c].todo = <<"pick">> => reads[c].op = "sizes"
            /\ reads[c].todo = <<"clean">> => reads[c].op # "sizes"
        BY <4>1, StagesBy, Zenon
      <4>3. Referenced(c) <=> reads[c].todo \in {<<"clean">>, <<"pick">>, <<>>}
        BY <2>1, <3>2, <4>2 DEF Referenced
      <4> QED BY <3>2, <4>2, <4>3 DEF Pins
    <3> QED BY <3>1, <3>2, Zenon
  <2>3. \A i : Pinned(i) = {c \in Clients : /\ Referenced(c)
                                            /\ (IF reads[c].todo # <<>> /\ reads[c].op = "sizes"
                                                THEN view.current ELSE reads[c].clean) = i}
    BY <2>2, Zenon DEF Pinned
  <2> QED BY <2>3, Zenon DEF FollowInv, CountInv, IsCurrent, RefsExact
<1>2. SnapshotMatches /\ ReadsServed
  BY Zenon DEF FollowInv, ReadInv, SnapshotMatches, ReadsServed, Reading
<1> QED BY <1>1, <1>2, Zenon DEF FollowerExact

-----------------------------------------------------------------------------
(* The counts.                                                             *)

INSTANCE FiniteSetTheorems

LEMMA Counts == Counting
<1>1. IsFiniteSet({}) /\ Cardinality({}) = 0 /\ \A S : IsFiniteSet(S) => (Cardinality(S) = 0 <=> S = {})
  BY FS_EmptySet, Zenon
<1>2. \A S : IsFiniteSet(S) => Cardinality(S) \in Nat
  BY FS_CardinalityType, Zenon
<1>3. \A S, T : IsFiniteSet(S) /\ T \subseteq S =>
          /\ IsFiniteSet(T) /\ Cardinality(T) <= Cardinality(S)
          /\ Cardinality(S) = Cardinality(T) => S = T
  BY FS_Subset, Zenon
<1>4. \A S, x : IsFiniteSet(S) =>
          /\ IsFiniteSet(S \cup {x})
          /\ Cardinality(S \cup {x}) = IF x \in S THEN Cardinality(S) ELSE Cardinality(S) + 1
  BY FS_AddElement, Zenon
<1>5. \A S, x : IsFiniteSet(S) =>
          /\ IsFiniteSet(S \ {x})
          /\ Cardinality(S \ {x}) = IF x \in S THEN Cardinality(S) - 1 ELSE Cardinality(S)
  BY FS_RemoveElement, Zenon
<1> QED BY <1>1, <1>2, <1>3, <1>4, <1>5, Zenon DEF Counting

\* With the mutex held during Reload (readonly_impl.cc), for any number of clients and edits:
\* a follower's versions have exactly the references of those who use them, a reader's
\* sequence number is that of its version, and a read fails only on a table that the writer
\* has dropped, however reloads, reads and the writer's removals interleave.
THEOREM FollowerAlwaysExact ==
  ASSUME Locked
  PROVE  FollowSpec => []FollowerExact
<1>1. FollowInv /\ [FollowNext]_followVars => FollowInv'
  <2> SUFFICES ASSUME FollowInv, [FollowNext]_followVars PROVE FollowInv'
    BY Zenon
  <2>1. CASE \E f \in cached : EvictTable(f)
    BY <2>1, FollowStutters, Zenon DEF EvictTable
  <2>2. CASE UNCHANGED followVars
    BY <2>2, FollowStutters, Zenon DEF followVars
  <2> QED BY <2>1, <2>2, Counts, WriterLogStep, WriterRemoveStep, FollowerOpenStep, FollowerCloseStep, ReloadEdgeStep,
             ForeignApplyStep, ReadBeginStep, ReadStatementStep, ReadTableStep, ReadEndStep, Zenon DEF FollowNext
<1>2. FollowInit => FollowInv
  BY Counts, FollowInitially, Zenon
<1> QED BY <1>1, <1>2, FollowHolds, PTL DEF FollowSpec
=============================================================================
