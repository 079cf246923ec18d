----------------------------- MODULE RadosDbEnv -----------------------------
(***************************************************************************)
(* The environment a database on rados runs in (src/rados/rados_db_env.cc  *)
(* over rados_env.cc and the calls of ofs.cc): one directory tree made of  *)
(* two.  Tables, logs, manifests and CURRENT live in file sets of rados    *)
(* that must be mounted to be used; lock, temporary, info log and foreign  *)
(* files live in a local directory of the same name, its mirror.           *)
(*                                                                         *)
(* The object file system and the local file system are external here:     *)
(* each call to them takes effect or fails (module Ofs has their inside).  *)
(* A file holds the number of the call that wrote it.                      *)
(***************************************************************************)
EXTENDS Integers, FiniteSets, Functions

CONSTANTS
  DbDirs,        \* directories under the rados mount point ...
  OtherDirs,     \* ... and out of it
  DbFiles,       \* base names
  TypeOf,        \* TypeOf[f]: what TryResolveFileType makes of f
  MaxEnvCalls, MaxEnvErrors   \* bounds

VARIABLES rset, ldir, called, envErrs, setting, want
envVars == <<rset, ldir, called, envErrs, setting, want>>

EnvDirs == DbDirs \cup OtherDirs
Empty == [f \in {} |-> 0]
Put1(files, f, c) == [g \in DOMAIN files \cup {f} |-> IF g = f THEN c ELSE files[g]]
Drop(files, f) == Restrict(files, DOMAIN files \ {f})

NoCall == [k |-> "none", d |-> CHOOSE d \in EnvDirs : TRUE, remote |-> "ok", status |-> "ok"]

EnvInit ==
  /\ rset = [d \in EnvDirs |-> [exists |-> FALSE, mount |-> "no", files |-> Empty]]
  /\ ldir = [d \in EnvDirs |-> [exists |-> FALSE, files |-> Empty]]
  /\ called = [n |-> 0, last |-> NoCall]
  /\ envErrs = 0
  /\ setting = {}                                  \* SetCurrentFile in progress
  /\ want = [d \in EnvDirs |-> Empty]              \* what one plain directory would hold

-----------------------------------------------------------------------------
(* Which of the two a call goes to.                                        *)

PathOnRados(d) == d \in DbDirs

TypeOnRados(t) == t \in {"table", "log", "descriptor", "current"}

FileOnRados(d, f) == PathOnRados(d) /\ TypeOnRados(TypeOf[f])

-----------------------------------------------------------------------------
(* External calls.  An outcome is a status with the state it leaves.       *)

MayFail(outcomes, now) ==
  outcomes \cup (IF envErrs < MaxEnvErrors THEN {[status |-> "ioerror", s |-> now]} ELSE {})

(* RadosEnv::MountDir, then Ofs::MountFileSet. *)
MountDir(d, create) ==
  LET r == rset[d] IN
  IF r.mount # "no" THEN {[status |-> "exists", s |-> r]}
  ELSE IF ~r.exists /\ ~create THEN MayFail({[status |-> "notfound", s |-> r]}, r)
  ELSE MayFail({[status |-> "ok", s |-> [exists |-> TRUE, mount |-> IF create THEN "rw" ELSE "ro",
                                         files |-> r.files]]}, r)

(* RadosEnv::UnmountDir: Ofs::SynFileSet unless the directory is deleted,  *)
(* then Ofs::UnmountFileSet.  The set is unmounted before its logs are     *)
(* deleted.                                                                *)
UnmountDir(d, delete) ==
  LET r == rset[d]
      off == [r EXCEPT !.mount = "no"]
  IN IF r.mount = "no" THEN {[status |-> "notfound", s |-> r]}
     ELSE IF ~delete THEN MayFail({[status |-> "ok", s |-> off]}, r)
     ELSE IF r.files # Empty THEN {[status |-> "notempty", s |-> r]}
     ELSE MayFail({[status |-> "ok", s |-> [off EXCEPT !.exists = FALSE]]}, off)

LocalCreate(d) ==
  IF ldir[d].exists THEN {[status |-> "exists", s |-> ldir[d]]}
  ELSE MayFail({[status |-> "ok", s |-> [ldir[d] EXCEPT !.exists = TRUE]]}, ldir[d])

LocalDelete(d) ==
  IF ~ldir[d].exists THEN {[status |-> "notfound", s |-> ldir[d]]}
  ELSE IF ldir[d].files # Empty THEN {[status |-> "notempty", s |-> ldir[d]]}
  ELSE MayFail({[status |-> "ok", s |-> [ldir[d] EXCEPT !.exists = FALSE]]}, ldir[d])

Same(d) == {[status |-> "none", s |-> ldir[d]]}

-----------------------------------------------------------------------------
(* Calls on directories.                                                   *)

CanCallEnv == setting = {} /\ called.n < MaxEnvCalls

Called(k, d, remote, status) ==
  called' = [n |-> called.n + 1,
             last |-> [k |-> k, d |-> d, remote |-> remote, status |-> status]]

Took(d, r, l) ==
  /\ rset' = [rset EXCEPT ![d] = r.s]
  /\ ldir' = [ldir EXCEPT ![d] = l.s]
  /\ envErrs' = envErrs + Cardinality({x \in {<<1, r.status>>, <<2, l.status>>} : x[2] = "ioerror"})
  /\ envErrs' <= MaxEnvErrors
  /\ UNCHANGED <<setting, want>>

(* What LocalCreateOrAttachDir returns: its status is left OK when the     *)
(* remote one is an error other than "already exists".                     *)
Mirrored(remote) == remote \in {"ok", "exists"}
CreateStatus(remote, local) ==
  CASE ~Mirrored(remote) -> "ok"
    [] Mirrored(remote) /\ local \in {"ok", "exists"} -> remote
    [] OTHER -> local

LocalCreateOrAttachDir(k, d, outcomes) ==
  \E r \in outcomes :
    \E l \in IF Mirrored(r.status) THEN LocalCreate(d) ELSE Same(d) :
      /\ Took(d, r, l)
      /\ Called(k, d, r.status, CreateStatus(r.status, l.status))

CreateDir(d) ==
  /\ CanCallEnv
  /\ \/ PathOnRados(d) /\ LocalCreateOrAttachDir("create", d, MountDir(d, TRUE))
     \/ /\ ~PathOnRados(d)
        /\ \E l \in LocalCreate(d) : /\ Took(d, [status |-> "none", s |-> rset[d]], l)
                                     /\ Called("create", d, "none", l.status)

AttachDir(d) ==
  /\ CanCallEnv
  /\ PathOnRados(d)
  /\ LocalCreateOrAttachDir("attach", d, MountDir(d, FALSE))

DetachDir(d) ==
  /\ CanCallEnv
  /\ PathOnRados(d)
  /\ \E r \in UnmountDir(d, FALSE) : /\ Took(d, r, [status |-> "none", s |-> ldir[d]])
                                     /\ Called("detach", d, r.status, r.status)

(* What LocalDeleteDir returns. *)
DeleteStatus(remote, local) ==
  CASE remote = "ok" -> IF local = "notfound" THEN "ok" ELSE local
    [] remote = "notfound" -> local
    [] OTHER -> "ok"

DeleteDir(d) ==
  /\ CanCallEnv
  /\ \/ /\ PathOnRados(d)
        /\ \E r \in UnmountDir(d, TRUE) :
             \E l \in IF r.status \in {"ok", "notfound"} THEN LocalDelete(d) ELSE Same(d) :
               /\ Took(d, r, l)
               /\ Called("delete", d, r.status, DeleteStatus(r.status, l.status))
     \/ /\ ~PathOnRados(d)
        /\ \E l \in LocalDelete(d) : /\ Took(d, [status |-> "none", s |-> rset[d]], l)
                                     /\ Called("delete", d, "none", l.status)

-----------------------------------------------------------------------------
(* Calls on files.                                                         *)

FilesOf(d, f) == IF FileOnRados(d, f) THEN rset[d].files ELSE ldir[d].files
CanRead(d, f) == IF FileOnRados(d, f) THEN rset[d].mount # "no" ELSE ldir[d].exists
CanWrite(d, f) == IF FileOnRados(d, f) THEN rset[d].mount = "rw" ELSE ldir[d].exists

FileExists(d, f) == CanRead(d, f) /\ f \in DOMAIN FilesOf(d, f)

SetFiles(d, f, files) ==
  IF FileOnRados(d, f) THEN rset' = [rset EXCEPT ![d].files = files] /\ UNCHANGED ldir
                       ELSE ldir' = [ldir EXCEPT ![d].files = files] /\ UNCHANGED rset

(* NewWritableFile and the writes through it, to the end. *)
WriteFile(d, f) ==
  /\ CanCallEnv /\ CanWrite(d, f)
  /\ SetFiles(d, f, Put1(FilesOf(d, f), f, called.n + 1))
  /\ want' = [want EXCEPT ![d] = Put1(@, f, called.n + 1)]
  /\ Called("write", d, "none", "ok")
  /\ UNCHANGED <<envErrs, setting>>

DeleteDbFile(d, f) ==
  /\ CanCallEnv /\ CanWrite(d, f) /\ FileExists(d, f)
  /\ SetFiles(d, f, Drop(FilesOf(d, f), f))
  /\ want' = [want EXCEPT ![d] = Drop(@, f)]
  /\ Called("remove", d, "none", "ok")
  /\ UNCHANGED <<envErrs, setting>>

(* RenameFile; from a temporary file to rados it is RenameLocalTmpToRados, *)
(* in steps of its own; otherwise it does not cross the boundary.          *)
RenameDbFile(d, f, g) ==
  /\ CanCallEnv /\ f # g
  /\ CanWrite(d, f) /\ FileExists(d, f)
  /\ FileOnRados(d, g) => ~FileExists(d, g)      \* Ofs::Rename replaces nothing
  /\ ~(TypeOf[f] = "temp" /\ ~FileOnRados(d, f) /\ FileOnRados(d, g))
  /\ IF FileOnRados(d, f) # FileOnRados(d, g)
     THEN Called("rename", d, "none", "unsupported") /\ UNCHANGED <<rset, ldir, want>>
     ELSE /\ SetFiles(d, f, Put1(Drop(FilesOf(d, f), f), g, FilesOf(d, f)[f]))
          /\ want' = [want EXCEPT ![d] = Put1(Drop(@, f), g, want[d][f])]
          /\ Called("rename", d, "none", "ok")
  /\ UNCHANGED <<envErrs, setting>>

(* SetCurrentFile: the temporary file has been written and is to become    *)
(* CURRENT.  The temporary file is read, CURRENT replaced by one call, the *)
(* temporary file deleted.                                                 *)
RenameLocalTmpToRados(d, f, g) ==
  /\ CanCallEnv
  /\ TypeOf[f] = "temp" /\ ~FileOnRados(d, f) /\ FileOnRados(d, g)
  /\ FileExists(d, f)
  /\ setting' = {[d |-> d, f |-> f, g |-> g, c |-> ldir[d].files[f], at |-> "put"]}
  /\ called' = [called EXCEPT !.n = @ + 1, !.last = NoCall]
  /\ UNCHANGED <<rset, ldir, envErrs, want>>

PutCurrent ==
  \E s \in setting :
    /\ s.at = "put"
    /\ \/ /\ rset[s.d].mount = "rw"
          /\ rset' = [rset EXCEPT ![s.d].files = Put1(@, s.g, s.c)]
          /\ want' = [want EXCEPT ![s.d] = Put1(@, s.g, s.c)]
          /\ setting' = {[s EXCEPT !.at = "delete"]}
          /\ UNCHANGED envErrs
       \/ /\ rset[s.d].mount # "rw" \/ envErrs < MaxEnvErrors
          /\ envErrs' = IF rset[s.d].mount = "rw" THEN envErrs + 1 ELSE envErrs
          /\ setting' = {}
          /\ UNCHANGED <<rset, want>>
    /\ UNCHANGED <<ldir, called>>

DeleteTmp ==
  \E s \in setting :
    /\ s.at = "delete"
    /\ ldir' = [ldir EXCEPT ![s.d].files = Drop(@, s.f)]
    /\ want' = [want EXCEPT ![s.d] = Drop(@, s.f)]
    /\ setting' = {}
    /\ UNCHANGED <<rset, called, envErrs>>

(* The process dies and another one starts: nothing is mounted. *)
Restart ==
  /\ rset' = [d \in EnvDirs |-> [rset[d] EXCEPT !.mount = "no"]]
  /\ rset' # rset
  /\ setting' = {}
  /\ called' = [called EXCEPT !.last = NoCall]
  /\ UNCHANGED <<ldir, envErrs, want>>

EnvNext ==
  \/ \E d \in EnvDirs : CreateDir(d) \/ AttachDir(d) \/ DetachDir(d) \/ DeleteDir(d)
  \/ \E d \in EnvDirs, f \in DbFiles : WriteFile(d, f) \/ DeleteDbFile(d, f)
  \/ \E d \in EnvDirs, f, g \in DbFiles : RenameDbFile(d, f, g) \/ RenameLocalTmpToRados(d, f, g)
  \/ PutCurrent \/ DeleteTmp \/ Restart

EnvSpec == EnvInit /\ [][EnvNext]_envVars

-----------------------------------------------------------------------------
(* Properties.                                                             *)

(* Mutant: the listing is that of rados alone. *)
ListRadosOnly(d) == IF PathOnRados(d) THEN rset[d].files ELSE ldir[d].files

(* GetChildren: the local listing, and the remote one after it. *)
GetChildren(d) ==
  [f \in DOMAIN ldir[d].files \cup (IF PathOnRados(d) THEN DOMAIN rset[d].files ELSE {}) |->
     IF FileOnRados(d, f) THEN rset[d].files[f] ELSE ldir[d].files[f]]

(* The two trees are one (rados_db_env.cc): whenever the directory can be  *)
(* listed, a listing and reads through the wrapper give exactly what a     *)
(* plain directory would hold after the same calls, across detaching and   *)
(* attaching, partial failures of directory calls and restarts; CURRENT is *)
(* always the old or the new one.                                          *)
TreesAreOne ==
  \A d \in EnvDirs :
    rset[d].mount # "no" \/ (~PathOnRados(d) /\ ldir[d].exists) => GetChildren(d) = want[d]

(* A usable directory has its mirror (rados_db_env.cc: "make sure that the *)
(* local dir exists if the remote dir has been, or has already been,       *)
(* created"): after CreateDir or AttachDir found or made the file set and  *)
(* reported no local error, lock and temporary files can be created.       *)
MirrorExists ==
  LET c == called.last IN
    c.k \in {"create", "attach"} /\ PathOnRados(c.d) /\ Mirrored(c.remote)
      /\ c.status \in {"ok", "exists"} => ldir[c.d].exists

(* A database directory in the object store and its local mirror answer as *)
(* one directory, and the mirror of a mounted one exists.                  *)
TreesAgree == TreesAreOne /\ MirrorExists
=============================================================================
