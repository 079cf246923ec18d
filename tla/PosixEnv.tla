------------------------------ MODULE PosixEnv ------------------------------
(***************************************************************************)
(* What the threads of PosixEnv share: the lock on a database's LOCK file  *)
(* (LockFile, UnlockFile, LockTable), which several processes contend for, *)
(* and the slots for memory-mapped files (MmapLimiter and                  *)
(* PosixMmapIoEnvWrapper::NewRandomAccessFile) of one process.             *)
(*                                                                         *)
(* fcntl locks belong to a process: one of its threads unlocking, or       *)
(* closing any descriptor of the file, drops the lock of the process.      *)
(***************************************************************************)
EXTENDS Integers, FiniteSets

CONSTANTS
  Threads, ProcessOf,   \* threads, and the process of each
  Openers, MmapSlots,   \* threads that open files, and the limiter's slots
  MaxOpens              \* files that each opens

Nobody == "nobody"

ASSUME PosixAssumption ==
  /\ \A t \in Threads : ProcessOf[t] # Nobody
  /\ IsFiniteSet(Openers) /\ MmapSlots \in Nat /\ MaxOpens \in Nat

VARIABLES
  lockedFiles,  \* processes whose LockTable holds the file
  kernelLock,   \* the process that the kernel's lock belongs to
  locker,       \* how far each thread is in LockFile or UnlockFile
  allowed,      \* MmapLimiter::allowed_
  opener        \* what each opener has and is doing

posixVars == <<lockedFiles, kernelLock, locker, allowed, opener>>

Processes == {ProcessOf[t] : t \in Threads}

PosixInit ==
  /\ lockedFiles = {} /\ kernelLock = Nobody
  /\ locker = [t \in Threads |-> "idle"]
  /\ allowed = MmapSlots
  /\ opener = [o \in Openers |-> [at |-> "idle", mapped |-> 0, empty |-> 0, opened |-> 0]]

-----------------------------------------------------------------------------
(* File locks.                                                             *)

LockStep(t, from, to) ==
  /\ locker[t] = from
  /\ locker' = [locker EXCEPT ![t] = to]
  /\ UNCHANGED <<allowed, opener>>

(* close(fd), or F_UNLCK: what t's process holds is released.              *)
DropLock(t) == kernelLock' = IF kernelLock = ProcessOf[t] THEN Nobody ELSE kernelLock

LockOpen(t) ==
  /\ LockStep(t, "idle", "opened")
  /\ UNCHANGED <<lockedFiles, kernelLock>>

(* Mutant: LockTable::Insert does not look.                                *)
LockInsertBlindly(t) ==
  /\ LockStep(t, "opened", "inserted")
  /\ lockedFiles' = lockedFiles \cup {ProcessOf[t]}
  /\ UNCHANGED kernelLock

LockInsert(t) ==
  /\ LockStep(t, "opened", IF ProcessOf[t] \in lockedFiles THEN "rejected" ELSE "inserted")
  /\ lockedFiles' = lockedFiles \cup {ProcessOf[t]}
  /\ UNCHANGED kernelLock

LockReject(t) ==
  /\ LockStep(t, "rejected", "idle")
  /\ DropLock(t)
  /\ UNCHANGED lockedFiles

LockSet(t) ==
  /\ IF kernelLock \in {Nobody, ProcessOf[t]}
     THEN LockStep(t, "inserted", "held") /\ kernelLock' = ProcessOf[t]
     ELSE LockStep(t, "inserted", "refused") /\ UNCHANGED kernelLock
  /\ UNCHANGED lockedFiles

LockRefused(t) ==
  /\ LockStep(t, "refused", "withdrawing")
  /\ DropLock(t)
  /\ UNCHANGED lockedFiles

LockWithdraw(t) ==
  /\ LockStep(t, "withdrawing", "idle")
  /\ lockedFiles' = lockedFiles \ {ProcessOf[t]}
  /\ UNCHANGED kernelLock

UnlockSet(t) ==
  /\ LockStep(t, "held", "unset")
  /\ DropLock(t)
  /\ UNCHANGED lockedFiles

UnlockRemove(t) ==
  /\ LockStep(t, "unset", "removed")
  /\ lockedFiles' = lockedFiles \ {ProcessOf[t]}
  /\ UNCHANGED kernelLock

UnlockClose(t) ==
  /\ LockStep(t, "removed", "idle")
  /\ DropLock(t)
  /\ UNCHANGED lockedFiles

(* A process ends: the kernel closes its descriptors.                      *)
ProcessExit(p) ==
  /\ \E t \in Threads : ProcessOf[t] = p /\ locker[t] # "idle"
  /\ locker' = [t \in Threads |-> IF ProcessOf[t] = p THEN "idle" ELSE locker[t]]
  /\ lockedFiles' = lockedFiles \ {p}
  /\ kernelLock' = IF kernelLock = p THEN Nobody ELSE kernelLock
  /\ UNCHANGED <<allowed, opener>>

-----------------------------------------------------------------------------
(* Slots for mapped files.                                                 *)

Slots(o, f, a) ==
  /\ opener' = [opener EXCEPT ![o] = f]
  /\ allowed' = a
  /\ UNCHANGED <<lockedFiles, kernelLock, locker>>

(* Acquire's first look, without the mutex; a file that finds no slot is   *)
(* read with pread.                                                        *)
OpenMapped(o) ==
  /\ opener[o].at = "idle" /\ opener[o].opened < MaxOpens
  /\ Slots(o, [opener[o] EXCEPT !.at = IF allowed <= 0 THEN "idle" ELSE "looked",
                                !.opened = @ + 1], allowed)

(* Acquire's second look, with the mutex.                                  *)
AcquireSlot(o) ==
  /\ opener[o].at = "looked"
  /\ IF allowed <= 0 THEN Slots(o, [opener[o] EXCEPT !.at = "idle"], allowed)
     ELSE Slots(o, [opener[o] EXCEPT !.at = "acquired"], allowed - 1)

MapFile(o) ==
  /\ opener[o].at = "acquired"
  /\ \/ Slots(o, [opener[o] EXCEPT !.at = "idle", !.mapped = @ + 1], allowed)
     \/ Slots(o, [opener[o] EXCEPT !.at = "failed"], allowed)      \* stat or mmap
     \/ Slots(o, [opener[o] EXCEPT !.at = "idle", !.empty = @ + 1], allowed)

MapFailed(o) ==
  /\ opener[o].at = "failed"
  /\ Slots(o, [opener[o] EXCEPT !.at = "idle"], allowed + 1)

(* ~PosixMmapReadableFile.  (~PosixEmptyFile releases nothing.)            *)
CloseMapped(o) ==
  /\ opener[o].at = "idle" /\ opener[o].mapped > 0
  /\ Slots(o, [opener[o] EXCEPT !.mapped = @ - 1], allowed + 1)

PosixNext ==
  \/ \E t \in Threads :
       \/ LockOpen(t) \/ LockInsert(t) \/ LockReject(t) \/ LockSet(t)
       \/ LockRefused(t) \/ LockWithdraw(t)
       \/ UnlockSet(t) \/ UnlockRemove(t) \/ UnlockClose(t)
  \/ \E p \in Processes : ProcessExit(p)
  \/ \E o \in Openers :
       OpenMapped(o) \/ AcquireSlot(o) \/ MapFile(o) \/ MapFailed(o) \/ CloseMapped(o)

PosixSpec == PosixInit /\ [][PosixNext]_posixVars

-----------------------------------------------------------------------------
(* Properties.                                                             *)

(* LockTable: two threads of one process never both hold the lock, which   *)
(* fcntl would grant, and a process none of whose threads is in a call or  *)
(* holds it has left neither the table's entry nor the kernel's lock.      *)
LockTableExact ==
  \A p \in Processes :
    LET mine == {t \in Threads : ProcessOf[t] = p}
    IN /\ Cardinality({t \in mine : locker[t] = "held"}) <= 1
       /\ (\A t \in mine : locker[t] = "idle") => p \notin lockedFiles /\ kernelLock # p

Units(f) == {u \in Openers \X (1..MaxOpens) : u[2] <= f[u[1]]}

Taken == [o \in Openers |-> opener[o].mapped + opener[o].empty]
Acquiring == {o \in Openers : opener[o].at \in {"acquired", "failed"}}

(* The limiter grants no more than its slots (MmapLimiter::Acquire): those *)
(* left, the mappings, the calls that acquired one, and the slots that     *)
(* empty files never give back, are all there are.                         *)
SlotsConserved ==
  /\ allowed >= 0
  /\ allowed + Cardinality(Units(Taken)) + Cardinality(Acquiring) = MmapSlots

(* A process leaves no lock behind and its threads exclude each other, and *)
(* no more files are mapped than the limiter has slots (posix_env.cc,      *)
(* posix_mmap.h).                                                          *)
EnvExact == LockTableExact /\ SlotsConserved
=============================================================================
