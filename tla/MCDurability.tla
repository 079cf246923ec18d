---------------------------- MODULE MCDurability ----------------------------
(***************************************************************************)
(* What is left after crashes and what others see of it, for TLC: the      *)
(* write path with its log, the files of the POSIX environment, and a      *)
(* follower of another process's DB.  A behaviour is one of one component, *)
(* while the others keep one of their initial states.                      *)
(***************************************************************************)
EXTENDS WritePath, PosixFiles, Follower, TLC

CONSTANT Parts   \* the components to explore

VARIABLE part

MCSymmetry == Permutations(Writers)

\* Each kind of writable file with one kind of copy.
Init ==
  /\ part \in Parts /\ WriteInit /\ FilesInit /\ FollowInit
  /\ IF part = "write" THEN TRUE ELSE wal = TRUE
  /\ IF part = "files" THEN build.buffered # build.linux ELSE build = [buffered |-> TRUE, linux |-> TRUE]

WriteStep  == part = "write" /\ WriteNext /\ UNCHANGED <<part, fileVars, followVars>>
FilesStep  == part = "files" /\ FilesNext /\ UNCHANGED <<part, writeVars, followVars>>
FollowStep == part = "follow" /\ FollowNext /\ UNCHANGED <<part, writeVars, fileVars>>

Next == WriteStep \/ FilesStep \/ FollowStep

Spec == Init /\ [][Next]_<<part, writeVars, fileVars, followVars>>
=============================================================================
