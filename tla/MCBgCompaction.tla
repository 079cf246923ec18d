--------------------------- MODULE MCBgCompaction ---------------------------
(* Instances of BgCompaction for TLC. *)
EXTENDS BgCompaction, TLC

ClientSymmetry == Permutations(Clients)
=============================================================================
