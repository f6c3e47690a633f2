-------------------------- MODULE MCTargetFilesBuild --------------------------
(* Instances of TargetFilesBuild small enough for TLC. *)
EXTENDS TargetFilesBuild, TLC

RunSymmetry == Permutations(Runs)
=============================================================================
