---------------------------- MODULE MCSpftPackage ----------------------------
(* Instances of SpftPackage small enough for TLC. *)
EXTENDS SpftPackage, TLC

RunSymmetry == Permutations(Runs)
=============================================================================
