-------------------------- MODULE MCKeysetGeneration --------------------------
(* Instances of KeysetGeneration small enough for TLC. *)
EXTENDS KeysetGeneration, TLC

AvbOnly     == <<"avb">>
AndroidOnly == <<"android">>

\* The runs are interchangeable: no operator of the specification tells them apart.
RunSymmetry == Permutations(Runs)
=============================================================================
