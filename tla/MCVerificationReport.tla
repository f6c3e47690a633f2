------------------------- MODULE MCVerificationReport -------------------------
(* Instances of VerificationReport small enough for TLC. *)
EXTENDS VerificationReport, TLC

RunSymmetry == Permutations(Verifiers)
=============================================================================
