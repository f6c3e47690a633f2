---------------------------- MODULE MCSignRelease ----------------------------
(* Instances of SignRelease small enough for TLC. *)
EXTENDS SignRelease, TLC

\* Runs are not told apart; a certificate and a private key are.
Symmetry == Permutations(Runs)
=============================================================================
