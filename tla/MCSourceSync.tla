----------------------------- MODULE MCSourceSync -----------------------------
(* Instances of SourceSync small enough for TLC. *)
EXTENDS SourceSync, TLC

\* Two patches on one file, one on two files, and one in another project.
FleurPatches  == <<{"contexts"}, {"contexts"}, {"sku1", "sku2"}, {"mdpm"}>>
FleurFiles    == UNION {FleurPatches[n] : n \in DOMAIN FleurPatches}
FleurProjects == [f \in FleurFiles |-> IF f = "mdpm" THEN "kernel" ELSE "device"]

\* The first revision of the device has a changed file that takes one of its
\* two patches, and the first of the kernel has its patch; the second of the
\* device has the SKU patch in one of the two files.
FleurFits  == [f \in FleurFiles |->
                 [v \in 0..2 |-> CASE f = "contexts" /\ v = 1 -> {2}
                                   [] f = "mdpm" /\ v = 1 -> {}
                                   [] f = "sku1" /\ v = 2 -> {}
                                   [] OTHER -> {n \in DOMAIN FleurPatches : f \in FleurPatches[n]}]]
FleurHolds == [f \in FleurFiles |->
                 [v \in 0..2 |-> CASE f = "mdpm" /\ v = 1 -> {4}
                                   [] f = "sku1" /\ v = 2 -> {3}
                                   [] OTHER -> {}]]
=============================================================================
