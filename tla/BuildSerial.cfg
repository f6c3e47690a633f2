\* One run after the other; kills anywhere, and the kernel patch applied or reverted anywhere, and
\* builds that write the preserved archive again.
SPECIFICATION Spec
CONSTANTS
    r1 = r1
    r2 = r2
    r3 = r3
    Runs = {r1, r2, r3}
    Earlier = Earlier
    None = None
    Faults = {"kill", "edit", "rewrite"}
    Overlap = FALSE
SYMMETRY RunSymmetry
INVARIANTS
    TypeOK
    OldArchiveKept
    FinalNamesOwnBuild
    PrefixNeverFinal
PROPERTIES
    RestoredOnFailure
