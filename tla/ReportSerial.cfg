\* One verifier after the other; inputs that change, interrupts and kills anywhere.
SPECIFICATION Spec
CONSTANTS
    v1 = v1
    v2 = v2
    Verifiers = {v1, v2}
    None = None
    NInputs = 2
    MaxChanges = 2
    Faults = {"interrupt", "crash"}
    Overlap = FALSE
SYMMETRY RunSymmetry
INVARIANTS
    TypeOK
    ReportOfOneInstant
    ReportWhole
PROPERTIES
    PublicationSpec
