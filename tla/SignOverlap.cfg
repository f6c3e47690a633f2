\* Two overlapping signers of one output directory; exceptions, kills and power losses anywhere.
SPECIFICATION Spec
CONSTANTS
    r1 = r1
    r2 = r2
    k1 = k1
    Runs = {r1, r2}
    NoRun = NoRun
    Containers = {k1}
    Certificates = {k1}
    LastGen = 0
    Faults = {"interrupt", "crash", "power"}
    Overlap = TRUE
SYMMETRY Symmetry
INVARIANTS
    ReleaseWholeAndPublic
    NoKeysLeftBehind
PROPERTIES
    PublicationSpec
