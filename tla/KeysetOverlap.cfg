\* Two overlapping runs; exceptions, kills and power losses anywhere.
SPECIFICATION Spec
CONSTANTS
    r1 = r1
    r2 = r2
    Runs = {r1, r2}
    NoRun = NoRun
    Plan <- AvbOnly
    Faults = {"interrupt", "crash", "power"}
    Overlap = TRUE
SYMMETRY RunSymmetry
INVARIANTS
    TypeOK
    PublishedComplete
    OneAuthority
    AcknowledgedIsDurable
    RefusalHasCause
PROPERTIES
    PublishedStays
    PublicationSpec
