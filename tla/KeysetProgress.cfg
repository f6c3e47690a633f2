\* Two overlapping runs, exceptions anywhere: a keyset appears, and no run leaves a key behind.
SPECIFICATION FairSpec
CONSTANTS
    r1 = r1
    r2 = r2
    Runs = {r1, r2}
    NoRun = NoRun
    Plan <- AndroidOnly
    Faults = {"interrupt"}
    Overlap = TRUE
INVARIANTS
    EndedRunLeavesNothing
PROPERTIES
    SomebodyPublishes
    StepsGoForward
