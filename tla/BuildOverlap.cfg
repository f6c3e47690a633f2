\* Two overlapping runs of the wrapper share the target-files path.
SPECIFICATION Spec
CONSTANTS
    r1 = r1
    r2 = r2
    Runs = {r1, r2}
    Earlier = Earlier
    None = None
    Faults = {}
    Overlap = TRUE
INVARIANTS
    StaleNeverFinal
