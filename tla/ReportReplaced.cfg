\* Two overlapping verifiers with the same --report path, and no fault at all.
SPECIFICATION Spec
CONSTANTS
    v1 = v1
    v2 = v2
    Verifiers = {v1, v2}
    None = None
    NInputs = 1
    MaxChanges = 0
    Faults = {}
    Overlap = TRUE
INVARIANTS
    SuccessHoldsReport
