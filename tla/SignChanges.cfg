\* One signer, every input changing once at any moment; nothing is interrupted.
SPECIFICATION Spec
CONSTANTS
    r1 = r1
    k1 = k1
    k2 = k2
    Runs = {r1}
    NoRun = NoRun
    Containers = {k1, k2}
    Certificates = {k1}
    LastGen = 1
    Faults = {}
    Overlap = FALSE
SYMMETRY Symmetry
INVARIANTS
    TypeOK
    InputsOfOneInstant
    ReleaseOfAcceptedInputs
    SignatureMatchesExportedKey
