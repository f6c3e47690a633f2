\* Overlapping packagers, cut short anywhere, while the images change.
SPECIFICATION Spec
CONSTANTS
    r1 = r1
    r2 = r2
    r3 = r3
    Runs = {r1, r2, r3}
    None = None
    Build = {boot}
    boot = boot
    Firmware = {lk}
    lk = lk
    Absent = Absent
    MaxChanges = 1
    Faults = {"interrupt", "crash"}
SYMMETRY RunSymmetry
INVARIANTS
    TypeOK
    ReportedPackageAgrees
