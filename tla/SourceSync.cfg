\* Any sequence of invocations, up to three of them killed, while two pins move.
SPECIFICATION Spec
CONSTANTS
    Projects = {"device", "kernel"}
    Files <- FleurFiles
    ProjectOf <- FleurProjects
    NPatches = 4
    Touches <- FleurPatches
    Fits <- FleurFits
    Holds <- FleurHolds
    None = None
    MaxPins = 2
    MaxKills = 3
INVARIANTS
    TypeOK
    SuccessMeansReady
    UncleanHasCause
