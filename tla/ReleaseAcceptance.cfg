\* Up to three parts that do not hold what they should.
SPECIFICATION Spec
CONSTANTS
    Release = Release
    Test = Test
    Contents = {Release, Test}
    MaxWrong = 3
INVARIANTS
    SameReleaseEitherWay
    KernelIsTheRecorded
    StartsAndUpdates
    RejectionHasCause
