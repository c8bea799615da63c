CONSTANTS
    MaxRuns = 3
SPECIFICATION EEFairSpec
INVARIANTS
    GoodRunLeavesItsOwn
    GuestIsGivenWhole
PROPERTIES
    RunEnds
CHECK_DEADLOCK FALSE
