CONSTANTS
    Fdfs <- MCFdfs
    MaxRuns = 3
SPECIFICATION OSpec
INVARIANTS
    BuildsWithProducer
    NothingIsLost
PROPERTIES
    PatchIsIdempotent
CHECK_DEADLOCK FALSE
