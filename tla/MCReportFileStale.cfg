\* The comment on the delete, where the delete may fail.
CONSTANTS
    MaxRuns = 2
    Sizes <- MCSizes
    CleanupMayFail = TRUE
SPECIFICATION WSpec
INVARIANT
    NoStaleTail
