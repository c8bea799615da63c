\* The comment on FreeBootHandoffInfo, where the report may fail.
CONSTANTS
    NULL = NULL
    MaxStarts = 1
    MaxRuns = 1
    MaxImages = 1
    Slack = 1
    MaxGrowth = 1
    MaxDescriptors = 2
    MaxChanges = 1
    Sizes = {1, 2}
    CleanupMayFail = FALSE
SPECIFICATION Spec
INVARIANT ReleasedOnReturn
CHECK_DEADLOCK FALSE
