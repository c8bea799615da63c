CONSTANTS
    NULL = NULL
    MaxStarts = 2
    MaxRuns = 2
    MaxImages = 2
    Slack = 0
    MaxGrowth = 1
    MaxDescriptors = 2
    MaxChanges = 1
    Sizes = {1, 2}
    CleanupMayFail = FALSE
SPECIFICATION FairSpec
INVARIANTS
    SnapshotAgrees
    NoUseAfterFree
    GivesBack
    OneLiveProducer
    ReportShowsProducer
    HandleDiscipline
    FileIsOneRuns
PROPERTY ComesBack
CHECK_DEADLOCK FALSE
