CONSTANTS
    NULL = NULL
    Slack = 3
    MaxGrowth = 2
    MaxDescriptors = 6
    MaxChanges = 3
SPECIFICATION BSpec
INVARIANTS
    Coherent
    BufferOwned
PROPERTIES
    SlackAbsorbs
CHECK_DEADLOCK FALSE
