CONSTANTS
    Order <- MCOrder
    MaxRounds = 3
SPECIFICATION LSpec
INVARIANTS
    CompletedIsCoherent
    StaleOnlyWhereSaid
    OkMeansItsOwnText
CHECK_DEADLOCK FALSE
