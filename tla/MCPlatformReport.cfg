CONSTANTS
    Settings <- MCSettings
SPECIFICATION PSpec
INVARIANTS
    ContractIsWhatFileSays
    VerdictsMatchEvidence
    ExitTellsWhetherMet
    ReportsComeInPairs
CHECK_DEADLOCK FALSE
