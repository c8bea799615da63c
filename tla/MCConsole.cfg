CONSTANTS
    NULL = NULL
    Tables <- MCTables
    Firmwares <- MCFirmwares
    Modulus = 4
    NoMadt <- MCNoMadt
    Systems <- MCSystems
SPECIFICATION CFairSpec
INVARIANTS
    LookupsAgree
    OverreadBounded
    ListsEveryRecord
    ListsEveryFunction
    BarsAsDeclared
    WindowsAgree
    PointersInside
    PrintsWhatWasWritten
    EveryPageInOneCategory
    ConsoleMatchesReport
PROPERTIES
    MadtStaysInTable
    ConsoleEnds
CHECK_DEADLOCK FALSE
