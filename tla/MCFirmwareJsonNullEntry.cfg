CONSTANTS
    NULL = NULL
    Firmwares <- MCNullEntryFirmwares
SPECIFICATION JSpec
INVARIANT AlwaysReadable
CHECK_DEADLOCK FALSE
