CONSTANTS
    NULL = NULL
    Firmwares <- MCFirmwares
SPECIFICATION JSpec
INVARIANTS
    ReadsBack
CHECK_DEADLOCK FALSE
