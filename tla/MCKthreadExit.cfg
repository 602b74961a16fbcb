SPECIFICATION ExitingSpec
CONSTANTS
    NTHREAD = 2
    MaxTid = 2
    JoinOnce = TRUE
    MayExit = TRUE
    None = None
PROPERTIES
    ExitEndsProcess
CHECK_DEADLOCK FALSE
