SPECIFICATION Spec
CONSTANTS
    NTHREAD = 2
    MaxTid = 3
    JoinOnce = TRUE
    MayExit = FALSE
    None = None
INVARIANTS
    CreateFindsTrapframe
CHECK_DEADLOCK FALSE
