SPECIFICATION Spec
CONSTANTS
    NTHREAD = 2
    MaxTid = 2
    JoinOnce = TRUE
    MayExit = TRUE
    None = None
INVARIANTS
    SchedHoldsPLock
CHECK_DEADLOCK FALSE
