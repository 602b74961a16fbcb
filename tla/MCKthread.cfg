SPECIFICATION FairSpec
CONSTANTS
    NTHREAD = 3
    MaxTid = 3
    JoinOnce = FALSE
    MayExit = TRUE
    None = None
INVARIANTS
    TypeOK
    JoinersMissNoExit
    OnlyLastSlotFreedEarly
    LocksHeldInside
PROPERTIES
    JoinReturns
CHECK_DEADLOCK FALSE
