SPECIFICATION FairSpec
CONSTANTS
    NPROC = 3
    None = None
INVARIANTS
    TypeOK
    NoOrphans
    WaitersJustified
    FreeSlotsAreIdle
PROPERTIES
    InitReaps
