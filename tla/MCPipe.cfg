SPECIFICATION FairSpec
CONSTANTS
    w1 = w1
    r1 = r1
    r2 = r2
    A = A
    B = B
    Writer <- OneWriter
    Reader <- TwoReaders
    Proc = {A, B}
    ProcOf <- TwoProcs
    Byte = {0, 1}
    Junk = 0
    PIPESIZE = 2
    UintMod = 4
    Count <- Counts
    None = None
INVARIANTS
    TypeOK
    SleepersJustified
    
PROPERTIES
    Fifo
    
    KilledLeaves
    ReadUnblocksWriter
CHECK_DEADLOCK FALSE
