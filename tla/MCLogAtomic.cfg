SPECIFICATION Spec
CONSTANTS
    o1 = o1
    o2 = o2
    o3 = o3
    b1 = b1
    b2 = b2
    b3 = b3
    NotCached = NotCached
    NoOp = NoOp
    Op <- TwoOps
    Block <- TwoBlocks
    Value = {0, 1}
    MAXOPBLOCKS = 2
    LOGSIZE = 4
    NLOG = 4
SYMMETRY OpSymmetry
INVARIANTS
    TypeOK
    NoPanic
    Reservation
    PinsMatchLog
PROPERTIES
    AtomicCommit
    CommitPoint
