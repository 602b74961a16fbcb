SPECIFICATION Spec
CONSTANTS
    o1 = o1
    o2 = o2
    o3 = o3
    b1 = b1
    b2 = b2
    b3 = b3
    NotCached = NotCached
    NoOp = NoOp
    Op <- ThreeOps
    Block <- ThreeBlocks
    Value = {0}
    MAXOPBLOCKS = 1
    LOGSIZE = 3
    NLOG = 3
INVARIANT AdmittedCallFits
