SPECIFICATION Spec
CONSTANTS
    c1 = c1
    c2 = c2
    None = None
    Cpu <- MCCpu
    Lock <- MCLock
INVARIANTS
    TypeOK
    MutualExclusion
    NoPanic
    InterruptsMatched
