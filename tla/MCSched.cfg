SPECIFICATION Spec
CONSTANTS
    Cpu = {c1, c2}
    NPROC = 2
    NTHREAD = 2
    Live <- ThreeThreads
    None = None
INVARIANTS
    TypeOK
    OneHartPerThread
    SchedHoldsOnlyPLock
    NoLostWakeup
    SleeplockExclusive
    Preemptible
