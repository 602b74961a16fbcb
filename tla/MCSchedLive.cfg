SPECIFICATION FairSpec
CONSTANTS
    Cpu = {c1}
    NPROC = 2
    NTHREAD = 2
    Live <- ThreeThreads
    None = None
PROPERTIES
    EveryThreadRuns
