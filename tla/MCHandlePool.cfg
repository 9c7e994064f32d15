CONSTANTS
    t1 = t1
    t2 = t2
    t3 = t3
    Thread <- MCThread
    MayCall <- MCMayCall
    HardwareConcurrency = 1
    MaxConcurrency = 1
    MaxHeld = 2
    MaxLost = 1
SPECIFICATION FairSpec
CHECK_DEADLOCK FALSE
INVARIANTS
    Coherent
    OnlyReentryBlocks
PROPERTIES
    ImplementsReadersWriters
    WriterGetsIn
