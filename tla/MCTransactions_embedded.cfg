CONSTANTS
    Thread = {t1, t2}
    Conn = {c1, c2}
    Trans = {x}
    None = None
    BlockRows = 2
    MaxDepth = 2
    MaxRuns = 2
SPECIFICATION FairSpec
CHECK_DEADLOCK FALSE
PROPERTY
    EveryRunReturns
