SPECIFICATION CkptSpec
CONSTANTS
    n1 = n1
    n2 = n2
    Inst = {n1, n2}
    NoInst = NoInst
    Master = n1
    LockItems = 4
    MaxClock = 4
    MaxLsn = 1
    MaxTimeouts = 0
    MaxEvicts = 1
    MaxRecycles = 0
INVARIANTS
    LoadFresh
    Coherent
    LatestKept
CHECK_DEADLOCK FALSE
