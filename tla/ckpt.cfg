SPECIFICATION CkptSpec
CONSTANTS
    n1 = n1
    n2 = n2
    Inst = {n1, n2}
    NoInst = NoInst
    Master = n1
    LockItems = 4
    MaxClock = 4
    MaxLsn = 2
    MaxTimeouts = 0
    MaxEvicts = 0
    MaxRecycles = 0
INVARIANTS
    CkptTypeOK
    RedoWritten
    CkptPanics
CHECK_DEADLOCK FALSE
