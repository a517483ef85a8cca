SPECIFICATION FairSpec
CONSTANTS
    n1 = n1
    n2 = n2
    Inst = {n1, n2}
    NoInst = NoInst
    Master = n1
    LockItems = 4
    MaxClock = 5
    MaxLsn = 2
    MaxTimeouts = 0
PROPERTIES
    Served
CHECK_DEADLOCK FALSE
