SPECIFICATION Spec
CONSTANTS
    n1 = n1
    n2 = n2
    Inst = {n1, n2}
    NoInst = NoInst
    Master = n1
    LockItems = 1
    MaxClock = 6
    MaxLsn = 1
    MaxTimeouts = 2
INVARIANTS
    DirectoryOK
    HeldCovered
    RequestsCover
CHECK_DEADLOCK FALSE
