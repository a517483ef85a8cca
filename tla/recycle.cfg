SPECIFICATION RecycleSpec
CONSTANTS
    n1 = n1
    n2 = n2
    Inst = {n1, n2}
    NoInst = NoInst
    Master = n1
    LockItems = 4
    MaxClock = 5
    MaxLsn = 1
    MaxTimeouts = 0
    MaxEvicts = 2
    MaxRecycles = 1
INVARIANTS
    RecycleTypeOK
    SingleWriter
    LoadFresh
    PendingUndisturbed
CHECK_DEADLOCK FALSE
