SPECIFICATION Spec
CONSTANTS
    n1 = n1
    n2 = n2
    n3 = n3
    Inst = {n1, n2, n3}
    NoInst = NoInst
    Master = n1
    LockItems = 2
    MaxClock = 6
    MaxLsn = 1
    MaxTimeouts = 0
SYMMETRY Symm
INVARIANTS
    TypeOK
    SingleWriter
    Coherent
    HoldersKnown
    AckPanics
    UpgradeNotBlocked
PROPERTIES
    ImplementsPageLock
CHECK_DEADLOCK FALSE
