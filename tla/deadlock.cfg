CONSTANTS
    a = a
    b = b
    Inst <- MCInst
    Session <- MCShared
    NoSession = NoSession
    MaxWaits = 3
    MaxTxns = 1
    MaxFaults = 1
SPECIFICATION
    Spec
CHECK_DEADLOCK
    FALSE
INVARIANTS
    SmonTypeOK
PROPERTIES
    WaitsReal
