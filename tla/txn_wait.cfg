CONSTANTS
    a = a
    b = b
    s1 = s1
    s2 = s2
    Inst <- MCInst
    Home = a
    Slot = {k1}
    Session = {s1, s2}
    Place <- MCPlace
    Item = {m1, m2}
    None = None
    MaxTxns = 1
    MaxWaits = 2
    MaxFaults = 1
SPECIFICATION
    FairSpec
CHECK_DEADLOCK
    FALSE
INVARIANTS
    WaitTypeOK
    EndedWhenWaited
    ScnCaughtUp
    NoEntryLeft
PROPERTIES
    WaitsEnd
