CONSTANTS
    a = a
    b = b
    c = c
    sa = sa
    sb1 = sb1
    sb2 = sb2
    sc = sc
    NoInst = NoInst
    NoSession = NoSession
    Inst <- MCInst
    Session <- MCSession
    Home <- MCHome
    Master = a
    Kinds = {"spin", "latch"}
    MaxOps = 4
    MaxTries = 1
    MaxRefusals = 1
    MaxRecycles = 1
    MaxLost = 0
SPECIFICATION
    Spec
SYMMETRY
    Symmetry
CHECK_DEADLOCK
    FALSE
INVARIANTS
    DlsTypeOK
    Exclusion
    OwnersKnown
    DlsPanics
    ReleasesPossible
