CONSTANTS
    a = a
    b = b
    c = c
    sa = sa
    sb1 = sb1
    sb2 = sb2
    sc = sc
    NoInst = NoInst
    NoSession = NoSession
    Inst <- MCPairInst
    Session <- MCPairSession
    Home <- MCPairHome
    Master = a
    Kinds = {"spin", "latch"}
    MaxOps = 3
    MaxTries = 1
    MaxRefusals = 1
    MaxRecycles = 1
    MaxLost = 0
SPECIFICATION
    FairSpec
CHECK_DEADLOCK
    FALSE
PROPERTIES
    CallsEnd
