CONSTANTS
    a = a
    b = b
    c = c
    p1 = p1
    p2 = p2
    p3 = p3
    p4 = p4
    Inst <- MCInst
    Id <- MCId
    Part = {p1, p2, p3, p4}
    Zero = a
    Reforms <- MCLost
    None = None
    MaxResends = 1
    MaxLsn = 2
SPECIFICATION
    Spec
CHECK_DEADLOCK
    FALSE
INVARIANTS
    Rebuilt
