SPECIFICATION FairSpec
CONSTANTS
    p1 = p1
    p2 = p2
    n1 = n1
    n2 = n2
    k1 = k1
    k2 = k2
    Ops = {p1, p2}
    Names = {n1, n2}
    Conns = {k1, k2}
    None = None
    Cases <- AllCases
CHECK_DEADLOCK FALSE
INVARIANTS TypeOK RestIsWhole GetReal
PROPERTIES TransfersEnd
