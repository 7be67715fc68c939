SPECIFICATION FairSpec
CONSTANTS
    d1 = d1
    d2 = d2
    c1 = c1
    Devs = {d1, d2}
    Callers = {c1}
    Cases <- AllCases
CHECK_DEADLOCK FALSE
INVARIANTS TypeOK
PROPERTIES ComesBack GhostsGo
