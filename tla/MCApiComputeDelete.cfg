SPECIFICATION Spec
CONSTANTS
    r1 = r1
    r2 = r2
    Reqs = {r1, r2}
    None = None
    Cases <- AllCases
CHECK_DEADLOCK FALSE
INVARIANTS DeleteHarmless
