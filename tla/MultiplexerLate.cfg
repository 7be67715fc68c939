SPECIFICATION Spec
CONSTANTS
    Tasks = {t1, t2}
    None = None
    MaxID = 1
    Cap = 1
    MaxObjs = 2
    MaxIn = 1
    MaxOut = 2
CHECK_DEADLOCK FALSE
INVARIANTS CloseClosesAll
