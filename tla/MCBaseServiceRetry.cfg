SPECIFICATION FairSpec
CONSTANTS
    Reqs = {r1}
    None = None
    Key <- OwnKey
    EventCap = 1
    Unasked = {"event"}
    CloseRaces = TRUE
    MaxConnects = 2
    MaxEvents = 1
CHECK_DEADLOCK FALSE
INVARIANTS GarbledNeedsZombie
PROPERTIES RequestReturns
