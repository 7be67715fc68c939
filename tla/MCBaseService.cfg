SPECIFICATION Spec
CONSTANTS
    Reqs = {r1, r2}
    None = None
    Key <- OwnKey
    EventCap = 1
    Unasked = {"event", "unreadable"}
    CloseRaces = FALSE
    MaxConnects = 1
    MaxEvents = 1
CHECK_DEADLOCK FALSE
INVARIANTS TypeOK NothingLost AnswersDelivered
SYMMETRY ReqSymmetry
