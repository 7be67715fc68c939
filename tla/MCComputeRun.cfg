SPECIFICATION Spec
CONSTANTS
    None = None
    Asked <- AskAll
    Kinds = {"raw", "conda", "value"}
CHECK_DEADLOCK FALSE
INVARIANTS TypeOK ResultIsReal StopsRuns LogWhole
PROPERTIES ImplementsRunLife
