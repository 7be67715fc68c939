SPECIFICATION Spec
CONSTANTS
    None = None
    Asked <- AskAll
    Kinds = {"conda"}
CHECK_DEADLOCK FALSE
INVARIANTS CondaOutcomeCorrect
