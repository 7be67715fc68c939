SPECIFICATION FairSpec
CONSTANTS
    None = None
    Asked <- AskAll
    Kinds = {"raw"}
CHECK_DEADLOCK FALSE
PROPERTIES HandleAlwaysCompletes
