SPECIFICATION FairSpec
CONSTANTS
    None = None
    Asked <- AskCancel
    Kinds = {"raw", "conda"}
CHECK_DEADLOCK FALSE
PROPERTIES HandleCompletes LogCloses
