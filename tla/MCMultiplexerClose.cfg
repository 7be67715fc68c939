SPECIFICATION FairSpec
CONSTANTS
    Tasks = {t1, t2, t3}
    None = None
    MaxID = 1
    Cap = 1
    MaxObjs = 1
    MaxIn = 2
    MaxOut = 2
CHECK_DEADLOCK FALSE
PROPERTIES CloseCompletes
