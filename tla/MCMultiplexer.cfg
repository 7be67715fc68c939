SPECIFICATION Spec
CONSTANTS
    Tasks = {t1, t2}
    None = None
    MaxID = 1
    Cap = 1
    MaxObjs = 3
    MaxIn = 1
    MaxOut = 3
SYMMETRY TaskSymmetry
CHECK_DEADLOCK FALSE
INVARIANTS TypeOK FramesIntact ControlKept SilentAfterClose EveryStreamTold
