SPECIFICATION FairSpec
CONSTANTS
    Cap = 2
    MaxFrame = 2
    MaxRead = 2
    MaxBytes = 4
    MaxMarkers = 2
CHECK_DEADLOCK FALSE
INVARIANTS TypeOK NoDoubleClose PanicNeedsRace
PROPERTIES CloseWakesReader ImplementsPipe
