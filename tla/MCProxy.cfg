SPECIFICATION FairSpec
CONSTANTS
    Conns = {c1, c2}
    None = None
    Quiet = {c2}
CHECK_DEADLOCK FALSE
INVARIANTS TypeOK StreamsPaired OneLink
PROPERTIES CloseReleases LocalReleased
