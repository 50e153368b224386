SPECIFICATION FairSpec
CONSTANTS
    NumPhases = 17
    MarkerCap = 16
    TeeCap = 8
    Tee = FALSE
    LastAnchor = 0
    LoadMayDie = FALSE
    LongLines = FALSE
PROPERTY LoadResolves
CHECK_DEADLOCK FALSE
