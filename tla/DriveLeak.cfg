SPECIFICATION DriveSpec
CONSTANTS
    Requested <- DBOnly
    Disruptions = {}
    NumPhases = 1
    MarkerCap = 16
    TeeCap = 8
    Tee = TRUE
    LastAnchor = 0
    LoadMayDie = FALSE
    LongLines = FALSE
INVARIANT NoToolOutlivesRun
