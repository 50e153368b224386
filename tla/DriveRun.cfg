SPECIFICATION DriveFairSpec
CONSTANTS
    Requested <- Both
    Disruptions = {"signal", "load", "start", "tool", "panic"}
    NumPhases = 2
    MarkerCap = 2
    TeeCap = 1
    Tee = TRUE
    LastAnchor = 1
    LoadMayDie = TRUE
    LongLines = TRUE
INVARIANT InTimeMeansComplete
PROPERTY RunReturns
