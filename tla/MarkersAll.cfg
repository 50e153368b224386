SPECIFICATION FairSpec
CONSTANTS
    NumPhases = 16
    MarkerCap = 16
    TeeCap = 8
    Tee = TRUE
    LastAnchor = 5
    LoadMayDie = TRUE
    LongLines = TRUE
INVARIANT StarvedMeansUnannounced
INVARIANT ScannerFree
PROPERTY MarkersArrive
