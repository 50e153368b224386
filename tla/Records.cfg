SPECIFICATION RecordsSpec
CONSTANTS
    Runs    <- MCRuns
    LibOf   <- MCLibOf
    Answers <- MCAnswers
    Target  <- MCTarget
    Writers = {w1, w2, w3}
    StoreTroubles = {"write", "kill"}
    Documents <- MCDocuments
    Filters <- MCFilters
    ReplayOptions <- MCReplayOptions
    MaxRecords = 4
    Requests = {r1, r2, r3}
    MaxClock = 6
    MaxLost = 1
    RecorderTroubles = {"upstream", "write", "timeout", "serve", "kill"}
INVARIANTS
    GreenIsEarned
    CauseHasEvidence
    ExitCodesSeparate
    ChainIsEvidence
    LossIsBounded
    SeriesIsTrue
    OverlapIsReal
    ReplayIsTheRecording
    ReportIsTrue
PROPERTY RecordedStays
PROPERTY AppendsEnd
