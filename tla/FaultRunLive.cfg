SPECIFICATION FairSpec
CONSTANTS
    f1 = f1
    f2 = f2
    Faults = {f1, f2}
    Kind <- ForKind
    Anchor <- FirstTimed
    NumPhases = 1
    HasInternal = FALSE
    Disruptions = {"load", "panic", "signal"}
PROPERTY RunReturns
PROPERTY ForFaultExpires
