SPECIFICATION Spec
CONSTANTS
    f1 = f1
    f2 = f2
    Faults = {f1, f2}
    Kind <- NetKind
    Anchor <- FirstTimed
    NumPhases = 1
    HasInternal = FALSE
    Disruptions = {"signal"}
INVARIANT NoFaultOutlivesRun
