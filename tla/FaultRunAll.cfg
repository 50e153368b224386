SPECIFICATION Spec
CONSTANTS
    f1 = f1
    f2 = f2
    Faults = {f1, f2}
    Kind <- NetKind
    Anchor <- FirstTimed
    NumPhases = 1
    HasInternal = TRUE
    Disruptions = {"preflight", "reset", "refused", "topology", "prepare", "start", "load", "apply", "stray", "undo", "evaluate", "panic", "signal"}
INVARIANT CompletedRunIsClean
INVARIANT CompletedRunFiredEverything
INVARIANT UndoAtMostOnce
INVARIANT LiveFaultIsOwned
INVARIANT AbortedAfterTeardown
INVARIANT DisabledContainerTornDown
INVARIANT IInv
PROPERTY ImplementsContract
