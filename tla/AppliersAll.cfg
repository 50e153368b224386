SPECIFICATION AllSpec
CONSTANTS
    f1 = f1
    f2 = f2
    f3 = f3
    Faults = {f1, f2, f3}
    Scenarios <- EveryScenario
    Limit <- AskedLimit
    Original = 500
    Disruptions = {"refused", "lost"}
    CycleLen = 6
    Num = 2
    Den = 5
    MockTroubles = {"create", "delete"}
    Loops = {f1, f2}
    MaxMessages = 2
INVARIANT CleanUndosRestore
INVARIANT LiveIsInForce
INVARIANT RateIsExact
INVARIANT MockRestored
INVARIANT AmplificationBounded
PROPERTY NoCopyAfterUndo
PROPERTY UndoEnds
