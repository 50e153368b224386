SPECIFICATION AllSpec
CONSTANTS
    f1 = f1
    f2 = f2
    f3 = f3
    Faults = {f1, f2}
    Scenarios <- TwoLimits
    Limit <- AskedLimit
    Original = 500
    Disruptions = {}
    CycleLen = 6
    Num = 2
    Den = 5
    MockTroubles = {"create", "delete"}
    Loops = {f1, f2}
    MaxMessages = 2
INVARIANT TornDownIsRestored
