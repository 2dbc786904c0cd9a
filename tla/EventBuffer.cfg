SPECIFICATION Spec
CONSTANTS
    RateMin = 2
    MaxRate = 4
    Target = 1
    TargetWindows = 3
    Chunk = 1
    Faults = {"skip", "stop", "resize", "create"}
    MaxTime = 4
    MaxEvents = 4
    MaxWindows = 4
INVARIANTS
    BufferTypeOK
    PayloadReplayableUnlessAdjusted
    SampledOnGrid
    HistoryOfLastWindows
PROPERTIES
    AdjustMeetsTarget
CHECK_DEADLOCK FALSE
