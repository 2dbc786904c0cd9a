SPECIFICATION Spec
CONSTANTS
    RateMin = 1
    MaxRate = 4
    Target = 1
    TargetWindows = 3
    Chunk = 1
    Faults = {}
    MaxTime = 4
    MaxEvents = 4
    MaxWindows = 4
INVARIANT
    PayloadReplayable
CHECK_DEADLOCK FALSE
