SPECIFICATION TriggerSpec
CONSTANTS
    Timespan = 3
    Keep = 3
    Interval = 3
    Origins <- ZeroOrigin
    MaxTime = 9
    MaxEvents = 3
    SliceEnds <- AlignedEnds
    MaxTriggers = 2
INVARIANTS
    TriggerTypeOK
    MemoryWindowsFaithful
    MemoryWindowsInOrder
    ImagesBetweenTriggers
    ImagesComplete
