SPECIFICATION TriggerSpec
CONSTANTS
    Timespan = 3
    Keep = 3
    Interval = 3
    Origins <- ZeroOrigin
    MaxTime = 9
    MaxEvents = 3
    SliceEnds <- UnalignedEnds
    MaxTriggers = 2
INVARIANTS
    MemoryWindowsInOrder
