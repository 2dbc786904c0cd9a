SPECIFICATION Spec
CONSTANTS
    Timespan = 3
    Keep = 2
    Interval = 2
    Origins <- SmallOrigins
    MaxTime = 9
    MaxEvents = 4
INVARIANTS
    TypeOK
    ReplayWindowFaithful
    KeepFractionHonoured
    RawWindowsContiguous
PROPERTIES
    SplitsStream
