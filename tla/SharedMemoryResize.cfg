SPECIFICATION Spec
CONSTANTS
    Lifetime = 2
    Faults = {"resize"}
    MaxTime = 7
    MaxMessages = 5
    MaxRuns = 2
INVARIANTS
    PublishedFilesSurvive
CHECK_DEADLOCK FALSE
