SPECIFICATION Spec
CONSTANTS
    Interval = 2
    Rate = 2
    MaxTime = 4
INVARIANTS
    TypeOK
    ModulesReady
    WholeFilePlayed
    NoUseAfterRelease
PROPERTIES
    Paced
    ShutdownEnds
CHECK_DEADLOCK FALSE
