SPECIFICATION Spec
CONSTANTS
    MaxFaults = 2
INVARIANTS
    TypeOK
    EventsOfOneSession
    MemoryStaysReleased
    UsedUntilShutdown
PROPERTIES
    ModulesStableInCallback
    Terminates
    Reconnects
