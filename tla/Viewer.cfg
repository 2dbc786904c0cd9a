SPECIFICATION ViewerSpec
CONSTANTS
    Lifetime = 1
    Faults <- FaultKinds
    MaxTime = 2
    MaxMessages = 3
    MaxRuns = 2
INVARIANTS
    TypeOK
    LiveMessagesReadable
    NoFileOutlivesNextPublish
    NoOrphansAfterShutdown
    OwnFilesReleased
    ImageAsAnnounced
PROPERTIES
    TimelyMessagesFindTheirFile
CHECK_DEADLOCK FALSE
