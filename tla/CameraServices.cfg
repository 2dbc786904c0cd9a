SPECIFICATION Spec
CONSTANTS
    TrailRequests <- SmallTrailRequests
    ErcRequests <- SmallErcRequests
    BiasRequests <- SmallBiasRequests
    RecordPaths = {"a", "b"}
    AvailableTypes = {"STC_CUT_TRAIL", "TRAIL"}
    ThresholdMin = 1
    ThresholdMax = 3
    ThresholdDefault = 2
    BiasMin <- MinBias
    BiasMax = 2
    EventRateMax = 3
    PerMev = 10
    PerMs = 10
    Word = 64
INVARIANTS
    SettingsTypeOK
    AcceptedInForce
    ReportCanBeSentBack
    RecordingIsNamed
CHECK_DEADLOCK FALSE
