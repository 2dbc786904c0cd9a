SPECIFICATION Spec
CONSTANTS
    MaxFaults = 2
INVARIANTS
    CameraReleased
