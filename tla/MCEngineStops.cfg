SPECIFICATION Spec
CONSTANTS
    Requests = {"cancel"}
    MaxInstalls = 1
    MaxCrashes = 0
    MaxLosses = 0
    MaxEdits = 0
    MaxFaults = 0
INVARIANT StopEndsTheRun
CHECK_DEADLOCK FALSE
