SPECIFICATION StorySpec
CONSTANTS
    Requests = {"inspect", "check_paths", "pause", "cancel", "stop_checks", "quit"}
    MaxInstalls = 2
    MaxCrashes = 1
    MaxLosses = 1
    MaxEdits = 1
    MaxFaults = 1
INVARIANTS
    StopPreventsInstall
    InstallationIsKnown
    OpenAttemptProtected
    AttemptNamesPending
PROPERTIES
    RestoredIsTrue
    InterruptedRecovers
VIEW View
CHECK_DEADLOCK FALSE
