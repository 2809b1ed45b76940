SPECIFICATION FairSpec
CONSTANTS
    N = 2
    Slots = 4
    MaxStops = 1
    MaxEdits = 1
    MaxFaults = 1
INVARIANTS
    NothingDiscarded
    NeverWedged
    VerifiedIsTrue
PROPERTIES
    SavedForGood
    ClearedMeansRestored
    RestoreCompletes
CHECK_DEADLOCK FALSE
