SPECIFICATION Spec
CONSTANTS
    N = 1
    Slots = 1
    MaxStops = 0
    MaxEdits = 0
    MaxFaults = 0
INVARIANTS
    SignedInStays
CHECK_DEADLOCK FALSE
