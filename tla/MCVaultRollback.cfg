CONSTANTS
    N = 2
    Process = {p1}
    MaxInstalls = 1
    MaxAdds = 0
    MaxEdits = 0
    MaxKills = 2
    MaxFaults = 0
SPECIFICATION Spec
INVARIANT
    RollbackCanFinish
