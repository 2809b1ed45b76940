CONSTANTS
    N = 2
    Process = {p1}
    MaxInstalls = 1
    MaxAdds = 0
    MaxEdits = 0
    MaxKills = 0
    MaxFaults = 1
SPECIFICATION Spec
PROPERTY
    RestoredIsBack
