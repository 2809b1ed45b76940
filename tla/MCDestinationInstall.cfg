SPECIFICATION Spec
CONSTANTS
    N = 2
    u1 = u1
    u2 = u2
    s1 = s1
    s2 = s2
    UserData <- MCUserData
    Shells <- MCShells
    Absent = Absent
    Torn = Torn
    New = New
    Bare = Bare
    NoOne = NoOne
    Receiver = Receiver
    Broken = Broken
    MaxFaults = 1
SYMMETRY MCSymmetry
INVARIANTS
    NoUserWorkLost
    TornOnlyUnderDurableRecord
    NoIdentityGap
    OneReplacer
PROPERTIES
    ClearedMeansSettled
    SuccessIsDurable
CHECK_DEADLOCK FALSE
