CONSTANTS
    N = 2
    Process = {p1, p2}
    MaxInstalls = 2
    MaxAdds = 1
    MaxEdits = 1
    MaxKills = 1
    MaxFaults = 1
SPECIFICATION SmallSpec
SYMMETRY Symmetry
INVARIANT
    NothingLost
    UnjournalledIsWhole
PROPERTY
    AnswersAreTrue
