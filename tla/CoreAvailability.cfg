CONSTANTS
    Cores = {c1, c2, c3}
    NumCores = 3
    Branches = {s1, s2}
    MaxTime = 3
    MaxInitial = 1
    Times <- MCTimes
    Costs <- MCCosts
    Platforms <- MCPlatforms
SPECIFICATION Spec
INVARIANTS
    TypeOK
    CertainlyAvailable
    PossiblyAvailable
SYMMETRY TrackerSymmetry
CHECK_DEADLOCK FALSE
