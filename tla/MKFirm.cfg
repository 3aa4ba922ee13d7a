CONSTANTS
    WindowSize = 3
    Jobs = {j1, j2, j3, j4}
    Branches = {s1, s2}
SPECIFICATION Spec
INVARIANTS
    TypeOK
    CountersMatch
    NeverMoreMisses
    MinBelowMax
    NeverFewerUnlessUncertain
SYMMETRY WindowSymmetry
CHECK_DEADLOCK FALSE
