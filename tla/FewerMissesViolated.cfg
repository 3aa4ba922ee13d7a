CONSTANTS
    WindowSize = 2
    Jobs = {j1, j2, j3}
    Branches = {s1}
SPECIFICATION Spec
INVARIANT
    NeverFewerMisses
CHECK_DEADLOCK FALSE
