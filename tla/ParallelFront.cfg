CONSTANTS
    Workers = {w1, w2}
    Fronts <- SmallFronts
SPECIFICATION Spec
INVARIANTS
    TypeOK
    BoundsCoverStates
    NothingLost
    ResultsComplete
    NoMissOverlooked
    MissIsReal
PROPERTY
    FrontEnds
CHECK_DEADLOCK FALSE
