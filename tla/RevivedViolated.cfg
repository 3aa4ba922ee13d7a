CONSTANTS
    Infinity = 1000
    Problems <- RevivedByPredecessor
SPECIFICATION Spec
INVARIANT
    ReadyJobsAreIncomplete
