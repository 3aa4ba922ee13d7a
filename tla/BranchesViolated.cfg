CONSTANTS
    Infinity = 1000
    Problems <- MergedBranches
    Executable <- MergedBranches
SPECIFICATION SagSpec
INVARIANT
    SoundCompletion
