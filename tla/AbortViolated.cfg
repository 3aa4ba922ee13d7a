CONSTANTS
    Infinity = 1000
    Problems <- TriggeredAtItsStart
    Executable <- TriggeredAtItsStart
SPECIFICATION SagSpec
INVARIANT
    SoundCompletion
