CONSTANTS
    Infinity = 1000
    Problems <- AllProblems
    Executable <- SoundnessProblems
SPECIFICATION SagFairSpec
INVARIANTS
    TypeOK
    RingHoldsOneDepth
    WindowCoversStates
    ReadyIsExact
    RecordedTimesSuffice
    AskedFinishTimesAreRecorded
    RunningJobsHoldCores
    CompletesAfterStart
    VerdictExplained
    AllJobsReported
    SoundCompletion
    SchedulableIsSafe
PROPERTIES
    ImplementsLayeredSearch
    Termination
