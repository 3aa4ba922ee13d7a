CONSTANTS
    Infinity = 1000
    Problems <- ForgottenStart
SPECIFICATION Spec
INVARIANT
    StartTimesAreRecorded
