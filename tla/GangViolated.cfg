CONSTANTS
    Infinity = 1000
    Problems <- GangOnBusyCores
SPECIFICATION Spec
INVARIANT
    InitialGangTimeIsCertain
