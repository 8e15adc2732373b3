SPECIFICATION RunFairSpec

CONSTANTS
    NumWorkers = 2
    MaxTasks = 3
    MaxAttempts = 1

CHECK_DEADLOCK FALSE

PROPERTIES
    RunEndsOrOversleeps

INVARIANTS
    RunTypeOK
    AtMostOneSwallowed
