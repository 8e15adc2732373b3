SPECIFICATION RunSendsEndSpec

CONSTANTS
    NumWorkers = 1
    MaxTasks = 1
    MaxAttempts = 1

CHECK_DEADLOCK FALSE

PROPERTIES
    RunEnds
