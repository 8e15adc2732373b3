SPECIFICATION FairSpec

CONSTANTS
    NumWorkers = 2
    MaxTasks = 2
    MaxAttempts = 2

INVARIANTS
    Conservation
    NoRespawnAfterShutdown
    DrainedMeansReturned

PROPERTIES
    ImplementsLedger
    SlotsKeepContract
    ClientCallsReturn
