SPECIFICATION FairSpec
CONSTANTS
    o1 = o1
    o2 = o2
    Objects = {o1, o2}
    Setups <- MCSetups
    Items = 2
    MaxCalls = 4
    UseRecorder = TRUE
    MaxFaults = 1
    MaxRuns = 2
    MaxFailures = 2
INVARIANTS
    IndexedComplete
    ReturnMeansIndexed
    ReplayIsFailure
    GridIsProduct
    ZipInStep
PROPERTIES
    RunEnds
CHECK_DEADLOCK FALSE
