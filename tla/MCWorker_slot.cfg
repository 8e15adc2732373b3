SPECIFICATION FairSpec

CONSTANTS
    Tasks = {t1, t2}
    NoTask = NoTask
    HasDeadline = TRUE
    MaxSpawns = 2
    MaxStray = 0

INVARIANTS
    ProcessOwned
    AtMostOnce
    RefusedNeverRuns
    HonestOutcome
    IdleInSync

PROPERTIES
    EndSeenIsNoTimeout
    ImplementsContract
    InFlightEnds
    MethodsReturn
