SPECIFICATION Spec

CONSTANTS
    Tasks = {t1, t2}
    NoTask = NoTask
    HasDeadline = TRUE
    MaxSpawns = 2
    MaxStray = 1

INVARIANTS
    TypeOK
    OwnAnswerOnly
