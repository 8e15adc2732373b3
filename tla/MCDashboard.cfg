SPECIFICATION FairSpec
CONSTANTS
    Limit = 2
    MaxEvents = 3
    MaxTicks = 3
    Word = 16
INVARIANTS
    OneRenderer
    LastFrame
    PercentIsSound
PROPERTIES
    DestructorReturns
CHECK_DEADLOCK FALSE
