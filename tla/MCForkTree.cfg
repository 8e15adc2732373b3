SPECIFICATION FairSpec
CONSTANTS
    Slots = {1, 2, 3}
    MaxChildren = 4
INVARIANTS
    HeldByYounger
    HangUpIsDeath
PROPERTIES
    OrphansEnd
CHECK_DEADLOCK FALSE
