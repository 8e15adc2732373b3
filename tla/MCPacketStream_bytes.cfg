SPECIFICATION FairSpec

CONSTANTS
    HeaderLen = 3
    Leading <- MCLeading
    MaxPayload = 2
    MaxPackets = 3
    MaxNoise = 1
    Capacity = 3

CHECK_DEADLOCK FALSE

INVARIANTS
    ReceivedInOrder

PROPERTIES
    ImplementsChannel
    ReceiveEnds
    SendEndsOrBlocked
