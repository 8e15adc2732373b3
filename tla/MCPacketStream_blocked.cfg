SPECIFICATION FairSpec

CONSTANTS
    HeaderLen = 3
    Leading <- MCLeading
    MaxPayload = 2
    MaxPackets = 1
    MaxNoise = 0
    Capacity = 4

CHECK_DEADLOCK FALSE

PROPERTIES
    SendEnds
