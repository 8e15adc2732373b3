SPECIFICATION Spec
CONSTANTS
    Samples <- MCSamples
    Types <- MCTypes
    AllocMax = 8
    MaxDepth = 3
INVARIANTS
    RoundTrip
    NothingIgnored
CHECK_DEADLOCK FALSE
