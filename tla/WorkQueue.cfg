CONSTANTS
    S = 3
    Concurrent <- WithMutex
    MaxBacklog <- OverflowsAlone
    MaxEvents = 8
SPECIFICATION FairSpec
INVARIANTS InOrder RingInv
PROPERTIES  Delivered
CHECK_DEADLOCK FALSE
