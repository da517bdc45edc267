CONSTANTS
    S = 3
    Concurrent <- Always
    MaxBacklog <- AtMostFull
    MaxEvents = 6
SPECIFICATION Spec
INVARIANT InOrder
CHECK_DEADLOCK FALSE
