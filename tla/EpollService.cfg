CONSTANTS
    p1 = p1
    Peers <- OnePeer
    MaxConnects = 2
    MaxCalls = 1
    MaxQueue = 1
SPECIFICATION Spec
INVARIANTS NotificationsSuffice 
PROPERTY SilentPeerDropped
CHECK_DEADLOCK FALSE
