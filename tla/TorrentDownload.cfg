CONSTANTS
    p1 = p1
    p2 = p2
    Peers <- TwoPeers
    Pieces <- TwoPieces
    NumBlocks <- Sizes
    PeerHas <- Holdings
    BadPeers <- OneBad
    Loyal <- Nobody
    MayStop = TRUE
    MaxFaults = 1
    MaxQueue = 2
SPECIFICATION Spec
INVARIANTS  WritesAreVerified StoredIsOnDisk  
CHECK_DEADLOCK FALSE
