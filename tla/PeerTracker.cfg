CONSTANTS
    p1 = p1
    p2 = p2
    t1 = t1
    t2 = t2
    NoTorrent = NoTorrent
    Peers <- TwoPeers
    Torrents <- TwoTorrents
    MaxConnectedPeers = 1
    MaxPeersPerTorrent = 1
    MaxAnnounces = 2
    MaxFaults = 1
SPECIFICATION Spec
INVARIANTS Limits Bookkeeping ConnectionsAreTracked
 
SYMMETRY Symmetry
CHECK_DEADLOCK FALSE
