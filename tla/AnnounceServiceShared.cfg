CONSTANTS
    t1 = t1
    t2 = t2
    u1 = u1
    u2 = u2
    u3 = u3
    p1 = p1
    p2 = p2
    NoTorrent = NoTorrent
    Torrents <- TwoTorrents
    Urls <- OneUrl
    Peers <- TwoPeers
    TrackersOf <- Shared
    MaxCommands = 4
    MaxUseless = 1
    MaxInFlight = 2
SPECIFICATION Spec
INVARIANT AnswerMatches
CHECK_DEADLOCK FALSE
