CONSTANTS
    t1 = t1
    t2 = t2
    u1 = u1
    u2 = u2
    u3 = u3
    p1 = p1
    p2 = p2
    NoTorrent = NoTorrent
    Torrents <- TwoTorrents
    Urls <- ThreeUrls
    Peers <- TwoPeers
    TrackersOf <- Separate
    MaxCommands = 5
    MaxUseless = 4
    MaxInFlight = 2
SPECIFICATION FairSpec
INVARIANTS AnswerMatches SubscriberHasRequest 
PROPERTY SubscribersServed
CHECK_DEADLOCK FALSE
