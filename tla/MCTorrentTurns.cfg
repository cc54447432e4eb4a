CONSTANTS
    m1 = m1
    m2 = m2
    f1 = f1
    Torrents <- MCTorrents
    Magnets <- MCMagnets
    TooLarge <- MCTooLarge
    PEER_ACTIVE_MAX = 2
    TORRENT_SLOT_MAX = 2
    TRACKER_ROUNDS_MAX = 1
    TrackerCount = 1
    PieceCount = 2
    AsksMax = 4
SPECIFICATION Spec
INVARIANTS TypeOK OneAtATime PeersAreOfTheActive
PROPERTY EveryTorrentEnds
CHECK_DEADLOCK FALSE
