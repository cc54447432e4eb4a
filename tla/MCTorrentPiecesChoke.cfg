SPECIFICATION Spec
CONSTANTS
    p1 = p1
    p2 = p2
    Pieces <- MCPieces
    Holdings <- MCHoldings
    PEER_ACTIVE_MAX = 2
    PIECE_WORK_MAX = 2
    IN_FLIGHT_MAX = 2
    SECOND_ASK_MAX = 1
    MISSES_BEFORE_TRUSTING = 1
    TRACKER_ROUNDS_MAX = 1
    BlockCount <- MCBlockCount
    Faults <- Choke
    FaultsMax = 1
INVARIANT AskedAgainAfterAChoke
