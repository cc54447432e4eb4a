SPECIFICATION Spec
CONSTANTS
    SEND_MAX = 4
    RESEND_LIMIT = 1
    HELLO_LIMIT = 1
    DUPLICATE_ACKS_LOST = 3
    SEGMENT_MAX = 2
    SEQUENCES = 20
    FIRST = 17
    PEER_UNIT = 2
    PEER_ROOM = 2
    StreamLength = 6
INVARIANTS
    TypeOK
    CursorsInOrder
    UnconfirmedIsKept
    ConfirmedIsHeld
    StaysInsideRoom
