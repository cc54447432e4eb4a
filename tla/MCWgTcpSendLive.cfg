SPECIFICATION Spec
CONSTANTS
    SEND_MAX = 2
    RESEND_LIMIT = 1
    HELLO_LIMIT = 1
    DUPLICATE_ACKS_LOST = 2
    SEGMENT_MAX = 1
    SEQUENCES = 16
    FIRST = 13
    PEER_UNIT = 1
    PEER_ROOM = 1
    StreamLength = 2
PROPERTIES
    WrittenGetsThrough
