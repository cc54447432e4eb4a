SPECIFICATION Spec
CONSTANTS
    RECEIVE_MAX = 8
    HOLE_MAX = 2
    ACKNOWLEDGE_EVERY = 2
    UNIT = 2
    FIELD_MAX = 6
    SEGMENT_MAX = 2
    SEQUENCES = 64
    FIRST = 60
    StreamLength = 9
    MaxFail = 1
INVARIANTS
    TypeOK
    NothingOverwritten
    RunsLieApart
    AcknowledgedOrOwed
    RoomIsToldTruly
PROPERTY
    DeliversTheStream
