SPECIFICATION Spec
CONSTANTS
    m1 = m1
    m2 = m2
    f1 = f1
    q1 = q1
    q2 = q2
    Magnets <- MCMagnets
    Files <- MCFiles
    Queries <- MCQueries
    Found <- MCFound
    TORRENT_SLOT_MAX = 2
    ADD_QUEUE_MAX = 2
    EventsMax = 4
INVARIANT DescriptionStays
CHECK_DEADLOCK FALSE
