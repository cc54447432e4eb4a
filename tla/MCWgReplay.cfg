SPECIFICATION Spec
CONSTANTS
    Counter <- MCCounter
    WINDOW = 3
INVARIANTS
    TypeOK
    MaskIsExact
PROPERTIES
    NeverAcceptedTwice
    KeepsPromise
