SPECIFICATION Spec
CONSTANTS
    REKEY_TIMEOUT = 1
    KEEPALIVE_TIMEOUT = 2
    PREVIOUS_SESSION = 2
    REKEY_GIVE_UP = 2
    REKEY_AFTER = 3
    REJECT_AFTER = 4
    CONFIGURED_KEEPALIVE = 9
    WINDOW = 2
    MaxTime = 6
    MaxHandshake = 3
    MaxSend = 1
    MaxServerData = 1
    MaxFail = 1
INVARIANTS
    TypeOK
    NonceNeverReused
    NeverDeliveredTwice
    SilenceBounded
    KeysAgeOut
    RekeyStartsInTime
    WaitsForAnAnswer
