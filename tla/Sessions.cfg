\* Two devices, the account's key and three more.
SPECIFICATION Spec
CONSTANTS
    Devices = {d1, d2}
    Nobody = Nobody
    Passwords = {p1, p2}
    ConfigPassword = p1
    MaxKeys = 4
INVARIANTS
    TypeOK
    StoredMatchesCached
    KeysStayRetired
PROPERTIES
    StartKeepsSessions
    EveryRequestAnswered
