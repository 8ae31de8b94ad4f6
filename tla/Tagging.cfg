\* Two clicks, fewer hard items than the failure limit.
SPECIFICATION Spec
CONSTANTS
    MaxRowid = 3
    Requests = {r1, r2}
    Nobody = Nobody
    BatchSize = 2
    FailureLimit = 2
    MaxKeywords = 1
    Words = {w1}
    MaxHard = 1
INVARIANTS
    TypeOK
    NothingPaidTwice
PROPERTIES
    LockReleased
    EveryItemTagged
