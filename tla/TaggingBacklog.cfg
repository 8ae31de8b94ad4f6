\* As many hard items as the failure limit.
SPECIFICATION Spec
CONSTANTS
    MaxRowid = 3
    Requests = {r1}
    Nobody = Nobody
    BatchSize = 3
    FailureLimit = 2
    MaxKeywords = 1
    Words = {w1}
    MaxHard = 2
PROPERTY EveryItemTagged
