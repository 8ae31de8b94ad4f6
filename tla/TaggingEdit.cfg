\* An edit or a deletion while a run waits for the provider.
SPECIFICATION Spec
CONSTANTS
    MaxRowid = 2
    Requests = {r1}
    Nobody = Nobody
    BatchSize = 2
    FailureLimit = 2
    MaxKeywords = 1
    Words = {w1, w2}
    MaxHard = 0
PROPERTY ExistingKeywordsKept
