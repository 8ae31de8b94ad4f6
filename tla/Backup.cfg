\* Two page loads or downloads at once, two seconds, one file kept.
SPECIFICATION Spec
CONSTANTS
    MaxRowid = 3
    Requests = {r1, r2}
    Nobody = Nobody
    Threshold = 2
    Keep = 1
    MaxTime = 2
INVARIANTS
    TypeOK
    EveryFileWhole
    BackupStillDue
    NoFalseAlarm
PROPERTIES
    OnlySurplusPruned
    EveryRequestAnswered
