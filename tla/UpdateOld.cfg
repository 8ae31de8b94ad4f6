\* Two clicks whose updates follow each other in one process.
SPECIFICATION Spec
CONSTANTS
    Requests = {r1, r2}
    Nobody = Nobody
    MaxVersion = 3
    Defective = {}
    SnapshotKeep = 2
    MaxPath = 2
    Missing = Missing
    Damaged = Damaged
PROPERTIES
    OldBinaryKept
