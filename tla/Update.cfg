\* Two clicks, a good release and then a defective one.
SPECIFICATION Spec
CONSTANTS
    Requests = {r1, r2}
    Nobody = Nobody
    MaxVersion = 3
    Defective = {3}
    SnapshotKeep = 2
    MaxPath = 2
    Missing = Missing
    Damaged = Damaged
INVARIANTS
    TypeOK
    BinaryKept
PROPERTIES
    SnapshotBeforeMigration
    NewVersionRuns
    BusyReleased
