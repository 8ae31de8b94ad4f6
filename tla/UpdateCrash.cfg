\* One update that works, and a process that may end within it.
SPECIFICATION Spec
CONSTANTS
    Requests = {r1}
    Nobody = Nobody
    MaxVersion = 2
    Defective = {}
    SnapshotKeep = 2
    MaxPath = 2
    Missing = Missing
    Damaged = Damaged
INVARIANTS
    BinbashInPlace
