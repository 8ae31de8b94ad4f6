\* Two requests, every operation, crashes and failures anywhere.
SPECIFICATION Spec
CONSTANTS
    MaxRowid = 2
    MaxFieldLen = 4
    MaxQueries = 2
    Names <- MCNames
    TitleCase <- MCTitleCase
    Fold <- MCFold
    Infos <- MCInfos
    Texts <- MCTexts
    Uploads <- MCUploads
    Requests = {r1, r2}
    Free = Free
INVARIANTS
    TypeOK
    NoOrphans
    UniqueBinNames
    SearchInSync
    DeleteNeverBlocked
    BackupRestores
PROPERTIES
    WholeOperationsOnly
    EveryRequestAnswered
