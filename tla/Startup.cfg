\* The service beside a terminal with two commands typed and two accidents.
SPECIFICATION Spec
CONSTANTS
    Users = {root, binbash, alice}
    Root = root
    ServiceUser = binbash
    Nobody = Nobody
    Service = Service
    Commands = {command}
    Last = 2
    MaxRuns = 2
    MaxCrashes = 2
INVARIANTS
    TypeOK
    NothingExposed
    CheckSuffices
    SchemaMatchesRecord
PROPERTIES
    ServiceComesUp

\* A service that runs, with nothing left to type, has nothing more to do.
CHECK_DEADLOCK FALSE
