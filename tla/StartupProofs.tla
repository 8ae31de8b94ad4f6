--------------------------- MODULE StartupProofs ----------------------------
(***************************************************************************)
(* Proofs about Startup, for any users, commands and migrations.           *)
(***************************************************************************)
EXTENDS Startup, TLAPS

(* A migration that is under way is one of those that there are.           *)
UnderWay == \A p \in Procs : at[p] \in {"applying", "recording"} => next[p] <= Last

(* Files lie in the data directory, sidecars beside a database, and who    *)
(* has passed the directory or opened the database has it.                 *)
FilesStand ==
    /\ Exists("db") \/ Exists("backups") => Exists("dir")
    /\ Exists("sidecars") => Exists("db")
    /\ \A p \in Procs :
        /\ at[p] \notin {"down", "checked"} => Exists("dir") /\ "dir" \notin exposed
        /\ HasOpen(p) => Exists("db") /\ Exists("sidecars")

Late == {"backupsMade", "noAccount", "ready", "serving"}

(* What a process has restricted stays private, and only servers go on     *)
(* to the backup directory.                                                *)
StaysPrivate ==
    \A p \in Procs :
        /\ Secured(p) => exposed \cap {"db", "sidecars"} = {}
        /\ at[p] \in Late => "backups" \notin exposed /\ kind[p] = "serve"

(* What the check has found stays true until another user interferes.      *)
CheckStands ==
    \A p \in Procs :
        at[p] # "down" /\ p \notin disturbed =>
            \A f \in Checked(kind[p]) : Exists(f) => Usable(user[p], f)

(* A process has seen every earlier migration recorded.                    *)
SeenRecorded ==
    \A p \in Procs :
        at[p] # "down" => 1..(next[p] - 1) \subseteq recorded

StInv ==
    /\ TypeOK
    /\ UnderWay
    /\ FilesStand
    /\ StaysPrivate
    /\ CheckStands
    /\ SchemaMatchesRecord
    /\ SeenRecorded

-----------------------------------------------------------------------------

(* What is true of an install that is found is true of the first state.    *)
LEMMA InitStInv ==
  Init => StInv
  <1> SUFFICES ASSUME Init PROVE StInv
    OBVIOUS
  <1> USE StartupAssumption
  <1>1. PICK install \in Installs :
          /\ owner = install.owner
          /\ exposed = install.exposed
          /\ schema = 1..install.version
          /\ recorded = 1..install.version
          /\ account = (install.version = Last)
    BY DEF Init
  <1> DEFINE Sound == /\ owner \in [Files -> Users \cup {Nobody}]
                      /\ exposed \subseteq Present
                      /\ Exists("db") \/ Exists("backups") => Exists("dir")
                      /\ Exists("sidecars") => Exists("db")
                      /\ install.version \in 0..Last
  <1>2. Sound
    <2>1. CASE install = Nothing
      BY <1>1, <2>1 DEF Nothing, Files, Present, Exists
    <2>2. ASSUME NEW u \in {Root, ServiceUser}, install = MadeByHand(u)
          PROVE  Sound
      BY <1>1, <2>2 DEF MadeByHand, Files, Present, Exists
    <2>3. ASSUME NEW some \in {{}, {"dir", "db", "backups"}}, NEW v \in Migrations,
                 install = InUse(some, v)
          PROVE  Sound
      BY <1>1, <2>3 DEF InUse, Files, Present, Exists, Migrations
    <2>4. \/ install = Nothing
          \/ \E u \in {Root, ServiceUser} : install = MadeByHand(u)
          \/ \E some \in {{}, {"dir", "db", "backups"}}, v \in Migrations :
               install = InUse(some, v)
      BY DEF Installs
    <2> HIDE DEF Sound
    <2> QED BY <2>1, <2>2, <2>3, <2>4
  <1>3. TypeOK
    <2>1. account \in BOOLEAN
      BY ONLY <1>1, Zenon
    <2>2. schema \subseteq Migrations /\ recorded \subseteq Migrations
      BY <1>1, <1>2 DEF Migrations
    <2>3. /\ at \in [Procs -> Steps] /\ user \in [Procs -> Users]
          /\ kind \in [Procs -> {"serve", "reset"}] /\ next \in [Procs -> 1..(Last + 1)]
      BY DEF Init, Steps, Closed
    <2> QED BY <1>2, <2>1, <2>2, <2>3 DEF Init, TypeOK
  <1>4. SchemaMatchesRecord
    BY <1>1, <1>2 DEF SchemaMatchesRecord
  <1>5. UnderWay /\ FilesStand /\ StaysPrivate /\ CheckStands /\ SeenRecorded
    BY <1>2 DEF Init, UnderWay, FilesStand, StaysPrivate, Secured, HasOpen, Closed,
                Late, CheckStands, SeenRecorded
  <1> QED BY <1>3, <1>4, <1>5 DEF StInv

-----------------------------------------------------------------------------

(* A step that changes neither files nor the schema: a look at the record, *)
(* the account, the port, or an early end.                                 *)
LEMMA QuietStep ==
  ASSUME StInv, NEW p \in Procs,
         \/ LookAt(p) \/ Apply(p) \/ LoadAccount(p) \/ CreateAccount(p)
         \/ Listen(p) \/ Die(p) \/ Crash(p)
  PROVE  StInv'
  <1> USE StartupAssumption
          DEF StInv, TypeOK, UnderWay, FilesStand, StaysPrivate, CheckStands,
              SchemaMatchesRecord, SeenRecorded, Exists, HasOpen, Secured, Usable,
              Present, Steps, Closed, Late, Go, files, data
  <1>1. CASE LookAt(p)
    BY <1>1 DEF LookAt
  <1>2. CASE Apply(p)
    BY <1>2 DEF Apply
  <1>3. CASE LoadAccount(p)
    BY <1>3 DEF LoadAccount
  <1>4. CASE CreateAccount(p)
    BY <1>4 DEF CreateAccount
  <1>5. CASE Listen(p)
    BY <1>5 DEF Listen
  <1>6. CASE Die(p)
    BY <1>6 DEF Die
  <1>7. CASE Crash(p)
    BY <1>7 DEF Crash
  <1> QED BY <1>1, <1>2, <1>3, <1>4, <1>5, <1>6, <1>7

(* Making the data directory, or finding it and making it private.         *)
LEMMA DirStep ==
  ASSUME StInv, NEW p \in Procs, MakeDataDir(p)
  PROVE  StInv'
  <1> USE StartupAssumption
          DEF StInv, MakeDataDir, MayMakeDir, MakeDir, Made, Disturb, Go, data
  <1>1. TypeOK'
    BY DEF TypeOK, UnderWay, Steps, Closed, Migrations, Present, Exists, Files
  <1>2. UnderWay'
    BY DEF TypeOK, UnderWay, Steps, Closed
  <1>3. FilesStand'
    BY DEF TypeOK, FilesStand, Exists, HasOpen, Closed, Steps, Files, Present
  <1>4. StaysPrivate'
    BY DEF TypeOK, FilesStand, StaysPrivate, Secured, HasOpen, Closed,
           Late, Exists, Files, Present
  <1>5. CheckStands'
    BY DEF TypeOK, FilesStand, CheckStands, Exists, HasOpen, Closed,
           Checked, Usable, Files, Present
  <1>6. SchemaMatchesRecord'
    BY DEF TypeOK, UnderWay, SeenRecorded, SchemaMatchesRecord, Migrations
  <1>7. SeenRecorded'
    BY DEF TypeOK, UnderWay, SeenRecorded, SchemaMatchesRecord, Migrations
  <1> QED BY <1>1, <1>2, <1>3, <1>4, <1>5, <1>6, <1>7

(* SQLite makes the database and its sidecars where they are missing.      *)
LEMMA ConnectStep ==
  ASSUME StInv, NEW p \in Procs, Connect(p)
  PROVE  StInv'
  <1> USE StartupAssumption DEF StInv, Connect, MayConnect, Disturb, Go, data
  <1>1. TypeOK'
    BY DEF TypeOK, UnderWay, Steps, Closed, Migrations, Present, Exists, Files
  <1>2. UnderWay'
    BY DEF TypeOK, UnderWay, Steps, Closed
  <1>3. FilesStand'
    BY DEF TypeOK, FilesStand, Exists, HasOpen, Closed, Steps, Files, Present
  <1>4. StaysPrivate'
    BY DEF TypeOK, FilesStand, StaysPrivate, Secured, HasOpen, Closed,
           Late, Exists, Files, Present
  <1>5. CheckStands'
    BY DEF TypeOK, FilesStand, CheckStands, Exists, HasOpen, Closed,
           Checked, Usable, Files, Present
  <1>6. SchemaMatchesRecord'
    BY DEF TypeOK, UnderWay, SeenRecorded, SchemaMatchesRecord, Migrations
  <1>7. SeenRecorded'
    BY DEF TypeOK, UnderWay, SeenRecorded, SchemaMatchesRecord, Migrations
  <1> QED BY <1>1, <1>2, <1>3, <1>4, <1>5, <1>6, <1>7

(* A migration commits with its record.                                    *)
LEMMA RecordStep ==
  ASSUME StInv, NEW p \in Procs, Record(p)
  PROVE  StInv'
  <1> USE StartupAssumption DEF StInv, Record, files
  <1>1. TypeOK'
    <2>1. next[p] \in Migrations
      BY DEF TypeOK, UnderWay, Migrations
    <2>2. schema' \subseteq Migrations /\ recorded' \subseteq Migrations
      BY <2>1 DEF TypeOK
    <2>3. next[p] + 1 \in 1..(Last + 1)
      BY <2>1 DEF Migrations
    <2>4. next' \in [Procs -> 1..(Last + 1)]
      BY <2>3 DEF TypeOK
    <2>5. at' \in [Procs -> Steps]
      BY DEF TypeOK, Steps
    <2> QED BY <2>2, <2>4, <2>5 DEF TypeOK, Present, Exists
  <1>2. UnderWay'
    BY DEF TypeOK, UnderWay, Steps, Closed
  <1>3. FilesStand'
    BY DEF TypeOK, FilesStand, Exists, HasOpen, Closed, Steps, Files, Present
  <1>4. StaysPrivate'
    BY DEF TypeOK, FilesStand, StaysPrivate, Secured, HasOpen, Closed,
           Late, Exists, Files, Present
  <1>5. CheckStands'
    BY DEF TypeOK, FilesStand, CheckStands, Exists, HasOpen, Closed,
           Checked, Usable, Files, Present
  <1>6. SchemaMatchesRecord'
    BY DEF TypeOK, UnderWay, SeenRecorded, SchemaMatchesRecord, Migrations
  <1>7. SeenRecorded'
    BY DEF TypeOK, UnderWay, SeenRecorded, SchemaMatchesRecord, Migrations
  <1> QED BY <1>1, <1>2, <1>3, <1>4, <1>5, <1>6, <1>7

(* The database and its sidecars become private.                           *)
LEMMA RestrictStep ==
  ASSUME StInv, NEW p \in Procs, Restrict(p)
  PROVE  StInv'
  <1> USE StartupAssumption DEF StInv, Restrict, MayRestrict, Go, data
  <1>1. TypeOK'
    BY DEF TypeOK, UnderWay, Steps, Closed, Migrations, Present, Exists, Files
  <1>2. UnderWay'
    BY DEF TypeOK, UnderWay, Steps, Closed
  <1>3. FilesStand'
    BY DEF TypeOK, FilesStand, Exists, HasOpen, Closed, Steps, Files, Present
  <1>4. StaysPrivate'
    BY DEF TypeOK, FilesStand, StaysPrivate, Secured, HasOpen, Closed,
           Late, Exists, Files, Present
  <1>5. CheckStands'
    BY DEF TypeOK, FilesStand, CheckStands, Exists, HasOpen, Closed,
           Checked, Usable, Files, Present
  <1>6. SchemaMatchesRecord'
    BY DEF TypeOK, UnderWay, SeenRecorded, SchemaMatchesRecord, Migrations
  <1>7. SeenRecorded'
    BY DEF TypeOK, UnderWay, SeenRecorded, SchemaMatchesRecord, Migrations
  <1> QED BY <1>1, <1>2, <1>3, <1>4, <1>5, <1>6, <1>7

(* Making the backup directory, or finding it and making it private.       *)
LEMMA BackupsStep ==
  ASSUME StInv, NEW p \in Procs, MakeBackups(p)
  PROVE  StInv'
  <1> USE StartupAssumption
          DEF StInv, MakeBackups, MayMakeBackups, MayMakeDir, MakeDir, Made, Disturb, Go, data
  <1>1. TypeOK'
    <2>1. owner' \in [Files -> Users \cup {Nobody}] /\ exposed' \subseteq Present'
      BY DEF TypeOK, Present, Exists, Files
    <2>2. at' \in [Procs -> Steps]
      BY DEF TypeOK, Steps
    <2>3. disturbed' \subseteq Procs
      BY DEF TypeOK
    <2> QED BY <2>1, <2>2, <2>3 DEF TypeOK
  <1>2. UnderWay'
    BY DEF TypeOK, UnderWay, Steps, Closed
  <1>3. FilesStand'
    BY DEF TypeOK, FilesStand, Exists, HasOpen, Closed, Steps, Files, Present
  <1>4. StaysPrivate'
    BY DEF TypeOK, FilesStand, StaysPrivate, Secured, HasOpen, Closed,
           Late, Exists, Files, Present
  <1>5. CheckStands'
    BY DEF TypeOK, FilesStand, CheckStands, Exists, HasOpen, Closed,
           Checked, Usable, Files, Present
  <1>6. SchemaMatchesRecord'
    BY DEF TypeOK, UnderWay, SeenRecorded, SchemaMatchesRecord, Migrations
  <1>7. SeenRecorded'
    BY DEF TypeOK, UnderWay, SeenRecorded, SchemaMatchesRecord, Migrations
  <1> QED BY <1>1, <1>2, <1>3, <1>4, <1>5, <1>6, <1>7

(* An orderly end; the last process to close removes the sidecars.         *)
LEMMA CloseStep ==
  ASSUME StInv, NEW p \in Procs, ResetPassword(p) \/ Stop(p), crashes' \in 0..MaxCrashes
  PROVE  StInv'
  <1> USE StartupAssumption DEF StInv, ResetPassword, Stop, Close, Made, Go, files, data
  <1>1. TypeOK'
    <2>1. owner' \in [Files -> Users \cup {Nobody}] /\ exposed' \subseteq Present'
      <3>1. Close(p)
        OBVIOUS
      <3>2. CASE UNCHANGED <<owner, exposed>>
        BY <3>2 DEF TypeOK, Present, Exists
      <3>3. CASE Made("sidecars", Nobody, FALSE)
        <4>1. owner' = [owner EXCEPT !["sidecars"] = Nobody] /\ exposed' = exposed \ {"sidecars"}
          BY <3>3
        <4> QED BY ONLY <4>1, StInv DEF StInv, TypeOK, Present, Exists, Files
      <3> QED BY <3>1, <3>2, <3>3
    <2>2. at' \in [Procs -> Steps]
      BY DEF TypeOK, Steps, Closed
    <2>3. account' \in BOOLEAN /\ runs' \in 0..MaxRuns
      BY DEF TypeOK
    <2> QED BY <2>1, <2>2, <2>3 DEF TypeOK
  <1>2. UnderWay'
    BY DEF TypeOK, UnderWay, Steps, Closed
  <1>3. FilesStand'
    BY DEF TypeOK, FilesStand, Exists, HasOpen, Closed, Steps, Files, Present
  <1>4. StaysPrivate'
    BY DEF TypeOK, FilesStand, StaysPrivate, Secured, HasOpen, Closed,
           Late, Exists, Files, Present
  <1>5. CheckStands'
    BY DEF TypeOK, FilesStand, CheckStands, Exists, HasOpen, Closed,
           Checked, Usable, Files, Present
  <1>6. SchemaMatchesRecord'
    BY DEF TypeOK, UnderWay, SeenRecorded, SchemaMatchesRecord, Migrations
  <1>7. SeenRecorded'
    BY DEF TypeOK, UnderWay, SeenRecorded, SchemaMatchesRecord, Migrations
  <1> QED BY <1>1, <1>2, <1>3, <1>4, <1>5, <1>6, <1>7

(* A start that the check lets through.                                    *)
LEMMA StartStep ==
  ASSUME StInv, NEW p \in Procs, NEW u \in Users, NEW k \in {"serve", "reset"},
         Start(p, u, k), runs' \in 0..MaxRuns
  PROVE  StInv'
  <1> USE StartupAssumption DEF StInv, Start, ForeignOwner, Visible, files, data
  <1>1. TypeOK'
    BY DEF TypeOK, UnderWay, Steps, Closed, Migrations, Present, Exists, Files
  <1>2. UnderWay'
    BY DEF TypeOK, UnderWay, Steps, Closed
  <1>3. FilesStand'
    BY DEF TypeOK, FilesStand, Exists, HasOpen, Closed, Steps, Files, Present
  <1>4. StaysPrivate'
    BY DEF TypeOK, FilesStand, StaysPrivate, Secured, HasOpen, Closed,
           Late, Exists, Files, Present
  <1>5. CheckStands'
    BY DEF TypeOK, FilesStand, CheckStands, Exists, HasOpen, Closed,
           Checked, Usable, Files, Present
  <1>6. SchemaMatchesRecord'
    BY DEF TypeOK, UnderWay, SeenRecorded, SchemaMatchesRecord, Migrations
  <1>7. SeenRecorded'
    BY DEF TypeOK, UnderWay, SeenRecorded, SchemaMatchesRecord, Migrations
  <1> QED BY <1>1, <1>2, <1>3, <1>4, <1>5, <1>6, <1>7

(* Files are handed to the service's user.                                 *)
LEMMA HandBackStep ==
  ASSUME StInv, NEW some \in SUBSET Present, HandBack(some)
  PROVE  StInv'
  <1> USE StartupAssumption DEF StInv, HandBack, data, procs
  <1>1. TypeOK'
    BY DEF TypeOK, UnderWay, Steps, Closed, Migrations, Present, Exists, Files
  <1>2. UnderWay'
    BY DEF TypeOK, UnderWay, Steps, Closed
  <1>3. FilesStand'
    BY DEF TypeOK, FilesStand, Exists, HasOpen, Closed, Steps, Files, Present
  <1>4. StaysPrivate'
    BY DEF TypeOK, FilesStand, StaysPrivate, Secured, HasOpen, Closed,
           Late, Exists, Files, Present
  <1>5. CheckStands'
    BY DEF TypeOK, FilesStand, CheckStands, Exists, HasOpen, Closed,
           Checked, Usable, Files, Present
  <1>6. SchemaMatchesRecord'
    BY DEF TypeOK, UnderWay, SeenRecorded, SchemaMatchesRecord, Migrations
  <1>7. SeenRecorded'
    BY DEF TypeOK, UnderWay, SeenRecorded, SchemaMatchesRecord, Migrations
  <1> QED BY <1>1, <1>2, <1>3, <1>4, <1>5, <1>6, <1>7

(* The invariant is kept by every step.                                    *)
LEMMA StInvKept ==
  StInv /\ [Next]_vars => StInv'
  <1> SUFFICES ASSUME StInv, [Next]_vars PROVE StInv'
    OBVIOUS
  <1> USE StartupAssumption
  <1>1. CASE StartService
    BY <1>1, StartStep DEF StartService, Procs, StInv, TypeOK
  <1>2. CASE StopService
    BY <1>2, CloseStep DEF StopService, Procs, StInv, TypeOK
  <1>3. ASSUME NEW p \in Commands, TypeCommand(p)
        PROVE  StInv'
    <2>1. runs' \in 0..MaxRuns
      BY <1>3 DEF TypeCommand, StInv, TypeOK
    <2> QED BY <1>3, <2>1, StartStep DEF TypeCommand, Procs
  <1>4. ASSUME NEW p \in Commands, StopCommand(p)
        PROVE  StInv'
    BY <1>4, CloseStep DEF StopCommand, Procs, StInv, TypeOK
  <1>5. ASSUME NEW p \in Procs, Advance(p)
        PROVE  StInv'
    <2>1. CASE ResetPassword(p)
      BY <2>1, CloseStep DEF ResetPassword, StInv, TypeOK
    <2> QED BY <1>5, <2>1, DirStep, ConnectStep, QuietStep, RecordStep, RestrictStep,
               BackupsStep DEF Advance
  <1>6. ASSUME NEW p \in Procs, Crash(p)
        PROVE  StInv'
    BY <1>6, QuietStep
  <1>7. ASSUME NEW some \in SUBSET Present, HandBack(some)
        PROVE  StInv'
    BY <1>7, HandBackStep
  <1>8. CASE UNCHANGED vars
    BY <1>8 DEF vars, files, data, procs, StInv, TypeOK, UnderWay, FilesStand, StaysPrivate,
                CheckStands, SchemaMatchesRecord, SeenRecorded, Exists, HasOpen, Secured,
                Usable, Present
  <1> QED BY <1>1, <1>2, <1>3, <1>4, <1>5, <1>6, <1>7, <1>8 DEF Next

(* The invariant holds in every state that is reached. *)
LEMMA StInvAlways ==
  Spec => []StInv
  <1>1. Init => StInv
    BY InitStInv
  <1>2. StInv /\ [Next]_vars => StInv'
    BY StInvKept
  <1> QED BY <1>1, <1>2, PTL DEF Spec

-----------------------------------------------------------------------------

(* The state is well formed, whatever is typed, cut off or handed back.    *)
THEOREM WellFormedStart ==
  Spec => []TypeOK
  <1>1. StInv => TypeOK
    BY DEF StInv
  <1> QED BY <1>1, StInvAlways, PTL

(* Once db.Open has returned in some process nobody else can read the      *)
(* database, whichever processes open, leave or end beside it.             *)
THEOREM NothingLeaks ==
  Spec => []NothingExposed
  <1>1. StInv => NothingExposed
    BY DEF StInv, FilesStand, StaysPrivate, NothingExposed, Secured, HasOpen, Closed, Late
  <1> QED BY <1>1, StInvAlways, PTL

(* The ownership check looks at enough: a process that is refused a file   *)
(* had another user interfere after its check.                             *)
THEOREM CheckIsEnough ==
  Spec => []CheckSuffices
  <1>1. ASSUME StInv, NEW p \in Procs, Blocked(p)
        PROVE  p \in disturbed
    <2> SUFFICES ASSUME p \notin disturbed
                 PROVE  FALSE
      OBVIOUS
    <2>1. at[p] # "down"
      BY <1>1 DEF Blocked
    <2>2. \A f \in Checked(kind[p]) : Exists(f) => Usable(user[p], f)
      BY <1>1, <2>1 DEF StInv, CheckStands
    <2>3. exposed \subseteq Present
      BY <1>1 DEF StInv, TypeOK
    <2>4. at[p] \in Late => kind[p] = "serve"
      BY <1>1 DEF StInv, StaysPrivate
    <2>5. at[p] \notin {"down", "checked"} => Exists("dir")
      BY <1>1 DEF StInv, FilesStand
    <2> QED BY <1>1, <2>2, <2>3, <2>4, <2>5
            DEF Blocked, MayMakeDir, MayConnect, MayRestrict, MayMakeBackups, Checked,
                Present, Files, Late
  <1>2. StInv => CheckSuffices
    BY <1>1 DEF CheckSuffices
  <1> QED BY <1>2, StInvAlways, PTL

(* No crash and no race leaves a migration half applied or skipped.        *)
THEOREM MigrationsAreWhole ==
  Spec => []SchemaMatchesRecord
  <1>1. StInv => SchemaMatchesRecord
    BY DEF StInv
  <1> QED BY <1>1, StInvAlways, PTL

=============================================================================
