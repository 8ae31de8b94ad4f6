------------------------------ MODULE Startup -------------------------------
(***************************************************************************)
(* How the processes that use the database begin: the service, which is    *)
(* started again whenever it ends, and commands that somebody types beside *)
(* it, "binbash" or "binbash -reset-password", as the service's user or    *)
(* with sudo.                                                              *)
(*                                                                         *)
(* Each checks first that nothing belongs to another user (ownership.go),  *)
(* then opens the database (db.Open): the directory, the connection, the   *)
(* migrations, the permissions; a server goes on to the backup directory,  *)
(* the account and the port.  What the processes share is the files: who   *)
(* owns them, whether others may read them, and the schema in them.        *)
(*                                                                         *)
(* The backup directory is configured and lies in the data directory.  The *)
(* sidecars -wal and -shm come and go together and are one file here.      *)
(* Root may use any file; everybody else uses their own.                   *)
(***************************************************************************)
EXTENDS Integers, FiniteSets

CONSTANTS
    Users, Root, Nobody,   \* the users, and the owner of a file that is not there
    ServiceUser,
    Service, Commands,     \* the processes
    Last,                  \* the migrations are 1..Last
    MaxRuns, MaxCrashes    \* bounds: commands typed; processes killed or stopped

ASSUME StartupAssumption ==
    /\ {Root, ServiceUser} \subseteq Users
    /\ Nobody \notin Users
    /\ Service \notin Commands
    /\ Last \in Nat /\ MaxRuns \in Nat /\ MaxCrashes \in Nat

Procs == {Service} \cup Commands

Files == {"dir", "db", "sidecars", "backups"}

Migrations == 1..Last

(* How far a process is.  From "migrating" on it has the database open.    *)
Closed == {"down", "checked", "dirMade"}
Steps  == Closed \cup {"migrating", "applying", "recording", "migrated",
                       "secured", "backupsMade", "noAccount", "ready", "serving"}

VARIABLES
    owner,      \* the owner of each file
    exposed,    \* the files that others may read
    schema,     \* the migrations whose statements have run
    recorded,   \* the migrations that schema_migrations lists
    account,    \* whether the database holds an account and its session key
    at,         \* how far each process is
    user,       \* who runs it
    kind,       \* "serve" or "reset"
    next,       \* the migration it looks at
    disturbed,  \* processes whose check is older than a change of owners
    runs, crashes

files == <<owner, exposed>>
data  == <<schema, recorded, account>>
procs == <<at, user, kind, next>>
vars  == <<files, data, procs, disturbed, runs, crashes>>

-----------------------------------------------------------------------------

(* The installs that a start finds: nothing; a data directory made by hand, *)
(* perhaps not handed over yet; or a database of any version, as private as *)
(* the version that made it left it.                                        *)
Nothing == [owner |-> [f \in Files |-> Nobody], exposed |-> {}, version |-> 0]

MadeByHand(u) ==
    [owner |-> [f \in Files |-> IF f = "dir" THEN u ELSE Nobody],
     exposed |-> {"dir"}, version |-> 0]

InUse(some, v) ==
    [owner |-> [f \in Files |-> IF f = "sidecars" THEN Nobody ELSE ServiceUser],
     exposed |-> some, version |-> v]

Installs ==
    {Nothing}
    \cup {MadeByHand(u) : u \in {Root, ServiceUser}}
    \cup {InUse(some, v) : some \in {{}, {"dir", "db", "backups"}}, v \in Migrations}

Init ==
    /\ \E install \in Installs :
        /\ owner = install.owner
        /\ exposed = install.exposed
        /\ schema = 1..install.version
        /\ recorded = 1..install.version
        /\ account = (install.version = Last)
    /\ at = [p \in Procs |-> "down"]
    /\ user = [p \in Procs |-> ServiceUser]
    /\ kind = [p \in Procs |-> "serve"]
    /\ next = [p \in Procs |-> 1]
    /\ disturbed = {}
    /\ runs = 0
    /\ crashes = 0

Exists(f) == owner[f] # Nobody

Present == {f \in Files : Exists(f)}

Usable(u, f) == u = Root \/ owner[f] = u

HasOpen(p) == at[p] \notin Closed

Go(p, step) == at' = [at EXCEPT ![p] = step] /\ UNCHANGED <<user, kind, next>>

(* A file made by p is news to the checks of processes of other users.     *)
Disturb(p) == disturbed' = disturbed \cup {q \in Procs : user[q] # user[p]}

-----------------------------------------------------------------------------
(* The check *)

(* Files in a directory that u may not enter cannot be seen. *)
Visible(u, f) ==
    Exists(f) /\ (f = "dir" \/ "dir" \in exposed \/ Usable(u, "dir"))

(* Mutant: the sidecars are not looked at. *)
CheckedDatabaseOnly(k) ==
    {"dir", "db"} \cup IF k = "serve" THEN {"backups"} ELSE {}

(* A password reset has no use for the backup directory. *)
Checked(k) ==
    {"dir", "db", "sidecars"} \cup IF k = "serve" THEN {"backups"} ELSE {}

ForeignOwner(u, k) == \E f \in Checked(k) : Visible(u, f) /\ owner[f] # u

(* A start that the check refuses says whose file it is and ends. *)
Start(p, u, k) ==
    /\ at[p] = "down"
    /\ ~ForeignOwner(u, k)
    /\ at' = [at EXCEPT ![p] = "checked"]
    /\ user' = [user EXCEPT ![p] = u]
    /\ kind' = [kind EXCEPT ![p] = k]
    /\ next' = [next EXCEPT ![p] = 1]
    /\ disturbed' = disturbed \ {p}
    /\ UNCHANGED <<files, data, crashes>>

StartService ==
    /\ Start(Service, ServiceUser, "serve")
    /\ UNCHANGED runs

TypeCommand(p) ==
    /\ runs < MaxRuns
    /\ runs' = runs + 1
    /\ \E u \in Users, k \in {"serve", "reset"} : Start(p, u, k)

-----------------------------------------------------------------------------
(* db.Open *)

Made(f, u, open) ==
    /\ owner' = [owner EXCEPT ![f] = u]
    /\ exposed' = IF open THEN exposed \cup {f} ELSE exposed \ {f}

(* MkdirAll, which leaves a directory that is there as it is, and           *)
(* RestrictPermissions, for which only a mode that is not private matters.  *)
MayMakeDir(p, f) == f \in exposed => Usable(user[p], f)

MakeDir(p, f) ==
    IF Exists(f) THEN /\ exposed' = exposed \ {f}
                      /\ UNCHANGED <<owner, disturbed>>
    ELSE Made(f, user[p], FALSE) /\ Disturb(p)

MakeDataDir(p) ==
    /\ at[p] = "checked"
    /\ MayMakeDir(p, "dir")
    /\ MakeDir(p, "dir")
    /\ Go(p, "dirMade")
    /\ UNCHANGED <<data, runs, crashes>>

MayConnect(p) ==
    \A f \in {"dir", "db", "sidecars"} : Exists(f) => Usable(user[p], f)

(* SQLite makes what is missing: a database with the default mode, sidecars *)
(* with the database's.  What root makes beside another user's database     *)
(* belongs to root or, where SQLite can change it, to that user.            *)
Connect(p) ==
    /\ at[p] = "dirMade"
    /\ MayConnect(p)
    /\ LET dbOwner   == IF Exists("db") THEN owner["db"] ELSE user[p]
           dbExposed == ~Exists("db") \/ "db" \in exposed
       IN  \E u \in (IF user[p] = Root THEN {Root, dbOwner} ELSE {user[p]}) :
           /\ owner' = [owner EXCEPT !["db"] = dbOwner,
                                     !["sidecars"] = IF Exists("sidecars") THEN @ ELSE u]
           /\ exposed' = exposed \cup (IF dbExposed THEN {"db"} ELSE {})
                                 \cup (IF dbExposed /\ ~Exists("sidecars")
                                       THEN {"sidecars"} ELSE {})
    /\ IF Exists("sidecars") THEN UNCHANGED disturbed ELSE Disturb(p)
    /\ Go(p, "migrating")
    /\ UNCHANGED <<data, runs, crashes>>

(* Mutant: the loop goes one migration too far. *)
LookPastTheLast(p) ==
    /\ at[p] = "migrating"
    /\ IF next[p] > Last + 1
       THEN Go(p, "migrated")
       ELSE IF next[p] \in recorded
       THEN /\ next' = [next EXCEPT ![p] = @ + 1]
            /\ UNCHANGED <<at, user, kind>>
       ELSE Go(p, "applying")
    /\ UNCHANGED <<files, data, disturbed, runs, crashes>>

(* migrate asks for each migration whether it is recorded. *)
LookAt(p) ==
    /\ at[p] = "migrating"
    /\ IF next[p] > Last
       THEN Go(p, "migrated")
       ELSE IF next[p] \in recorded
       THEN /\ next' = [next EXCEPT ![p] = @ + 1]
            /\ UNCHANGED <<at, user, kind>>
       ELSE Go(p, "applying")
    /\ UNCHANGED <<files, data, disturbed, runs, crashes>>

(* Mutant: the statements of a migration commit one by one. *)
ApplyUnprotected(p) ==
    /\ at[p] = "applying"
    /\ next[p] \notin schema
    /\ Go(p, "recording")
    /\ schema' = schema \cup {next[p]}
    /\ UNCHANGED <<files, recorded, account, disturbed, runs, crashes>>

(* The transaction begins: its statements take SQLite's write lock and fail *)
(* if another process has run them in the meantime.  They take effect when  *)
(* the transaction commits.                                                 *)
Apply(p) ==
    /\ at[p] = "applying"
    /\ \A q \in Procs : at[q] # "recording"
    /\ next[p] \notin schema
    /\ Go(p, "recording")
    /\ UNCHANGED <<files, data, disturbed, runs, crashes>>

Record(p) ==
    /\ at[p] = "recording"
    /\ schema' = schema \cup {next[p]}
    /\ recorded' = recorded \cup {next[p]}
    /\ at' = [at EXCEPT ![p] = "migrating"]
    /\ next' = [next EXCEPT ![p] = @ + 1]
    /\ UNCHANGED <<files, account, user, kind, disturbed, runs, crashes>>

(* Mutant: only the database file itself is restricted. *)
RestrictDatabaseOnly(p) ==
    /\ at[p] = "migrated"
    /\ Usable(user[p], "db")
    /\ exposed' = exposed \ {"db"}
    /\ Go(p, "secured")
    /\ UNCHANGED <<owner, data, disturbed, runs, crashes>>

MayRestrict(p) == \A f \in {"db", "sidecars"} \cap exposed : Usable(user[p], f)

Restrict(p) ==
    /\ at[p] = "migrated"
    /\ MayRestrict(p)
    /\ exposed' = exposed \ {"db", "sidecars"}
    /\ Go(p, "secured")
    /\ UNCHANGED <<owner, data, disturbed, runs, crashes>>

-----------------------------------------------------------------------------
(* The rest of the way *)

(* The last process to close the database removes the sidecars. *)
Close(p) ==
    IF \E q \in Procs \ {p} : HasOpen(q) THEN UNCHANGED files
    ELSE Made("sidecars", Nobody, FALSE)

ResetPassword(p) ==
    /\ at[p] = "secured" /\ kind[p] = "reset"
    /\ account' = TRUE
    /\ Close(p)
    /\ Go(p, "down")
    /\ UNCHANGED <<schema, recorded, disturbed, runs, crashes>>

MayMakeBackups(p) ==
    /\ MayMakeDir(p, "backups")
    /\ Exists("backups") \/ Usable(user[p], "dir")

MakeBackups(p) ==
    /\ at[p] = "secured" /\ kind[p] = "serve"
    /\ MayMakeBackups(p)
    /\ MakeDir(p, "backups")
    /\ Go(p, "backupsMade")
    /\ UNCHANGED <<data, runs, crashes>>

(* auth.New *)
LoadAccount(p) ==
    /\ at[p] = "backupsMade"
    /\ Go(p, IF account THEN "ready" ELSE "noAccount")
    /\ UNCHANGED <<files, data, disturbed, runs, crashes>>

CreateAccount(p) ==
    /\ at[p] = "noAccount"
    /\ ~account
    /\ account' = TRUE
    /\ Go(p, "ready")
    /\ UNCHANGED <<files, schema, recorded, disturbed, runs, crashes>>

Listen(p) ==
    /\ at[p] = "ready"
    /\ \A q \in Procs : at[q] # "serving"
    /\ Go(p, "serving")
    /\ UNCHANGED <<files, data, disturbed, runs, crashes>>

(* Ctrl-C, or the service manager's stop. *)
Stop(p) ==
    /\ at[p] = "serving"
    /\ Close(p)
    /\ Go(p, "down")
    /\ UNCHANGED <<data, disturbed, runs>>

StopCommand(p) == p \in Commands /\ Stop(p) /\ UNCHANGED crashes

StopService ==
    /\ crashes < MaxCrashes
    /\ crashes' = crashes + 1
    /\ Stop(Service)

-----------------------------------------------------------------------------
(* Ways to end early: the connection is dropped and the sidecars stay *)

(* The next thing p does to a file is refused by the system, with an error  *)
(* that does not say whose file it is.                                      *)
Blocked(p) ==
    \/ at[p] = "checked" /\ ~MayMakeDir(p, "dir")
    \/ at[p] = "dirMade" /\ ~MayConnect(p)
    \/ at[p] = "migrated" /\ ~MayRestrict(p)
    \/ at[p] = "secured" /\ kind[p] = "serve" /\ ~MayMakeBackups(p)
    \/ at[p] = "serving" /\ \E f \in Files : Exists(f) /\ ~Usable(user[p], f)

(* Another process was faster: the migration's tables are there, the        *)
(* account is, or the port is taken.                                        *)
Overtaken(p) ==
    \/ at[p] = "applying" /\ next[p] \in schema
    \/ at[p] = "noAccount" /\ account
    \/ at[p] = "ready" /\ \E q \in Procs : at[q] = "serving"

(* log.Fatal.  A server that runs answers errors and runs on. *)
Die(p) ==
    /\ (Blocked(p) /\ at[p] # "serving") \/ Overtaken(p)
    /\ Go(p, "down")
    /\ UNCHANGED <<files, data, disturbed, runs, crashes>>

Crash(p) ==
    /\ at[p] # "down"
    /\ crashes < MaxCrashes
    /\ crashes' = crashes + 1
    /\ Go(p, "down")
    /\ UNCHANGED <<files, data, disturbed, runs>>

(* sudo chown, of everything with -R as the error message says, or of less. *)
HandBack(some) ==
    /\ \E f \in some : owner[f] # ServiceUser
    /\ owner' = [f \in Files |-> IF f \in some THEN ServiceUser ELSE owner[f]]
    /\ disturbed' = disturbed \cup {q \in Procs : user[q] # ServiceUser}
    /\ UNCHANGED <<exposed, data, procs, runs, crashes>>

-----------------------------------------------------------------------------

Advance(p) ==
    \/ MakeDataDir(p) \/ Connect(p) \/ LookAt(p) \/ Apply(p) \/ Record(p)
    \/ Restrict(p) \/ ResetPassword(p) \/ MakeBackups(p)
    \/ LoadAccount(p) \/ CreateAccount(p) \/ Listen(p) \/ Die(p)

Next ==
    \/ StartService \/ StopService
    \/ \E p \in Commands : TypeCommand(p) \/ StopCommand(p)
    \/ \E p \in Procs : Advance(p) \/ Crash(p)
    \/ \E some \in SUBSET Present : HandBack(some)

(***************************************************************************)
(* Whatever ended the service, somebody starts it again: the service       *)
(* manager after a failure (binbash.service, Restart=on-failure), whoever   *)
(* stopped it or handed files back otherwise.  Processes that run get on,  *)
(* nobody leaves a server running in a terminal for ever, and an operator  *)
(* who is told to hand files back does so.                                 *)
(***************************************************************************)
Fairness ==
    /\ WF_vars(StartService)
    /\ \A p \in Procs : WF_vars(Advance(p))
    /\ \A p \in Commands : WF_vars(StopCommand(p))
    /\ WF_vars(HandBack(Present))

Spec == Init /\ [][Next]_vars /\ Fairness

-----------------------------------------------------------------------------
(* Properties *)

(* Type correctness; a file that is not there is readable by nobody. *)
TypeOK ==
    /\ owner \in [Files -> Users \cup {Nobody}]
    /\ exposed \subseteq Present
    /\ schema \subseteq Migrations
    /\ recorded \subseteq Migrations
    /\ account \in BOOLEAN
    /\ at \in [Procs -> Steps]
    /\ user \in [Procs -> Users]
    /\ kind \in [Procs -> {"serve", "reset"}]
    /\ next \in [Procs -> 1..(Last + 1)]
    /\ disturbed \subseteq Procs
    /\ runs \in 0..MaxRuns
    /\ crashes \in 0..MaxCrashes

(***************************************************************************)
(* From the moment db.Open has returned in some process, and so before the *)
(* session key is first written, nobody but the owner can read the         *)
(* database or its sidecars, whatever older install was found and whatever *)
(* other processes open or leave behind; a server's backups are private as *)
(* well.  (the comment of RestrictPermissions)                             *)
(***************************************************************************)
Secured(p) == HasOpen(p) /\ at[p] \notin {"migrating", "applying", "recording", "migrated"}

NothingExposed ==
    \A p \in Procs :
        /\ Secured(p) => exposed \cap {"dir", "db", "sidecars"} = {}
        /\ at[p] = "serving" => "backups" \notin exposed

(***************************************************************************)
(* No start fails, and no server runs, on files it cannot use, unless      *)
(* another user's process made a file, or files were handed over, after    *)
(* this one's check: the paths that the check looks at are enough.         *)
(* (ownership.go: "both entry points that touch the database check first") *)
(***************************************************************************)
CheckSuffices == \A p \in Procs : Blocked(p) => p \in disturbed

(***************************************************************************)
(* No migration is half applied or skipped, wherever processes are cut off *)
(* and however two of them race: what has run is what is recorded, and     *)
(* that is a prefix.  (README.md:253)                                      *)
(***************************************************************************)
SchemaMatchesRecord ==
    /\ schema = recorded
    /\ \A m \in recorded : 1..m \subseteq recorded

(***************************************************************************)
(* Once nobody kills processes or types commands any more the service      *)
(* comes up and stays up, without advice other than to hand files back.    *)
(***************************************************************************)
ServiceComesUp == <>[](at[Service] = "serving")
=============================================================================
