------------------------------- MODULE Update -------------------------------
(***************************************************************************)
(* The in-app update: POST /settings/update (ApplyUpdate), the files it    *)
(* leaves in the install directory, and the restart that follows.          *)
(*                                                                         *)
(* The installed binary is at path 0 (binbash), path 1 is binbash.old,     *)
(* path 2 binbash.old.old.  An update looks up its own executable's path   *)
(* when it begins, and on Linux that path follows the file through         *)
(* renames: after one update it is binbash.old, until the restart.         *)
(*                                                                         *)
(* Versions are ordered as semver orders their tags, and every release     *)
(* migrates the database.  Development builds, Windows and containers      *)
(* refuse to update and are left out.                                      *)
(***************************************************************************)
EXTENDS Integers, Sequences

CONSTANTS
    Requests,       \* update requests that can be in progress at once
    Nobody,         \* busy while it is not held
    MaxVersion,     \* releases there will ever be; the first is installed
    Defective,      \* releases whose binary does not run or reports another tag
    SnapshotKeep,   \* snapshotKeep
    MaxPath,        \* bound: the longest path ends in this many .old
    Missing,        \* no file at this path
    Damaged         \* a file that is cut short or is not what was published

ASSUME UpdateAssumption ==
    /\ Nobody \notin Requests
    /\ MaxVersion \in Nat \ {0}
    /\ Defective \subseteq 2..MaxVersion
    /\ SnapshotKeep \in Nat \ {0}
    /\ MaxPath \in Nat \ {0}
    /\ {Missing, Damaged} \cap Nat = {}

VARIABLES
    latest,      \* the latest published release
    binary,      \* the file at each path
    fresh,       \* the file at each path with .new after it
    snapshots,   \* the schema of each pre-update snapshot, oldest first
    schema,      \* the version that last migrated the database
    up,          \* whether the server runs
    running,     \* the version of the process, or of the last one
    executable,  \* the path os.Executable reports, while up
    busy,        \* the request that holds the mutex, or Nobody
    pc,          \* where each request is
    release,     \* the release it found
    target,      \* the executable path it found
    restarting   \* the restart channel holds a signal

files    == <<binary, fresh>>
data     == <<snapshots, schema>>
process  == <<up, running, executable>>
requests == <<pc, release, target>>
vars == <<latest, files, data, process, busy, requests, restarting>>

Versions == 1..MaxVersion
Paths == 0..MaxPath
Contents == Versions \cup {Missing, Damaged}

Works(content) == content \in Versions \ Defective

Steps == {"idle", "checked", "snapshotted", "ready", "downloaded", "damaged",
          "extracting", "extracted", "sane", "aside", "installed"}

Init ==
    /\ latest = 1
    /\ binary = [p \in Paths |-> IF p = 0 THEN 1 ELSE Missing]
    /\ fresh = [p \in Paths |-> Missing]
    /\ snapshots = <<>> /\ schema = 1
    /\ up = TRUE /\ running = 1 /\ executable = 0
    /\ busy = Nobody
    /\ pc = [r \in Requests |-> "idle"]
    /\ release = [r \in Requests |-> 1]
    /\ target = [r \in Requests |-> 0]
    /\ restarting = FALSE

Goto(r, from, to) == pc[r] = from /\ pc' = [pc EXCEPT ![r] = to]

(* The page is an error; the deferred Unlock runs. *)
GiveUp(r) ==
    /\ pc' = [pc EXCEPT ![r] = "idle"]
    /\ busy' = Nobody
    /\ UNCHANGED <<latest, data, up, running, release, target, restarting>>

Publish ==
    /\ latest < MaxVersion
    /\ latest' = latest + 1
    /\ UNCHANGED <<files, data, process, busy, requests, restarting>>

-----------------------------------------------------------------------------
(* Before Apply *)

(* The release is looked up again and is the one the form names, and newer *)
(* than the process.                                                       *)
CheckRelease(r) ==
    /\ up
    /\ latest > running
    /\ Goto(r, "idle", "checked")
    /\ release' = [release EXCEPT ![r] = latest]
    /\ UNCHANGED <<latest, files, data, process, busy, target, restarting>>

(* Mutant: a snapshot that fails does not stop the update. *)
SnapshotOptional(r) ==
    /\ Goto(r, "checked", "snapshotted")
    /\ snapshots' \in {snapshots, Append(snapshots, schema)}
    /\ UNCHANGED <<latest, files, schema, process, busy, release, target, restarting>>

(* snapshotDB copies the database and prunes all but the newest copies. *)
Snapshot(r) ==
    /\ Goto(r, "checked", "snapshotted")
    /\ LET all == Append(snapshots, schema)
           surplus == IF Len(all) > SnapshotKeep THEN Len(all) - SnapshotKeep ELSE 0
       IN  snapshots' = SubSeq(all, surplus + 1, Len(all))
    /\ UNCHANGED <<latest, files, schema, process, busy, release, target, restarting>>

(* No snapshot, no update. *)
SnapshotFails(r) ==
    /\ Goto(r, "checked", "idle")
    /\ UNCHANGED <<latest, files, data, process, busy, release, target, restarting>>

-----------------------------------------------------------------------------
(* Apply *)

(* TryLock fails: an update is in progress. *)
RefuseBusy(r) ==
    /\ busy # Nobody
    /\ Goto(r, "snapshotted", "idle")
    /\ UNCHANGED <<latest, files, data, process, busy, release, target, restarting>>

(* Mutant: Apply without its lock. *)
PrepareUnlocked(r) ==
    /\ executable < MaxPath
    /\ Goto(r, "snapshotted", "ready")
    /\ target' = [target EXCEPT ![r] = executable]
    /\ UNCHANGED <<latest, files, data, process, busy, release, restarting>>

(* preflight.  The release found is newer than the process still. *)
Prepare(r) ==
    /\ busy = Nobody
    /\ executable < MaxPath
    /\ Goto(r, "snapshotted", "ready")
    /\ busy' = r
    /\ target' = [target EXCEPT ![r] = executable]
    /\ UNCHANGED <<latest, files, data, process, release, restarting>>

(* Mutant: preflight's error returns with the mutex held. *)
PreflightFailsLocked(r) ==
    /\ busy = Nobody
    /\ Goto(r, "snapshotted", "idle")
    /\ busy' = r
    /\ UNCHANGED <<latest, files, data, process, release, target, restarting>>

(* A directory that is not writable, or no build for this platform. *)
PreflightFails(r) ==
    /\ busy = Nobody
    /\ Goto(r, "snapshotted", "idle")
    /\ UNCHANGED <<latest, files, data, process, busy, release, target, restarting>>

(* The archive is in the temporary directory, whole or not. *)
Download(r) ==
    /\ Goto(r, "ready", "downloaded") \/ Goto(r, "ready", "damaged")
    /\ UNCHANGED <<latest, files, data, process, busy, release, target, restarting>>

(* The checksum file or the archive cannot be had. *)
DownloadFails(r) ==
    /\ pc[r] = "ready"
    /\ GiveUp(r)
    /\ UNCHANGED <<files, executable>>

(* The digest is not the one in the checksum file. *)
RefuseDamaged(r) ==
    /\ pc[r] = "damaged"
    /\ GiveUp(r)
    /\ UNCHANGED <<files, executable>>

(* extractBinary: a stale .new goes, and the copy is short until it ends. *)
BeginExtract(r) ==
    /\ Goto(r, "downloaded", "extracting")
    /\ fresh' = [fresh EXCEPT ![target[r]] = Damaged]
    /\ UNCHANGED <<latest, binary, data, process, busy, release, target, restarting>>

FinishExtract(r) ==
    /\ Goto(r, "extracting", "extracted")
    /\ fresh' = [fresh EXCEPT ![target[r]] = release[r]]
    /\ UNCHANGED <<latest, binary, data, process, busy, release, target, restarting>>

Discard(r) == fresh' = [fresh EXCEPT ![target[r]] = Missing]

ExtractFails(r) ==
    /\ pc[r] = "extracting"
    /\ Discard(r)
    /\ GiveUp(r)
    /\ UNCHANGED <<binary, executable>>

(* Mutant: the new binary is not test-run. *)
SanityCheckSkipped(r) ==
    /\ Goto(r, "extracted", "sane")
    /\ UNCHANGED <<latest, files, data, process, busy, release, target, restarting>>

(* sanityCheck: -version runs and names the tag. *)
SanityCheck(r) ==
    /\ Works(fresh[target[r]])
    /\ Goto(r, "extracted", "sane")
    /\ UNCHANGED <<latest, files, data, process, busy, release, target, restarting>>

(* It does not run, names another tag, takes 15 seconds, or the client is  *)
(* gone and its context is cancelled.                                      *)
SanityCheckFails(r) ==
    /\ pc[r] = "extracted"
    /\ Discard(r)
    /\ GiveUp(r)
    /\ UNCHANGED <<binary, executable>>

(* A rename moves the process's own file with its path. *)
Rename(from, to) ==
    /\ binary' = [binary EXCEPT ![to] = binary[from], ![from] = Missing]
    /\ executable' = IF executable = from THEN to ELSE executable

(* Mutant: the binary in place is removed, not kept. *)
MoveAsideRemoves(r) ==
    /\ Goto(r, "sane", "aside")
    /\ binary' = [binary EXCEPT ![target[r]] = Missing]
    /\ UNCHANGED <<latest, fresh, data, process, busy, release, target, restarting>>

(* swapBinary's first rename. *)
MoveAside(r) ==
    /\ Goto(r, "sane", "aside")
    /\ Rename(target[r], target[r] + 1)
    /\ UNCHANGED <<latest, fresh, data, up, running, busy, release, target, restarting>>

MoveAsideFails(r) ==
    /\ pc[r] = "sane"
    /\ Discard(r)
    /\ GiveUp(r)
    /\ UNCHANGED <<binary, executable>>

(* swapBinary's second rename. *)
Install(r) ==
    /\ Goto(r, "aside", "installed")
    /\ binary' = [binary EXCEPT ![target[r]] = fresh[target[r]]]
    /\ Discard(r)
    /\ busy' = Nobody
    /\ UNCHANGED <<latest, data, process, release, target, restarting>>

(* The second rename fails and the first is undone, or that fails too. *)
InstallFails(r) ==
    /\ pc[r] = "aside"
    /\ \/ Rename(target[r] + 1, target[r])
       \/ UNCHANGED <<binary, executable>>
    /\ Discard(r)
    /\ GiveUp(r)

-----------------------------------------------------------------------------
(* The restart *)

(* Mutant: the handler does not ask for the restart. *)
FinishQuietly(r) ==
    /\ Goto(r, "installed", "idle")
    /\ UNCHANGED <<latest, files, data, process, busy, release, target, restarting>>

(* The goodbye page is out; RequestRestart drops a second signal. *)
Finish(r) ==
    /\ Goto(r, "installed", "idle")
    /\ restarting' = TRUE
    /\ UNCHANGED <<latest, files, data, process, busy, release, target>>

(* The process ends.  Requests in progress end with it: Shutdown waits for *)
(* them ten seconds, a crash not at all.                                   *)
Stop ==
    /\ up
    /\ up' = FALSE
    /\ executable' = 0
    /\ busy' = Nobody
    /\ pc' = [r \in Requests |-> "idle"]
    /\ restarting' = FALSE
    /\ UNCHANGED <<latest, files, data, running, release, target>>

Restart == restarting /\ Stop

(* reexec with the path that main looked up at its own start, or systemd:  *)
(* path 0 either way.  db.Open migrates.                                   *)
Start ==
    /\ ~up
    /\ Works(binary[0])
    /\ up' = TRUE
    /\ running' = binary[0]
    /\ schema' = binary[0]
    /\ UNCHANGED <<latest, files, snapshots, executable, busy, requests, restarting>>

(* What the error page of a failed roll-back asks for, and what a crash    *)
(* between the two renames needs: the last binary put aside goes back.     *)
RestoreByHand ==
    /\ ~up /\ binary[0] = Missing
    /\ \E p \in Paths :
        /\ Works(binary[p])
        /\ \A q \in Paths : Works(binary[q]) => p <= q
        /\ binary' = [binary EXCEPT ![0] = binary[p], ![p] = Missing]
    /\ UNCHANGED <<latest, fresh, data, process, busy, requests, restarting>>

ApplyStep(r) ==
    \/ Snapshot(r)
    \/ SnapshotFails(r)
    \/ RefuseBusy(r)
    \/ Prepare(r)
    \/ PreflightFails(r)
    \/ Download(r)
    \/ DownloadFails(r)
    \/ RefuseDamaged(r)
    \/ BeginExtract(r)
    \/ FinishExtract(r)
    \/ ExtractFails(r)
    \/ SanityCheck(r)
    \/ SanityCheckFails(r)
    \/ MoveAside(r)
    \/ MoveAsideFails(r)
    \/ Install(r)
    \/ InstallFails(r)
    \/ Finish(r)

Next ==
    \/ Publish
    \/ \E r \in Requests : CheckRelease(r) \/ ApplyStep(r)
    \/ Restart
    \/ Stop
    \/ Start
    \/ RestoreByHand

(* A request that has begun runs on: a download that stalls ends when the  *)
(* client does.  main takes the signal, and the service manager starts the *)
(* binary.                                                                 *)
Fairness ==
    /\ \A r \in Requests : WF_vars(ApplyStep(r))
    /\ WF_vars(Restart)
    /\ WF_vars(Start)

Spec == Init /\ [][Next]_vars /\ Fairness

-----------------------------------------------------------------------------
(* Properties *)

(* Type correctness.  Only the holder of busy is past the lock. *)
TypeOK ==
    /\ latest \in Versions
    /\ binary \in [Paths -> Contents]
    /\ fresh \in [Paths -> Contents]
    /\ snapshots \in Seq(Versions) /\ Len(snapshots) <= SnapshotKeep
    /\ schema \in Versions
    /\ up \in BOOLEAN
    /\ running \in Versions
    /\ executable \in Paths
    /\ busy \in Requests \cup {Nobody}
    /\ pc \in [Requests -> Steps]
    /\ release \in [Requests -> Versions]
    /\ target \in [Requests -> 0..(MaxPath - 1)]
    /\ restarting \in BOOLEAN
    /\ \A r \in Requests :
        pc[r] \notin {"idle", "checked", "snapshotted", "installed"} => busy = r

(***************************************************************************)
(* Whatever fails and wherever the process is cut off, every file under a  *)
(* binary's name is a release that was verified and test-run, and one of   *)
(* them is the version that ran last, however many updates followed its    *)
(* start.  It may be under the name it was put aside with, and binbash     *)
(* itself missing: see BinbashInPlace.  (swapBinary)                       *)
(***************************************************************************)
BinaryKept ==
    /\ \A p \in Paths : binary[p] = Missing \/ Works(binary[p])
    /\ \E p \in Paths : binary[p] = running

(***************************************************************************)
(* Apply, by its comment, "atomically swaps the new binary over the        *)
(* running executable", and "swapBinary atomically installs newPath over   *)
(* exePath": wherever the process ends, there is a binbash to start.       *)
(***************************************************************************)
BinbashInPlace == ~up => Works(binary[0])

(* No version migrates the database before a snapshot of the schema it     *)
(* found was taken, and the snapshot has not been pruned since.            *)
SnapshotBeforeMigration ==
    [][schema' # schema => \E k \in DOMAIN snapshots : snapshots[k] = schema]_vars

(* An update that is installed is soon the version that runs. *)
NewVersionRuns ==
    \A v \in Versions : (up /\ running < v /\ binary[0] = v) ~> (up /\ running >= v)

(* An update in progress ends, and the next one is not refused for ever. *)
BusyReleased == \A r \in Requests : (busy = r) ~> (busy # r)

(* The README of the repository on the binary that an update replaces: "the *)
(* old one is kept alongside as binbash.old in case you ever want to roll   *)
(* back".  When another version starts, binbash.old is the one before it.   *)
OldBinaryKept ==
    [][~up /\ up' /\ running' > running => binary[1] = running]_vars
=============================================================================
