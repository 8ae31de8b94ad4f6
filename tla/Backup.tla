------------------------------- MODULE Backup -------------------------------
(***************************************************************************)
(* Backups: the reminder and the automatic backup that a page load runs    *)
(* (checkAndRunAutoBackup), the download (ExportBackup), and what they     *)
(* share: the watermark in backup_state, the mutex backupMu, the single    *)
(* database connection, and the directory AutoBackupDir.                   *)
(*                                                                         *)
(* The watermark is the largest item id there was when the last backup was *)
(* recorded; items with a larger id are the "new" ones.  Each statement    *)
(* takes the connection by itself, except that the query behind a CSV      *)
(* keeps it until its last row has been written out.                       *)
(*                                                                         *)
(* saved and copied are history: which items of the table are in a backup  *)
(* that was recorded, and in the one a request is making.                  *)
(***************************************************************************)
EXTENDS Rowids, FiniteSets, FiniteSetsExt

CONSTANTS
    Requests,    \* the requests that can be in progress at once
    Nobody,      \* the mutex, or the connection, while it is free
    Threshold,   \* autoBackupItemThreshold
    Keep,        \* autoBackupKeepFiles
    MaxTime      \* bound: seconds on the clock

ASSUME BackupAssumption ==
    /\ Nobody \notin Requests
    /\ Threshold \in Nat \ {0}
    /\ Keep \in Nat \ {0}
    /\ MaxTime \in Nat \ {0}

(* A file is named for the second its writing began in. *)
Times == 1..MaxTime

VARIABLES
    items,      \* the ids in the items table
    watermark,  \* last_backup_max_item_id
    conn,       \* the request that holds the connection between steps, or Nobody
    backupMu,   \* the request that holds the mutex, or Nobody
    pc,         \* where each request is
    seen,       \* the watermark it read
    name,       \* the file it writes
    files,      \* name -> whether the file under it is whole
    tmps,       \* the same for the hidden temporary files
    now,        \* the clock
    saved,      \* history: items in a recorded backup
    copied      \* history: items in the file a request is writing

table    == <<items, watermark>>
locks    == <<conn, backupMu>>
locals   == <<seen, name>>
disk     == <<files, tmps>>
history  == <<saved, copied>>
vars == <<table, locks, pc, locals, disk, now, history>>

(* Where a page load and a download can be; Mutexed: with backupMu held. *)
Page    == {"watermark", "count", "create", "query", "write", "rename", "mark", "prune"}
Export  == {"stream", "exportLock", "exportMark"}
Mutexed == Page \cup {"exportMark"}

NoFiles == [t \in {} |-> TRUE]

Init ==
    /\ items = {} /\ watermark = 0
    /\ conn = Nobody /\ backupMu = Nobody
    /\ pc = [r \in Requests |-> "idle"]
    /\ seen = [r \in Requests |-> 0]
    /\ name = [r \in Requests |-> 0]
    /\ files = NoFiles /\ tmps = NoFiles
    /\ now = 1
    /\ saved = {} /\ copied = [r \in Requests |-> {}]

NewItems == {id \in items : id > watermark}

Goto(r, from, to) == pc[r] = from /\ pc' = [pc EXCEPT ![r] = to]

Put(dir, n, whole) == [m \in DOMAIN dir \cup {n} |-> IF m = n THEN whole ELSE dir[m]]

Without(dir, names) == Restrict(dir, DOMAIN dir \ names)

Statement == conn = Nobody /\ UNCHANGED conn

-----------------------------------------------------------------------------
(* What both kinds of backup do *)

(* The query behind the CSV reads the table as it is now and holds on to   *)
(* the connection.                                                         *)
OpenRows(r) ==
    /\ conn = Nobody
    /\ conn' = r
    /\ copied' = [copied EXCEPT ![r] = items]

(* Mutant: the number of items where their largest id belongs. *)
MarkBackupDoneByCount(r) ==
    /\ Statement
    /\ watermark' = Cardinality(items)
    /\ saved' = saved \cup copied[r]
    /\ copied' = [copied EXCEPT ![r] = {}]
    /\ UNCHANGED items

(* Mutant: the id the next item would get. *)
MarkBackupDoneNextId(r) ==
    /\ Statement
    /\ watermark' = Max(items \cup {0}) + 1
    /\ saved' = saved \cup copied[r]
    /\ copied' = [copied EXCEPT ![r] = {}]
    /\ UNCHANGED items

(* last_backup_max_item_id = (SELECT COALESCE(MAX(id), 0) FROM items) *)
MarkBackupDone(r) ==
    /\ Statement
    /\ watermark' = Max(items \cup {0})
    /\ saved' = saved \cup copied[r]
    /\ copied' = [copied EXCEPT ![r] = {}]
    /\ UNCHANGED items

-----------------------------------------------------------------------------
(* A page load: checkAndRunAutoBackup *)

(* Mutant: the mutex left out. *)
LoadPageUnlocked(r) ==
    /\ Goto(r, "idle", "watermark")
    /\ backupMu' = r
    /\ UNCHANGED <<table, conn, locals, disk, now, history>>

LoadPage(r) ==
    /\ Goto(r, "idle", "watermark")
    /\ backupMu = Nobody
    /\ backupMu' = r
    /\ UNCHANGED <<table, conn, locals, disk, now, history>>

ReadWatermark(r) ==
    /\ Goto(r, "watermark", "count")
    /\ Statement
    /\ seen' = [seen EXCEPT ![r] = watermark]
    /\ UNCHANGED <<table, backupMu, name, disk, now, history>>

CountNewItems(r) ==
    /\ Statement
    /\ Cardinality({id \in items : id > seen[r]}) >= Threshold
    /\ Goto(r, "count", "create")
    /\ UNCHANGED <<table, backupMu, locals, disk, now, history>>

(* Mutant: written straight to its final name. *)
CreateInPlace(r) ==
    /\ Goto(r, "create", "query")
    /\ name' = [name EXCEPT ![r] = now]
    /\ tmps' = Put(tmps, now, FALSE)
    /\ files' = Put(files, now, FALSE)
    /\ UNCHANGED <<table, locks, seen, now, history>>

(* O_CREATE|O_TRUNC: a file an earlier crash left behind is emptied. *)
CreateTmp(r) ==
    /\ Goto(r, "create", "query")
    /\ name' = [name EXCEPT ![r] = now]
    /\ tmps' = Put(tmps, now, FALSE)
    /\ UNCHANGED <<table, locks, seen, files, now, history>>

OpenFileRows(r) ==
    /\ Goto(r, "query", "write")
    /\ OpenRows(r)
    /\ UNCHANGED <<table, backupMu, locals, disk, now, saved>>

WriteFile(r) ==
    /\ Goto(r, "write", "rename")
    /\ conn' = Nobody
    /\ tmps' = Put(tmps, name[r], TRUE)
    /\ UNCHANGED <<table, backupMu, locals, files, now, history>>

RenameFile(r) ==
    /\ Goto(r, "rename", "mark")
    /\ name[r] \in DOMAIN tmps
    /\ files' = Put(files, name[r], tmps[name[r]])
    /\ tmps' = Without(tmps, {name[r]})
    /\ UNCHANGED <<table, locks, locals, now, history>>

MarkFile(r) ==
    /\ Goto(r, "mark", "prune")
    /\ MarkBackupDone(r)
    /\ UNCHANGED <<backupMu, locals, disk, now>>

(* Mutant: the oldest files kept instead of the newest. *)
SurplusNewest == {t \in DOMAIN files : Cardinality({u \in DOMAIN files : u < t}) >= Keep}

(* All but the newest Keep names. *)
Surplus == {t \in DOMAIN files : Cardinality({u \in DOMAIN files : u > t}) >= Keep}

(* Each file of the surplus is removed or cannot be, which is only logged. *)
Prune(r) ==
    /\ Goto(r, "prune", "idle")
    /\ \E stuck \in SUBSET Surplus : files' = Without(files, Surplus \ stuck)
    /\ backupMu' = Nobody
    /\ seen' = [seen EXCEPT ![r] = 0]
    /\ name' = [name EXCEPT ![r] = 0]
    /\ UNCHANGED <<table, conn, tmps, now, history>>

-----------------------------------------------------------------------------
(* A download: ExportBackup *)

OpenExport(r) ==
    /\ Goto(r, "idle", "stream")
    /\ OpenRows(r)
    /\ UNCHANGED <<table, backupMu, locals, disk, now, saved>>

(* Mutant: the rows still open while the handler asks for the mutex. *)
StreamKeepsRows(r) ==
    /\ Goto(r, "stream", "exportLock")
    /\ UNCHANGED <<table, locks, locals, disk, now, history>>

(* The client has taken the last row, and writeCSVTo closes the query. *)
Stream(r) ==
    /\ Goto(r, "stream", "exportLock")
    /\ conn' = Nobody
    /\ UNCHANGED <<table, backupMu, locals, disk, now, history>>

LockExport(r) ==
    /\ Goto(r, "exportLock", "exportMark")
    /\ backupMu = Nobody
    /\ backupMu' = r
    /\ UNCHANGED <<table, conn, locals, disk, now, history>>

MarkExport(r) ==
    /\ Goto(r, "exportMark", "idle")
    /\ MarkBackupDone(r)
    /\ backupMu' = Nobody
    /\ UNCHANGED <<locals, disk, now>>

-----------------------------------------------------------------------------
(* Failures *)

(***************************************************************************)
(* Nothing is due (or AutoBackupDir is not set), or a statement, a write   *)
(* or a rename fails: it is logged and the page is rendered.  A temporary  *)
(* file that was being written is removed, rows that were open are closed, *)
(* and the deferred Unlock runs.  A statement waits for the connection     *)
(* without a deadline: it cannot fail before it has it.                    *)
(***************************************************************************)
GiveUp(r) ==
    /\ pc[r] \in {"watermark", "count", "create", "query", "write", "rename",
                  "mark", "stream", "exportMark"}
    /\ conn \in {Nobody, r} \/ pc[r] \in {"create", "rename"}
    /\ pc' = [pc EXCEPT ![r] = "idle"]
    /\ conn' = IF conn = r THEN Nobody ELSE conn
    /\ backupMu' = IF pc[r] \in Mutexed THEN Nobody ELSE backupMu
    /\ tmps' = IF pc[r] \in {"write", "query", "rename"}
               THEN Without(tmps, {name[r]}) ELSE tmps
    /\ seen' = [seen EXCEPT ![r] = 0]
    /\ name' = [name EXCEPT ![r] = 0]
    /\ copied' = [copied EXCEPT ![r] = {}]
    /\ UNCHANGED <<table, files, now, saved>>

(* The process dies and starts again: the disk is as it was. *)
Crash ==
    /\ pc' = [r \in Requests |-> "idle"]
    /\ conn' = Nobody /\ backupMu' = Nobody
    /\ seen' = [r \in Requests |-> 0]
    /\ name' = [r \in Requests |-> 0]
    /\ copied' = [r \in Requests |-> {}]
    /\ UNCHANGED <<table, disk, now, saved>>

-----------------------------------------------------------------------------
(* The rest of the program *)

(* One item, or the rows of an import. *)
AddItems ==
    /\ conn = Nobody
    /\ \E last \in NextRowid([id \in items |-> id])..MaxRowid :
           items' = items \cup (NextRowid([id \in items |-> id])..last)
    /\ UNCHANGED <<watermark, locks, pc, locals, disk, now, history>>

DeleteItems ==
    /\ conn = Nobody
    /\ \E gone \in (SUBSET items) \ {{}} :
           /\ items' = items \ gone
           /\ saved' = saved \ gone
           /\ copied' = [r \in Requests |-> copied[r] \ gone]
    /\ UNCHANGED <<watermark, locks, pc, locals, disk, now>>

(* A replacing import, which commits in one piece and resets the watermark. *)
ReplaceItems ==
    /\ conn = Nobody
    /\ \E last \in Rowids : items' = 1..last
    /\ watermark' = 0
    /\ saved' = {}
    /\ copied' = [r \in Requests |-> {}]
    /\ UNCHANGED <<locks, pc, locals, disk, now>>

Tick ==
    /\ now < MaxTime
    /\ now' = now + 1
    /\ UNCHANGED <<table, locks, pc, locals, disk, history>>

-----------------------------------------------------------------------------

AutoBackup(r) ==
    \/ ReadWatermark(r) \/ CountNewItems(r) \/ CreateTmp(r) \/ OpenFileRows(r)
    \/ WriteFile(r) \/ RenameFile(r) \/ MarkFile(r) \/ Prune(r)

FinishExport(r) == Stream(r) \/ LockExport(r) \/ MarkExport(r)

Next ==
    \/ \E r \in Requests :
           LoadPage(r) \/ AutoBackup(r) \/ OpenExport(r) \/ FinishExport(r) \/ GiveUp(r)
    \/ Crash \/ AddItems \/ DeleteItems \/ ReplaceItems \/ Tick

(***************************************************************************)
(* A request that has begun goes on: sync.Mutex serves waiters in turn,    *)
(* the connection pool one picked at random, and a client that downloads   *)
(* reads to the end or hangs up.                                           *)
(***************************************************************************)
Fairness ==
    \A r \in Requests : SF_vars(AutoBackup(r) \/ FinishExport(r) \/ GiveUp(r))

Spec == Init /\ [][Next]_vars /\ Fairness

-----------------------------------------------------------------------------
(* Properties *)

IsDirectory(dir) == DOMAIN dir \subseteq Times /\ dir \in [DOMAIN dir -> BOOLEAN]

(***************************************************************************)
(* Type correctness.  The watermark is an id some item can have, or 0.     *)
(***************************************************************************)
TypeOK ==
    /\ items \subseteq Rowids /\ watermark \in 0..MaxRowid
    /\ conn \in Requests \cup {Nobody} /\ backupMu \in Requests \cup {Nobody}
    /\ pc \in [Requests -> {"idle"} \cup Page \cup Export]
    /\ seen \in [Requests -> 0..MaxRowid]
    /\ name \in [Requests -> Times \cup {0}]
    /\ IsDirectory(files) /\ IsDirectory(tmps)
    /\ now \in Times
    /\ saved \subseteq items
    /\ copied \in [Requests -> SUBSET items]

(***************************************************************************)
(* A file under its final name is whole, wherever the process died while   *)
(* writing one.  (the rename in checkAndRunAutoBackup)                     *)
(***************************************************************************)
EveryFileWhole == \A t \in DOMAIN files : files[t]

(***************************************************************************)
(* An automatic backup that is being made is still due: no backup was      *)
(* recorded since this request read the watermark, so two tabs never both  *)
(* write one.  Only a replacing import, which does not take backupMu, can  *)
(* have moved the watermark, to 0.  (the comment of Handlers.backupMu)     *)
(***************************************************************************)
BackupStillDue ==
    \A r \in Requests :
        pc[r] \in {"count", "create", "query", "write", "rename", "mark"} =>
            watermark \in {seen[r], 0}

(***************************************************************************)
(* The reminder never counts an item that a recorded backup holds.         *)
(* (markBackupDone, and rowids that come back)                             *)
(***************************************************************************)
NoFalseAlarm == NewItems \cap saved = {}

(***************************************************************************)
(* A file disappears only when Keep newer ones are there.                  *)
(* (pruneOldBackups)                                                       *)
(***************************************************************************)
NewestStay ==
    \A t \in DOMAIN files \ DOMAIN files' :
        Cardinality({u \in DOMAIN files' : u > t}) >= Keep

OnlySurplusPruned == [][NewestStay]_vars

(***************************************************************************)
(* Every request is answered: no two of them wait for each other, one with *)
(* the connection and the other with backupMu.                             *)
(***************************************************************************)
EveryRequestAnswered == \A r \in Requests : pc[r] # "idle" ~> pc[r] = "idle"

(***************************************************************************)
(* With Threshold items that are in no recorded backup, a reminder is due. *)
(* (the comment in commitImport: the watermark is reset "so newly-loaded   *)
(* items count correctly toward the next backup reminder/auto-backup")     *)
(***************************************************************************)
ReminderDue ==
    Cardinality(items \ saved) >= Threshold => Cardinality(NewItems) >= Threshold
=============================================================================
