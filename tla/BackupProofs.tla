---------------------------- MODULE BackupProofs ----------------------------
(***************************************************************************)
(* Safety of module Backup for any requests, thresholds, files kept and    *)
(* clock.  What is written and recorded is right because the mutex keeps   *)
(* page loads and the recording of downloads apart, and because a file is  *)
(* whole before it gets its name.                                          *)
(***************************************************************************)
EXTENDS Backup, RowidsProofs

(* Who holds the mutex, and who the connection between two steps.          *)
LocksHeld ==
    \A r \in Requests :
        /\ pc[r] \in Mutexed <=> backupMu = r
        /\ pc[r] \in {"write", "stream"} <=> conn = r

(* A request that writes a file has named it, and renames a whole one.     *)
FileInHand ==
    \A r \in Requests :
        /\ pc[r] \in {"query", "write", "rename"} => name[r] \in Times
        /\ pc[r] = "rename" => name[r] \in DOMAIN tmps /\ tmps[name[r]]

(* What is in a recorded backup is not above the watermark.                *)
SavedBelow == \A id \in saved : id <= watermark

BInv ==
    /\ TypeOK
    /\ LocksHeld
    /\ FileInHand
    /\ EveryFileWhole
    /\ BackupStillDue
    /\ SavedBelow

-----------------------------------------------------------------------------
(* Files and marks *)

(* Writing a file and removing some keep a directory a directory.          *)
LEMMA PutDirectory ==
  ASSUME NEW dir, IsDirectory(dir), NEW n \in Times, NEW whole \in BOOLEAN
  PROVE  /\ IsDirectory(Put(dir, n, whole))
         /\ DOMAIN Put(dir, n, whole) = DOMAIN dir \cup {n}
         /\ Put(dir, n, whole)[n] = whole
         /\ \A m \in DOMAIN dir \ {n} : Put(dir, n, whole)[m] = dir[m]
  BY DEF IsDirectory, Put

(* Removing files keeps the others. *)
LEMMA WithoutDirectory ==
  ASSUME NEW dir, IsDirectory(dir), NEW names
  PROVE  /\ IsDirectory(Without(dir, names))
         /\ DOMAIN Without(dir, names) = DOMAIN dir \ names
         /\ \A m \in DOMAIN dir \ names : Without(dir, names)[m] = dir[m]
  BY DEF IsDirectory, Without, Restrict

(* The largest id is an id, or 0, and no item is above it.                 *)
LEMMA LargestId ==
  ASSUME items \subseteq Rowids
  PROVE  /\ Max(items \cup {0}) \in 0..MaxRowid
         /\ \A id \in items : id <= Max(items \cup {0})
  <1> DEFINE ids == items \cup {0}
  <1>1. ids # {} /\ \A m \in ids : m \in Nat /\ m <= MaxRowid
    BY MaxRowidAssumption DEF Rowids
  <1>2. \E n \in ids : \A m \in ids : m <= n
    <2> HIDE DEF ids
    <2> QED BY <1>1, LargestNatural, MaxRowidAssumption
  <1>3. \E n \in ids : \A m \in ids : n >= m
    BY <1>1, <1>2
  <1>4. Max(ids) \in ids /\ \A m \in ids : Max(ids) >= m
    <2> HIDE DEF ids
    <2> QED BY <1>3 DEF Max
  <1>5. \A id \in items : id \in ids
    OBVIOUS
  <1> HIDE DEF ids
  <1>6. Max(ids) \in 0..MaxRowid /\ \A id \in items : id <= Max(ids)
    BY <1>1, <1>4, <1>5, MaxRowidAssumption
  <1> QED BY <1>6 DEF ids

-----------------------------------------------------------------------------
(* The invariant *)

(* An empty inventory, no files, and nobody at work.                       *)
LEMMA InitBInv ==
  Init => BInv
  <1> SUFFICES ASSUME Init PROVE BInv
    OBVIOUS
  <1> USE BackupAssumption, MaxRowidAssumption DEF Init
  <1>1. TypeOK
    BY DEF TypeOK, IsDirectory, NoFiles, Times
  <1>2. LocksHeld /\ FileInHand /\ EveryFileWhole /\ BackupStillDue /\ SavedBelow
    BY DEF LocksHeld, FileInHand, EveryFileWhole, BackupStillDue, SavedBelow, NoFiles,
           Mutexed, Page
  <1> QED BY <1>1, <1>2 DEF BInv

(* Steps that change neither the table nor a file: taking the mutex or the *)
(* connection, reading, and giving the connection back.                    *)
LEMMA QuietStep ==
  ASSUME BInv, NEW r \in Requests,
         \/ LoadPage(r) \/ ReadWatermark(r) \/ CountNewItems(r) \/ OpenFileRows(r)
         \/ OpenExport(r) \/ Stream(r) \/ LockExport(r)
  PROVE  BInv'
  <1> USE BackupAssumption
          DEF BInv, TypeOK, LocksHeld, FileInHand, EveryFileWhole, BackupStillDue, SavedBelow,
              Page, Export, Mutexed, Goto, table, locks, locals, disk, history
  <1>1. CASE LoadPage(r)
    BY <1>1 DEF LoadPage
  <1>2. CASE ReadWatermark(r)
    BY <1>2 DEF ReadWatermark, Statement
  <1>3. CASE CountNewItems(r)
    BY <1>3 DEF CountNewItems, Statement
  <1>4. CASE OpenFileRows(r)
    BY <1>4 DEF OpenFileRows, OpenRows
  <1>5. CASE OpenExport(r)
    BY <1>5 DEF OpenExport, OpenRows
  <1>6. CASE Stream(r)
    BY <1>6 DEF Stream
  <1>7. CASE LockExport(r)
    BY <1>7 DEF LockExport
  <1> QED BY <1>1, <1>2, <1>3, <1>4, <1>5, <1>6, <1>7

(* While one request has the mutex no other writes a file.                 *)
LEMMA OneWriter ==
  ASSUME BInv, NEW r \in Requests, pc[r] \in Mutexed, NEW q \in Requests \ {r}
  PROVE  pc[q] \notin Mutexed
  BY DEF BInv, LocksHeld

(* A file is begun, written, or gets its name.                             *)
LEMMA FileStep ==
  ASSUME BInv, NEW r \in Requests, CreateTmp(r) \/ WriteFile(r) \/ RenameFile(r)
  PROVE  BInv'
  <1> USE DEF Goto, table, locks, locals, disk, history
  <1>1. /\ pc[r] \in Mutexed /\ \A q \in Requests \ {r} : pc[q] \notin Mutexed
        /\ pc[r] \in {"create", "write", "rename"}
    <2>1. pc[r] \in Mutexed /\ pc[r] \in {"create", "write", "rename"}
      BY DEF CreateTmp, WriteFile, RenameFile, Mutexed, Page
    <2> QED BY <2>1, OneWriter
  <1>2. \A q \in Requests \ {r} : pc'[q] = pc[q] /\ name'[q] = name[q]
    BY DEF BInv, TypeOK, CreateTmp, WriteFile, RenameFile
  <1>3. LocksHeld'
    BY BackupAssumption
       DEF BInv, TypeOK, LocksHeld, CreateTmp, WriteFile, RenameFile, Mutexed, Page
  <1>4. BackupStillDue' /\ SavedBelow'
    BY DEF BInv, TypeOK, BackupStillDue, SavedBelow, CreateTmp, WriteFile, RenameFile
  <1>5. /\ IsDirectory(files) /\ IsDirectory(tmps) /\ now \in Times
        /\ pc[r] \in {"write", "rename"} => name[r] \in Times
        /\ pc[r] = "rename" => name[r] \in DOMAIN tmps /\ tmps[name[r]] = TRUE
    BY DEF BInv, TypeOK, FileInHand, IsDirectory
  <1>6. /\ IsDirectory(files') /\ IsDirectory(tmps') /\ EveryFileWhole'
        /\ pc'[r] \in {"query", "write", "rename"} => name'[r] \in Times
        /\ pc'[r] = "rename" => name'[r] \in DOMAIN tmps' /\ tmps'[name'[r]]
    <2>1. CASE CreateTmp(r)
      <3>1. tmps' = Put(tmps, now, FALSE) /\ files' = files
            /\ pc'[r] = "query" /\ name'[r] = now
        BY <2>1 DEF CreateTmp, BInv, TypeOK
      <3> QED BY <1>5, <3>1, PutDirectory DEF BInv, EveryFileWhole
    <2>2. CASE WriteFile(r)
      <3>1. tmps' = Put(tmps, name[r], TRUE) /\ files' = files /\ name' = name
            /\ pc[r] = "write" /\ pc'[r] = "rename"
        BY <2>2 DEF WriteFile, BInv, TypeOK
      <3>2. IsDirectory(tmps') /\ name[r] \in DOMAIN tmps'
        BY <1>5, <3>1 DEF IsDirectory, Put
      <3>3. tmps'[name[r]]
        BY <3>1 DEF Put
      <3> QED BY <1>5, <3>1, <3>2, <3>3 DEF BInv, EveryFileWhole
    <2>3. CASE RenameFile(r)
      <3>1. files' = Put(files, name[r], TRUE) /\ tmps' = Without(tmps, {name[r]})
            /\ pc[r] = "rename" /\ pc'[r] = "mark"
        BY <1>5, <2>3 DEF RenameFile, BInv, TypeOK
      <3>2. IsDirectory(tmps') /\ IsDirectory(files')
        BY <1>5, <3>1, PutDirectory, WithoutDirectory
      <3>3. EveryFileWhole'
        BY <3>1 DEF BInv, EveryFileWhole, Put
      <3> QED BY <3>1, <3>2, <3>3
    <2> QED BY <2>1, <2>2, <2>3
  <1>7. TypeOK'
    BY <1>5, <1>6 DEF BInv, TypeOK, CreateTmp, WriteFile, RenameFile, Page, Export
  <1>8. FileInHand'
    BY <1>1, <1>2, <1>6 DEF FileInHand, Mutexed, Page
  <1> QED BY <1>3, <1>4, <1>6, <1>7, <1>8 DEF BInv

(* A backup is recorded: nothing that it holds is above the new watermark, *)
(* and nobody else is writing a file that was due before.                  *)
LEMMA MarkStep ==
  ASSUME BInv, NEW r \in Requests, MarkFile(r) \/ MarkExport(r)
  PROVE  BInv'
  <1> USE DEF Goto, locks, locals, disk, history
  <1>1. /\ items' = items /\ watermark' = Max(items \cup {0}) /\ conn' = conn
        /\ saved' = saved \cup copied[r] /\ copied' = [copied EXCEPT ![r] = {}]
        /\ UNCHANGED <<seen, name, files, tmps, now>>
    BY DEF MarkFile, MarkExport, MarkBackupDone, Statement
  <1>2. pc[r] \in Mutexed /\ \A q \in Requests \ {r} : pc[q] \notin Mutexed
    <2>1. pc[r] \in Mutexed
      BY DEF MarkFile, MarkExport, Mutexed, Page
    <2> QED BY <2>1, OneWriter
  <1>3. watermark' \in 0..MaxRowid /\ \A id \in items : id <= watermark'
    BY <1>1, LargestId DEF BInv, TypeOK
  <1>4. saved' \subseteq items /\ copied' \in [Requests -> SUBSET items]
    BY <1>1 DEF BInv, TypeOK
  <1>5. /\ pc' \in [Requests -> {"idle"} \cup Page \cup Export]
        /\ backupMu' \in Requests \cup {Nobody}
        /\ pc'[r] \in {"prune", "idle"} /\ \A q \in Requests \ {r} : pc'[q] = pc[q]
    BY DEF BInv, TypeOK, MarkFile, MarkExport, Page, Export
  <1>6. TypeOK'
    BY <1>1, <1>3, <1>4, <1>5 DEF BInv, TypeOK
  <1>7. LocksHeld'
    BY BackupAssumption
       DEF BInv, TypeOK, LocksHeld, MarkFile, MarkExport, MarkBackupDone, Statement, Mutexed, Page
  <1>8. FileInHand' /\ EveryFileWhole' /\ BackupStillDue'
    BY <1>1, <1>2, <1>5 DEF BInv, FileInHand, EveryFileWhole, BackupStillDue, Mutexed, Page
  <1>9. SavedBelow'
    BY <1>1, <1>3, <1>4 DEF SavedBelow
  <1> QED BY <1>6, <1>7, <1>8, <1>9 DEF BInv

(* Old files go, the mutex is given back, and the request ends.            *)
LEMMA PruneStep ==
  ASSUME BInv, NEW r \in Requests, Prune(r)
  PROVE  BInv'
  <1> USE DEF Goto, table, history
  <1>1. PICK names : files' = Without(files, names)
    BY DEF Prune
  <1>2. /\ pc[r] \in Mutexed /\ \A q \in Requests \ {r} : pc[q] \notin Mutexed
    <2>1. pc[r] \in Mutexed
      BY DEF Prune, Mutexed, Page
    <2> QED BY <2>1, OneWriter
  <1>3. IsDirectory(files') /\ EveryFileWhole'
    BY <1>1 DEF BInv, TypeOK, EveryFileWhole, IsDirectory, Without, Restrict
  <1>4. TypeOK'
    BY <1>3, MaxRowidAssumption DEF BInv, TypeOK, Prune
  <1>5. LocksHeld'
    BY BackupAssumption DEF BInv, TypeOK, LocksHeld, Prune, Mutexed, Page
  <1>6. FileInHand' /\ BackupStillDue' /\ SavedBelow'
    BY <1>2 DEF BInv, TypeOK, FileInHand, BackupStillDue, SavedBelow, Prune, Mutexed, Page
  <1> QED BY <1>3, <1>4, <1>5, <1>6 DEF BInv

(* A request that gives up removes at most its own temporary file.         *)
LEMMA GiveUpStep ==
  ASSUME BInv, NEW r \in Requests, GiveUp(r)
  PROVE  BInv'
  <1> USE DEF table
  <1>1. /\ tmps' = tmps \/ tmps' = Without(tmps, {name[r]})
        /\ pc[r] \notin Mutexed => tmps' = tmps
        /\ files' = files
    BY DEF GiveUp, Mutexed, Page
  <1>2. pc[r] \in Mutexed => \A q \in Requests \ {r} : pc[q] \notin Mutexed
    BY OneWriter
  <1>3. IsDirectory(tmps')
    <2>1. IsDirectory(tmps) /\ IsDirectory(Without(tmps, {name[r]}))
      BY WithoutDirectory DEF BInv, TypeOK
    <2> QED BY <1>1, <2>1
  <1>4. TypeOK'
    BY <1>1, <1>3, MaxRowidAssumption DEF BInv, TypeOK, GiveUp
  <1>5. LocksHeld'
    BY BackupAssumption DEF BInv, TypeOK, LocksHeld, GiveUp, Mutexed, Page
  <1>6. FileInHand'
    BY <1>1, <1>2 DEF BInv, TypeOK, FileInHand, GiveUp, Mutexed, Page
  <1>7. EveryFileWhole' /\ BackupStillDue' /\ SavedBelow'
    BY <1>1 DEF BInv, TypeOK, EveryFileWhole, BackupStillDue, SavedBelow, GiveUp
  <1> QED BY <1>4, <1>5, <1>6, <1>7 DEF BInv

(* A crash leaves the table and the disk, and nobody at work.              *)
LEMMA CrashStep ==
  ASSUME BInv, Crash
  PROVE  BInv'
  <1> USE BackupAssumption, MaxRowidAssumption DEF Crash, table, disk
  <1>1. TypeOK'
    BY DEF BInv, TypeOK
  <1>2. LocksHeld' /\ FileInHand' /\ EveryFileWhole' /\ BackupStillDue' /\ SavedBelow'
    BY DEF BInv, LocksHeld, FileInHand, EveryFileWhole, BackupStillDue, SavedBelow,
           Mutexed, Page
  <1> QED BY <1>1, <1>2 DEF BInv

(* Items come and go, and time passes.                                     *)
LEMMA OtherStep ==
  ASSUME BInv, AddItems \/ DeleteItems \/ ReplaceItems \/ Tick
  PROVE  BInv'
  <1> USE DEF locks, locals, disk, history
  <1>1. UNCHANGED <<conn, backupMu, pc, seen, name, files, tmps>>
    BY DEF AddItems, DeleteItems, ReplaceItems, Tick
  <1>2. LocksHeld' /\ FileInHand' /\ EveryFileWhole'
    BY <1>1 DEF BInv, LocksHeld, FileInHand, EveryFileWhole
  <1>3. /\ watermark' \in {watermark, 0} /\ now' \in Times
        /\ saved' \subseteq saved /\ items' \subseteq Rowids
        /\ saved' \subseteq items' /\ copied' \in [Requests -> SUBSET items']
        /\ watermark' = watermark \/ saved' = {}
    <2>1. CASE AddItems
      <3>1. PICK last : items' = items \cup (NextRowid([id \in items |-> id])..last)
                        /\ last <= MaxRowid /\ last \in Int
        BY <2>1, MaxRowidAssumption DEF AddItems
      <3>2. IsTable([id \in items |-> id], items)
        BY DEF IsTable, BInv, TypeOK
      <3>3. NextRowid([id \in items |-> id]) \in 1..(MaxRowid + 1)
        BY <3>2, NextRowidFresh
      <3> DEFINE first == NextRowid([id \in items |-> id])
      <3> HIDE DEF first
      <3>4. \A i \in first..last : i \in 1..MaxRowid
        BY <3>1, <3>3, MaxRowidAssumption DEF first
      <3>5. items' \subseteq Rowids /\ items \subseteq items'
        BY <3>1, <3>4 DEF first, Rowids, BInv, TypeOK
      <3> QED BY <2>1, <3>5 DEF AddItems, BInv, TypeOK
    <2>2. CASE DeleteItems
      BY <2>2 DEF DeleteItems, BInv, TypeOK
    <2>3. CASE ReplaceItems
      <3>1. items' \subseteq Rowids
        BY <2>3, MaxRowidAssumption DEF ReplaceItems, Rowids
      <3> QED BY <2>3, <3>1 DEF ReplaceItems, BInv, TypeOK
    <2>4. CASE Tick
      BY <2>4, BackupAssumption DEF Tick, Times, table, BInv, TypeOK
    <2> QED BY <2>1, <2>2, <2>3, <2>4
  <1>4. TypeOK'
    BY <1>1, <1>3, MaxRowidAssumption DEF BInv, TypeOK
  <1>5. BackupStillDue' /\ SavedBelow'
    BY <1>1, <1>3 DEF BInv, BackupStillDue, SavedBelow
  <1> QED BY <1>2, <1>4, <1>5 DEF BInv

(* The invariant is kept by every step and holds in every state.           *)
LEMMA BInvAlways ==
  Spec => []BInv
  <1>1. BInv /\ [Next]_vars => BInv'
    <2> SUFFICES ASSUME BInv, [Next]_vars PROVE BInv'
      OBVIOUS
    <2>1. CASE UNCHANGED vars
      BY <2>1 DEF vars, table, locks, locals, disk, history, BInv, TypeOK, LocksHeld, FileInHand,
                  EveryFileWhole, BackupStillDue, SavedBelow
    <2>2. ASSUME NEW r \in Requests,
                 LoadPage(r) \/ AutoBackup(r) \/ OpenExport(r) \/ FinishExport(r) \/ GiveUp(r)
          PROVE  BInv'
      BY <2>2, QuietStep, FileStep, MarkStep, PruneStep, GiveUpStep
         DEF AutoBackup, FinishExport
    <2> QED BY <2>1, <2>2, CrashStep, OtherStep DEF Next
  <1> QED BY <1>1, InitBInv, PTL DEF Spec

-----------------------------------------------------------------------------

(* The state is well formed whatever requests, crashes and failures come.  *)
THEOREM WellFormedBackups ==
  Spec => []TypeOK
  <1>1. BInv => TypeOK
    BY DEF BInv
  <1> QED BY <1>1, BInvAlways, PTL

(* No crash leaves a partly written file under a backup's name.            *)
THEOREM FilesAreWhole ==
  Spec => []EveryFileWhole
  <1>1. BInv => EveryFileWhole
    BY DEF BInv
  <1> QED BY <1>1, BInvAlways, PTL

(* Two tabs never both write an automatic backup for the same items.       *)
THEOREM NoBackupTwice ==
  Spec => []BackupStillDue
  <1>1. BInv => BackupStillDue
    BY DEF BInv
  <1> QED BY <1>1, BInvAlways, PTL

(* The reminder never counts an item that a recorded backup holds, though  *)
(* ids come back.                                                          *)
THEOREM RemindersAreTrue ==
  Spec => []NoFalseAlarm
  <1>1. BInv => NoFalseAlarm
    <2> SUFFICES ASSUME BInv, NEW id \in saved, id \in items, id > watermark PROVE FALSE
      BY DEF NoFalseAlarm, NewItems
    <2>1. id \in Int /\ watermark \in Int /\ id <= watermark
      BY MaxRowidAssumption DEF BInv, TypeOK, SavedBelow, Rowids
    <2> QED BY <2>1
  <1> QED BY <1>1, BInvAlways, PTL

(* Pruning removes a file only when Keep newer ones stay: of the files     *)
(* above a surplus one, the last Keep are not surplus themselves.          *)
THEOREM PruningKeepsTheNewest ==
  Spec => OnlySurplusPruned
  <1>1. ASSUME BInv, NEW r \in Requests, Prune(r)
        PROVE  NewestStay
    <2>1. PICK stuck \in SUBSET Surplus : files' = Without(files, Surplus \ stuck)
      BY <1>1 DEF Prune
    <2>2. DOMAIN files' = DOMAIN files \ (Surplus \ stuck)
      BY <1>1, <2>1, WithoutDirectory DEF BInv, TypeOK
    <2>3. \A u \in DOMAIN files : u \in Nat /\ u <= MaxTime
      BY <1>1, BackupAssumption DEF BInv, TypeOK, IsDirectory, Times
    <2>4. ASSUME NEW t \in DOMAIN files \ DOMAIN files'
          PROVE  Cardinality({u \in DOMAIN files' : u > t}) >= Keep
      <3>1. t \in DOMAIN files /\ Cardinality({u \in DOMAIN files : u > t}) >= Keep
        BY <2>2 DEF Surplus
      <3>2. PICK newest \in SUBSET {u \in DOMAIN files : u > t} :
              /\ IsFiniteSet(newest) /\ Cardinality(newest) = Keep
              /\ \A u \in newest : Cardinality({v \in DOMAIN files : v > u}) < Keep
        <4> DEFINE all == DOMAIN files
        <4>1. /\ \A u \in all : u \in Nat /\ u <= MaxTime
              /\ t \in all /\ Cardinality(AllAbove(all, t)) >= Keep
              /\ MaxTime \in Nat /\ Keep \in Nat \ {0}
          BY <2>3, <3>1, BackupAssumption DEF AllAbove
        <4> HIDE DEF all
        <4>2. \E newest \in SUBSET AllAbove(all, t) :
                /\ IsFiniteSet(newest) /\ Cardinality(newest) = Keep
                /\ \A u \in newest : Cardinality(AllAbove(all, u)) < Keep
          BY ONLY <4>1, LastFew
        <4> QED BY <4>2 DEF all, AllAbove
      <3>3. newest \cap Surplus = {}
        <4> SUFFICES ASSUME NEW u \in newest, u \in Surplus PROVE FALSE
          OBVIOUS
        <4> DEFINE above == Cardinality({v \in DOMAIN files : v > u})
        <4>1. above < Keep /\ above >= Keep
          BY <3>2 DEF Surplus
        <4>2. above \in Nat
          <5>1. DOMAIN files \in SUBSET Nat /\ IsFiniteSet(DOMAIN files)
            <6>1. DOMAIN files \in SUBSET Nat
              BY <2>3
            <6> QED BY <6>1, <2>3, FS_BoundedSetOfNaturals, BackupAssumption
          <5> QED BY <5>1, FS_Subset, FS_CardinalityType
        <4> HIDE DEF above
        <4> QED BY <4>1, <4>2, BackupAssumption
      <3>4. newest \subseteq {u \in DOMAIN files' : u > t}
        BY <2>2, <3>2, <3>3
      <3>5. IsFiniteSet({u \in DOMAIN files' : u > t})
        <4>1. DOMAIN files \in SUBSET Nat
          BY <2>3
        <4>2. IsFiniteSet(DOMAIN files)
          BY <4>1, <2>3, FS_BoundedSetOfNaturals, BackupAssumption
        <4> QED BY <2>2, <4>2, FS_Subset
      <3> DEFINE rest == {u \in DOMAIN files' : u > t}
      <3>6. Keep <= Cardinality(rest) /\ Cardinality(rest) \in Nat
        <4> HIDE DEF rest
        <4>1. newest \in SUBSET rest /\ IsFiniteSet(rest)
          BY <3>4, <3>5 DEF rest
        <4> QED BY <3>2, <4>1, FS_Subset, FS_CardinalityType
      <3> QED BY <3>6, BackupAssumption
    <2> QED BY <2>4 DEF NewestStay
  <1>2. ASSUME BInv, [Next]_vars
        PROVE  [NewestStay]_vars
    <2>1. DOMAIN files \subseteq DOMAIN files' \/ \E r \in Requests : Prune(r)
      <3>1. ASSUME NEW r \in Requests, RenameFile(r)
            PROVE  DOMAIN files \subseteq DOMAIN files'
        BY <3>1 DEF RenameFile, Put
      <3> QED BY <1>2, <3>1
              DEF Next, vars, LoadPage, AutoBackup, ReadWatermark, CountNewItems, CreateTmp,
                  OpenFileRows, WriteFile, MarkFile, OpenExport, FinishExport, Stream, LockExport,
                  MarkExport, GiveUp, Crash, AddItems, DeleteItems, ReplaceItems, Tick, disk
    <2>2. CASE DOMAIN files \subseteq DOMAIN files'
      BY <2>2 DEF NewestStay
    <2> QED BY <1>1, <1>2, <2>1, <2>2
  <1>3. BInv /\ [Next]_vars => [NewestStay]_vars
    BY <1>2
  <1> QED BY <1>3, BInvAlways, PTL DEF Spec, OnlySurplusPruned
=============================================================================
