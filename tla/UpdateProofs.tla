---------------------------- MODULE UpdateProofs ----------------------------
(***************************************************************************)
(* Proofs about Update, for any requests, releases and snapshots kept.     *)
(***************************************************************************)
EXTENDS Update, SequenceTheorems, TLAPS

(* The request is past the lock and has not given it back.                 *)
Applying == {"ready", "downloaded", "damaged", "extracting", "extracted", "sane", "aside"}

(* A process that runs has a file, of the version it runs; one that does   *)
(* not will be started from path 0.                                        *)
ProcessHasFile ==
    /\ Works(running)
    /\ up => binary[executable] = running
    /\ ~up => executable = 0
    /\ \A r \in Requests : pc[r] # "idle" => up

(* What the holder of the lock has at its paths.                           *)
TargetInPlace ==
    \A r \in Requests :
        /\ pc[r] \in Applying \ {"aside"} => target[r] = executable
        /\ pc[r] = "aside" => executable = target[r] + 1
        /\ pc[r] \in {"sane", "aside"} => Works(fresh[target[r]])

OnlyWorkingFiles == \A p \in Paths : binary[p] = Missing \/ Works(binary[p])

RunningKept == \E p \in Paths : binary[p] = running

(* The newest snapshot is of the schema the database has.                  *)
SnapshotTaken == snapshots # <<>> /\ snapshots[Len(snapshots)] = schema

(* A request that is past its snapshot, and a file at path 0 that is not   *)
(* the one the database was migrated by, have a snapshot behind them.      *)
SnapshotBehind ==
    /\ \A r \in Requests : pc[r] \notin {"idle", "checked"} => SnapshotTaken
    /\ binary[0] = schema \/ SnapshotTaken

UInv ==
    /\ TypeOK
    /\ ProcessHasFile
    /\ TargetInPlace
    /\ OnlyWorkingFiles
    /\ SnapshotBehind
    /\ RunningKept

-----------------------------------------------------------------------------

(* A request that does not touch the binaries: it goes on, is refused or   *)
(* gives up.                                                               *)
LEMMA QuietStep ==
  ASSUME UInv, NEW r \in Requests,
         \/ CheckRelease(r) \/ SnapshotFails(r) \/ RefuseBusy(r) \/ Prepare(r)
         \/ PreflightFails(r) \/ Download(r) \/ DownloadFails(r) \/ RefuseDamaged(r)
         \/ BeginExtract(r) \/ FinishExtract(r) \/ ExtractFails(r) \/ SanityCheck(r)
         \/ SanityCheckFails(r) \/ MoveAsideFails(r) \/ Finish(r)
  PROVE  UInv'
  <1> USE UpdateAssumption
          DEF UInv, TypeOK, ProcessHasFile, TargetInPlace, OnlyWorkingFiles, RunningKept, SnapshotBehind,
              SnapshotTaken, Applying, Steps, Versions, Paths, Contents,
              files, data, process, requests, Goto, GiveUp, Discard
  <1>1. CASE CheckRelease(r)
    BY <1>1 DEF CheckRelease
  <1>2. CASE SnapshotFails(r)
    BY <1>2 DEF SnapshotFails
  <1>3. CASE RefuseBusy(r)
    BY <1>3 DEF RefuseBusy
  <1>4. CASE Prepare(r)
    BY <1>4 DEF Prepare
  <1>5. CASE PreflightFails(r)
    BY <1>5 DEF PreflightFails
  <1>6. CASE Download(r)
    BY <1>6 DEF Download
  <1>7. CASE DownloadFails(r)
    BY <1>7 DEF DownloadFails
  <1>8. CASE RefuseDamaged(r)
    BY <1>8 DEF RefuseDamaged
  <1>9. CASE BeginExtract(r)
    BY <1>9 DEF BeginExtract
  <1>10. CASE FinishExtract(r)
    BY <1>10 DEF FinishExtract
  <1>11. CASE ExtractFails(r)
    BY <1>11 DEF ExtractFails
  <1>12. CASE SanityCheck(r)
    BY <1>12 DEF SanityCheck
  <1>13. CASE SanityCheckFails(r)
    BY <1>13 DEF SanityCheckFails
  <1>14. CASE MoveAsideFails(r)
    BY <1>14 DEF MoveAsideFails
  <1>15. CASE Finish(r)
    BY <1>15 DEF Finish
  <1>16. QED
    BY <1>1, <1>2, <1>3, <1>4, <1>5, <1>6, <1>7, <1>8, <1>9, <1>10, <1>11, <1>12, <1>13, <1>14, <1>15

-----------------------------------------------------------------------------

(* The first installation is at path 0 and its schema is its own.          *)
LEMMA InitInv == Init => UInv
  <1> SUFFICES ASSUME Init PROVE UInv
    OBVIOUS
  <1> USE UpdateAssumption DEF Init
  <1>1. 0 \in Paths /\ 1 \in Versions /\ Works(1)
    BY DEF Paths, Versions, Works
  <1>2. snapshots \in Seq(Versions) /\ Len(snapshots) <= SnapshotKeep
    OBVIOUS
  <1>3. target \in [Requests -> 0..(MaxPath - 1)]
    OBVIOUS
  <1>4. TypeOK
    BY <1>1, <1>2, <1>3 DEF TypeOK, Contents, Steps
  <1>5. /\ ProcessHasFile /\ TargetInPlace /\ OnlyWorkingFiles /\ SnapshotBehind
        /\ RunningKept
    BY <1>1 DEF ProcessHasFile, TargetInPlace, OnlyWorkingFiles, RunningKept, SnapshotBehind,
                Applying
  <1>6. QED
    BY <1>4, <1>5 DEF UInv

(* The snapshot taken is the newest, and pruning the oldest leaves it.     *)
LEMMA SnapshotInv ==
  ASSUME UInv, NEW r \in Requests, Snapshot(r)
  PROVE  UInv'
  <1> USE UpdateAssumption DEF UInv, TypeOK
  <1> DEFINE all     == Append(snapshots, schema)
             surplus == IF Len(all) > SnapshotKeep THEN Len(all) - SnapshotKeep ELSE 0
  <1>1. /\ all \in Seq(Versions)
        /\ Len(all) = Len(snapshots) + 1
        /\ all[Len(all)] = schema
        /\ Len(snapshots) \in Nat
    OBVIOUS
  <1> HIDE DEF all
  <1>2. /\ surplus \in Nat
        /\ surplus < Len(all)
        /\ Len(all) - surplus <= SnapshotKeep
    BY <1>1
  <1> HIDE DEF surplus
  <1>3. snapshots' = SubSeq(all, surplus + 1, Len(all))
    BY DEF Snapshot, all, surplus
  <1>4. /\ snapshots' \in Seq(Versions)
        /\ Len(snapshots') = Len(all) - surplus
        /\ snapshots'[Len(snapshots')] = schema
    <2>1. /\ surplus + 1 \in Int /\ Len(all) \in Int
          /\ surplus + 1 <= Len(all)
          /\ \A k \in (surplus + 1)..Len(all) : all[k] \in Versions
      BY <1>1, <1>2
    <2>2. /\ snapshots' \in Seq(Versions)
          /\ Len(snapshots') = Len(all) - (surplus + 1) + 1
          /\ \A k \in 1..(Len(all) - (surplus + 1) + 1) :
                 snapshots'[k] = all[surplus + 1 + k - 1]
      BY <1>3, <2>1, SubSeqProperties
    <2>3. /\ Len(snapshots') = Len(all) - surplus
          /\ Len(all) - surplus \in 1..(Len(all) - (surplus + 1) + 1)
          /\ surplus + 1 + (Len(all) - surplus) - 1 = Len(all)
      BY <1>1, <1>2, <2>1, <2>2
    <2>4. snapshots'[Len(all) - surplus] = all[Len(all)]
      BY <2>2, <2>3
    <2>5. QED
      BY <1>1, <2>2, <2>3, <2>4
  <1>5. TypeOK'
    BY <1>2, <1>4 DEF Snapshot, Goto, files, process, Steps
  <1>6. SnapshotTaken'
    <2>1. schema' = schema
      BY DEF Snapshot
    <2>2. Len(snapshots') # 0
      <3> HIDE UpdateAssumption DEF UInv, TypeOK
      <3>1. QED
        BY <1>1, <1>2, <1>4
    <2>3. snapshots' # <<>>
      BY <2>2
    <2>4. QED
      BY <1>4, <2>1, <2>3 DEF SnapshotTaken
  <1>7. ProcessHasFile' /\ TargetInPlace' /\ OnlyWorkingFiles'
    BY DEF Snapshot, Goto, files, process, Steps,
           ProcessHasFile, TargetInPlace, OnlyWorkingFiles, Applying
  <1>8. RunningKept'
    BY DEF Snapshot, files, process, RunningKept
  <1>9. QED
    BY <1>5, <1>6, <1>7, <1>8 DEF SnapshotBehind

(* The binary moves with the process: it is still there, one .old further. *)
LEMMA MoveAsideInv ==
  ASSUME UInv, NEW r \in Requests, MoveAside(r)
  PROVE  UInv'
  <1> USE UpdateAssumption DEF UInv, TypeOK, MoveAside, Goto, data, Applying, Steps
  <1>1. /\ target[r] \in Paths /\ target[r] + 1 \in Paths
        /\ target[r] # target[r] + 1
        /\ executable = target[r]
        /\ binary[target[r]] = running /\ Works(running) /\ Works(fresh[target[r]])
        /\ up
    BY DEF ProcessHasFile, TargetInPlace, Paths
  <1>2. /\ binary' = [binary EXCEPT ![target[r] + 1] = binary[target[r]],
                                    ![target[r]] = Missing]
        /\ executable' = target[r] + 1
    BY <1>1 DEF Rename
  <1>3. /\ binary' \in [Paths -> Contents]
        /\ executable' \in Paths
        /\ binary'[executable'] = running'
    BY <1>1, <1>2 DEF Contents
  <1>4. TypeOK'
    BY <1>3
  <1>5. ProcessHasFile' /\ TargetInPlace'
    BY <1>1, <1>2, <1>3 DEF ProcessHasFile, TargetInPlace
  <1>6. OnlyWorkingFiles'
    BY <1>1, <1>2 DEF OnlyWorkingFiles
  <1>7. SnapshotBehind'
    BY DEF SnapshotBehind, SnapshotTaken
  <1>8. RunningKept'
    BY <1>3 DEF RunningKept
  <1>9. QED
    BY <1>4, <1>5, <1>6, <1>7, <1>8

(* The tested binary takes the place that was made for it.                 *)
LEMMA InstallInv ==
  ASSUME UInv, NEW r \in Requests, Install(r)
  PROVE  UInv'
  <1> USE UpdateAssumption DEF UInv, TypeOK, Install, Goto, Discard, data, process, Applying, Steps
  <1>1. /\ target[r] \in Paths
        /\ executable = target[r] + 1
        /\ Works(fresh[target[r]])
        /\ binary' = [binary EXCEPT ![target[r]] = fresh[target[r]]]
    BY DEF TargetInPlace, Paths
  <1>2. TypeOK'
    BY <1>1 DEF Contents
  <1>3. /\ executable \in Paths /\ binary'[executable] = running
        /\ running' = running /\ executable' = executable /\ Works(running)
    <2>1. up /\ binary[executable] = running /\ Works(running)
      BY DEF ProcessHasFile
    <2>2. executable # target[r]
      BY <1>1 DEF Paths
    <2>3. QED
      BY <1>1, <2>1, <2>2
  <1>4. ProcessHasFile' /\ RunningKept'
    <2>1. ProcessHasFile'
      BY <1>3 DEF ProcessHasFile
    <2>2. RunningKept'
      BY <1>3 DEF RunningKept
    <2>3. QED
      BY <2>1, <2>2
  <1>5. TargetInPlace'
    BY <1>1 DEF TargetInPlace, Paths
  <1>6. OnlyWorkingFiles'
    BY <1>1 DEF OnlyWorkingFiles
  <1>7. SnapshotBehind'
    BY DEF SnapshotBehind, SnapshotTaken
  <1>8. QED
    BY <1>2, <1>4, <1>5, <1>6, <1>7

(* The first rename is undone, or the binary stays where it was put aside. *)
LEMMA InstallFailsInv ==
  ASSUME UInv, NEW r \in Requests, InstallFails(r)
  PROVE  UInv'
  <1> USE UpdateAssumption DEF UInv, TypeOK, InstallFails, GiveUp, Discard, data, Applying, Steps
  <1>1. /\ target[r] \in Paths /\ target[r] + 1 \in Paths
        /\ target[r] # target[r] + 1
        /\ executable = target[r] + 1
        /\ binary[executable] = running /\ running' = running /\ up
    BY DEF ProcessHasFile, TargetInPlace, Paths
  <1>2. /\ binary' \in [Paths -> Contents]
        /\ executable' \in Paths
        /\ binary'[executable'] = running'
        /\ OnlyWorkingFiles'
    <2>1. CASE Rename(target[r] + 1, target[r])
      <3>1. /\ binary' = [binary EXCEPT ![target[r]] = binary[target[r] + 1],
                                        ![target[r] + 1] = Missing]
            /\ executable' = target[r]
        BY <1>1, <2>1 DEF Rename
      <3>2. QED
        BY <1>1, <3>1 DEF Contents, OnlyWorkingFiles
    <2>2. CASE UNCHANGED <<binary, executable>>
      BY <1>1, <2>2 DEF OnlyWorkingFiles
    <2>3. QED
      BY <2>1, <2>2
  <1>3. TypeOK'
    BY <1>2 DEF Contents
  <1>4. ProcessHasFile' /\ TargetInPlace'
    BY <1>2 DEF ProcessHasFile, TargetInPlace
  <1>5. SnapshotBehind'
    BY DEF SnapshotBehind, SnapshotTaken
  <1>6. RunningKept'
    BY <1>2 DEF RunningKept
  <1>7. QED
    BY <1>2, <1>3, <1>4, <1>5, <1>6

(* The process may end at any moment.                                      *)
LEMMA StopInv ==
  ASSUME UInv, Stop
  PROVE  UInv'
  <1> USE UpdateAssumption DEF UInv, TypeOK, Stop, files, data, Applying, Steps
  <1>1. executable' \in Paths /\ pc' \in [Requests -> Steps]
    BY DEF Paths
  <1>2. TypeOK'
    BY <1>1
  <1>3. ProcessHasFile' /\ TargetInPlace' /\ OnlyWorkingFiles'
    BY DEF ProcessHasFile, TargetInPlace, OnlyWorkingFiles
  <1>4. SnapshotBehind' /\ RunningKept'
    BY DEF SnapshotBehind, SnapshotTaken, RunningKept
  <1>5. QED
    BY <1>2, <1>3, <1>4

(* What starts is a version, and the database is migrated by it.           *)
LEMMA StartInv ==
  ASSUME UInv, Start
  PROVE  UInv'
  <1> USE UpdateAssumption DEF UInv, TypeOK, Start, files, requests, Applying, Steps
  <1>1. binary[0] \in Versions /\ \A r \in Requests : pc[r] = "idle"
    BY DEF ProcessHasFile, Works
  <1>2. TypeOK'
    BY <1>1
  <1>3. ProcessHasFile' /\ TargetInPlace' /\ OnlyWorkingFiles'
    BY <1>1 DEF ProcessHasFile, TargetInPlace, OnlyWorkingFiles
  <1>4. SnapshotBehind' /\ RunningKept'
    BY <1>1 DEF SnapshotBehind, RunningKept, Paths
  <1>5. QED
    BY <1>2, <1>3, <1>4

(* No file at path 0 is no file of the schema's version.                   *)
LEMMA RestoreByHandInv ==
  ASSUME UInv, RestoreByHand
  PROVE  UInv'
  <1> USE UpdateAssumption DEF UInv, TypeOK, data, process, requests, Applying, Steps
  <1>1. PICK p \in Paths : /\ Works(binary[p])
                           /\ binary' = [binary EXCEPT ![0] = binary[p], ![p] = Missing]
    BY DEF RestoreByHand
  <1>2. /\ ~up /\ binary[0] = Missing
        /\ UNCHANGED <<latest, fresh, data, process, busy, requests, restarting>>
    BY DEF RestoreByHand
  <1>3. 0 \in Paths /\ p # 0 /\ binary[0] # schema
    <2>1. Missing \notin Versions
      BY DEF Versions
    <2>2. QED
      BY <1>1, <1>2, <2>1 DEF Works, Paths
  <1>4. TypeOK'
    BY <1>1, <1>2, <1>3 DEF Contents
  <1>5. ProcessHasFile' /\ TargetInPlace'
    BY <1>2 DEF ProcessHasFile, TargetInPlace
  <1>6. OnlyWorkingFiles'
    BY <1>1, <1>3 DEF OnlyWorkingFiles
  <1>7. SnapshotBehind'
    BY <1>2, <1>3 DEF SnapshotBehind, SnapshotTaken
  <1>8. RunningKept'
    <2>1. PICK q \in Paths : binary[q] = running
      BY DEF RunningKept
    <2>2. q # 0 /\ running' = running
      <3>1. Missing \notin Versions /\ running \in Versions
        BY DEF Versions
      <3>2. running' = running
        BY <1>2
      <3>3. QED
        BY <1>2, <2>1, <3>1, <3>2
    <2>3. CASE q = p
      <3>1. binary'[0] = binary[p]
        BY <1>1, <1>3
      <3>2. binary'[0] = running
        BY <2>1, <2>3, <3>1
      <3>3. QED
        BY <1>3, <2>2, <3>2 DEF RunningKept
    <2>4. CASE q # p
      <3>1. binary'[q] = running
        BY <1>1, <2>1, <2>2, <2>4
      <3>2. QED
        BY <2>2, <3>1 DEF RunningKept
    <2>5. QED
      BY <2>3, <2>4
  <1>9. QED
    BY <1>4, <1>5, <1>6, <1>7, <1>8

(* Every step preserves the invariant.                                     *)
LEMMA StepInv == UInv /\ [Next]_vars => UInv'
  <1> SUFFICES ASSUME UInv, [Next]_vars PROVE UInv'
    OBVIOUS
  <1>1. ASSUME NEW r \in Requests, CheckRelease(r) \/ ApplyStep(r) PROVE UInv'
    BY <1>1, QuietStep, SnapshotInv, MoveAsideInv, InstallInv, InstallFailsInv DEF ApplyStep
  <1>2. ASSUME Publish PROVE UInv'
    BY <1>2, UpdateAssumption
       DEF Publish, files, data, process, requests, UInv, TypeOK, ProcessHasFile,
           TargetInPlace, OnlyWorkingFiles, RunningKept, SnapshotBehind, SnapshotTaken, Versions
  <1>3. ASSUME Restart \/ Stop PROVE UInv'
    BY <1>3, StopInv DEF Restart
  <1>4. ASSUME Start \/ RestoreByHand PROVE UInv'
    BY <1>4, StartInv, RestoreByHandInv
  <1>5. CASE UNCHANGED vars
    BY <1>5 DEF vars, files, data, process, requests, UInv, TypeOK, ProcessHasFile,
                TargetInPlace, OnlyWorkingFiles, RunningKept, SnapshotBehind, SnapshotTaken
  <1>6. QED
    BY <1>1, <1>2, <1>3, <1>4, <1>5 DEF Next

-----------------------------------------------------------------------------

(* The invariant holds in every behaviour of Update.                       *)
THEOREM UpdateInvariance == Spec => []UInv
  BY InitInv, StepInv, PTL DEF Spec

(* Type correctness of Update, and that two requests are never both past   *)
(* the lock.  (Apply's TryLock)                                            *)
THEOREM UpdateTypeCorrect == Spec => []TypeOK
  <1>1. UInv => TypeOK
    BY DEF UInv
  <1>2. QED
    BY UpdateInvariance, <1>1, PTL

(* Wherever an update fails or is cut off, no file under a binary's name   *)
(* is damaged or untested, and the file of the version that ran last is    *)
(* among them, in place or put aside.  (swapBinary)                        *)
THEOREM BinaryNeverLost == Spec => []BinaryKept
  <1>1. UInv => BinaryKept
    BY DEF UInv, OnlyWorkingFiles, RunningKept, BinaryKept
  <1>2. QED
    BY UpdateInvariance, <1>1, PTL

(* The database is never migrated without a snapshot of the schema it had. *)
(* (ApplyUpdate takes it before Apply; snapshotDB prunes the oldest)       *)
THEOREM MigrationAfterSnapshot == Spec => SnapshotBeforeMigration
  <1>1. ASSUME UInv, [Next]_vars, schema' # schema
        PROVE  \E k \in DOMAIN snapshots : snapshots[k] = schema
    <2>1. binary[0] # schema
      BY <1>1 DEF Next, ApplyStep, CheckRelease, Snapshot, SnapshotFails, RefuseBusy, Prepare,
             PreflightFails, Download, DownloadFails, RefuseDamaged, BeginExtract, FinishExtract,
             ExtractFails, SanityCheck, SanityCheckFails, MoveAside, MoveAsideFails, Install,
             InstallFails, Finish, GiveUp, Publish, Restart, Stop, Start, RestoreByHand, data, vars
    <2>2. SnapshotTaken
      BY <1>1, <2>1 DEF UInv, SnapshotBehind
    <2>3. Len(snapshots) \in DOMAIN snapshots
      BY <1>1, <2>2 DEF UInv, TypeOK, SnapshotTaken
    <2>4. QED
      BY <2>2, <2>3 DEF SnapshotTaken
  <1>2. UInv /\ [Next]_vars =>
            [schema' # schema => \E k \in DOMAIN snapshots : snapshots[k] = schema]_vars
    BY <1>1
  <1>3. QED
    BY UpdateInvariance, <1>2, PTL DEF Spec, SnapshotBeforeMigration
=============================================================================
