---- MODULE UpdateServiceProofs ----
(*****************************************************************************)
(* Proofs about UpdateService for any payload, any coverage of the backup    *)
(* and any number of updates, whatever fails and whoever crashes.            *)
(*                                                                           *)
(* OriginalsAreRecoverable looks at the disk alone.  It is inductive only    *)
(* together with how far the three writers of the disk have come: the update *)
(* itself, its own undoing, and the rollback of the controller.  At most one *)
(* of them is at work, unless a rollback began under a running update.       *)
(*****************************************************************************)
EXTENDS UpdateService, TLAPS

RollingBack == {"manifest", "undo", "copyEntry", "list", "relist", "copyBack", "removeDir"}
Transacting == {"retain", "promote", "commit", "undo", "remove"}

(* The promise is on: nothing has shown the update to be good, and no        *)
(* rollback has begun under a running one.                                   *)
AtStake == ~verified /\ ~abandoned

(* Originals and their manifest lie in .update-backup.                       *)
DirInv ==
    /\ ~dir => saved = NoFiles /\ kept = NoFiles /\ ~hasManifest
    /\ kind = "command" => ~hasManifest /\ kept = NoFiles

(* The code of an update runs in a live execution of that kind.              *)
UpdaterInv ==
    /\ updater.pc # "none" => Updating
    /\ updater.pc = "command" => kind = "command"
    /\ updater.pc \notin {"none", "command"} => kind = "staged"
    /\ updater.pc \in {"retain", "promote", "undo"} => updater.entry \in Path
    /\ updater.pc # "none" /\ AtStake => dir
    /\ updater.pc \in Transacting /\ AtStake => hasManifest

(* Where the operation may be while an update runs.                          *)
OpInv ==
    /\ op.pc \in {"backup", "promote", "update"} => ~Updating
    /\ op.pc = "update" => dir /\ AtStake
    /\ op.pc = "cleanup" => verified
    /\ op.pc \in RollingBack => abandoned \/ ~Updating
    /\ op.pc \in {"undo", "copyEntry"} => op.entry \in Path
    /\ kind = "command" => op.pc \notin {"undo", "copyEntry", "relist"}

(* Every copy is one of the original; a path without a copy still holds it.  *)
CopiesInv ==
    dir /\ AtStake =>
        /\ \A p \in Path : saved[p] # NoFile => saved[p] = base[p]
        /\ \A p \in Path : kept[p] # NoFile => kept[p] = base[p]
        /\ hasManifest => existed = {p \in Path : base[p] # NoFile}
        /\ \A p \in Path : hasManifest /\ p \in existed /\ kept[p] = NoFile => live[p] = base[p]
        /\ kind = "staged" /\ ~hasManifest => live = base
        /\ kind = "command" =>
               \A p \in Covered : base[p] # NoFile /\ saved[p] = NoFile => live[p] = base[p]
        /\ op.pc = "update" \/ updater.pc # "none" => \A p \in Covered : saved[p] = base[p]

(* What the update has not reached yet, and what has been undone already.    *)
ProgressInv ==
    dir /\ AtStake =>
        /\ updater.pc = "retain" => \A p \in Path : p >= updater.entry => live[p] = base[p]
        /\ updater.pc = "promote" =>
               /\ \A p \in Path : p > updater.entry => live[p] = base[p]
               /\ updater.entry \in existed => kept[updater.entry] # NoFile
        /\ updater.pc = "undo" /\ ~updater.failed =>
               \A p \in Path : p > updater.entry => live[p] = base[p]
        /\ updater.pc = "remove" /\ ~updater.failed => live = base
        /\ op.pc \in {"undo", "copyEntry"} =>
               /\ hasManifest
               /\ \A p \in Path : p > op.entry => live[p] = base[p]
        /\ op.pc = "list" => ~hasManifest
        /\ op.pc \in {"relist", "copyBack"} /\ kind = "staged" => live = base
        /\ op.pc = "removeDir" => \A p \in Promised : live[p] = base[p]

IInv == TypeOK /\ DirInv /\ UpdaterInv /\ OpInv /\ CopiesInv /\ ProgressInv

(* Records that are built or changed stay in their sets.                     *)
LEMMA RecordTypes ==
    /\ NoOp \in Operations /\ NoUpdater \in Updaters
    /\ NoExecution \in Executions /\ Server \in Executions
    /\ \A n \in Version : Update(n) \in Executions
    /\ \A o \in Operations, pc \in OpPlaces : [o EXCEPT !.pc = pc] \in Operations
    /\ \A o \in Operations, pc \in OpPlaces, w \in BOOLEAN :
           [o EXCEPT !.pc = pc, !.wasRunning = w] \in Operations
    /\ \A o \in Operations, pc \in OpPlaces, e \in 0..Paths :
           [o EXCEPT !.pc = pc, !.entry = e] \in Operations
    /\ \A pc \in UpdaterPlaces, e \in 0..Paths : UpdaterAt(pc, e) \in Updaters
    /\ \A pc \in UpdaterPlaces, e \in 0..Paths, f \in BOOLEAN :
           [pc |-> pc, entry |-> e, failed |-> f] \in Updaters
    /\ \A x \in Executions, ok \in BOOLEAN :
           /\ [x EXCEPT !.alive = FALSE] \in Executions
           /\ [x EXCEPT !.alive = FALSE, !.ok = ok] \in Executions
           /\ [id |-> x.id, ok |-> ok] \in Exits
<1>1. 0 \in 0..Paths /\ 0 \in Version
    BY UpdateAssumption DEF Version
<1>2. NoOp \in Operations
    BY <1>1 DEF NoOp, Operations, OpPlaces
<1>3. NoUpdater \in Updaters
    BY <1>1 DEF NoUpdater, Updaters, UpdaterPlaces
<1>4. NoExecution \in Executions /\ Server \in Executions
    BY <1>1 DEF NoExecution, Server, Executions
<1>5. \A n \in Version : Update(n) \in Executions
    BY DEF Update, Executions
<1>6. \A o \in Operations, pc \in OpPlaces : [o EXCEPT !.pc = pc] \in Operations
    BY DEF Operations
<1>7. \A o \in Operations, pc \in OpPlaces, w \in BOOLEAN :
          [o EXCEPT !.pc = pc, !.wasRunning = w] \in Operations
    BY DEF Operations
<1>8. \A o \in Operations, pc \in OpPlaces, e \in 0..Paths :
          [o EXCEPT !.pc = pc, !.entry = e] \in Operations
    BY DEF Operations
<1>9. \A pc \in UpdaterPlaces, e \in 0..Paths, f \in BOOLEAN :
          [pc |-> pc, entry |-> e, failed |-> f] \in Updaters
    BY DEF Updaters
<1>10. \A pc \in UpdaterPlaces, e \in 0..Paths : UpdaterAt(pc, e) \in Updaters
    BY <1>9 DEF UpdaterAt
<1>11. \A x \in Executions, ok \in BOOLEAN :
          /\ [x EXCEPT !.alive = FALSE] \in Executions
          /\ [x EXCEPT !.alive = FALSE, !.ok = ok] \in Executions
          /\ [id |-> x.id, ok |-> ok] \in Exits
    BY DEF Executions, Exits
<1> QED BY <1>2, <1>3, <1>4, <1>5, <1>6, <1>7, <1>8, <1>9, <1>10, <1>11

(* The fields of the records, where their values matter.                     *)
LEMMA FieldTypes ==
    ASSUME TypeOK
    PROVE  /\ op.pc \in OpPlaces /\ op.wasRunning \in BOOLEAN /\ op.entry \in 0..Paths
           /\ updater.pc \in UpdaterPlaces /\ updater.entry \in 0..Paths
           /\ updater.failed \in BOOLEAN
           /\ exec.alive \in BOOLEAN /\ exec.ok \in BOOLEAN /\ exec.id \in Version
BY DEF TypeOK, Operations, Updaters, Executions

(* The operation moves to the entry before, or past the first one.           *)
LEMMA NextEntryTypes ==
    ASSUME TypeOK, op.entry \in Path, NextEntry
    PROVE  op' \in Operations
<1> DEFINE pc == IF op.entry = 1 THEN "relist" ELSE "undo"
           entry == IF op.entry = 1 THEN 0 ELSE op.entry - 1
<1>1. pc \in OpPlaces /\ op \in Operations
    BY DEF OpPlaces, TypeOK
<1>2. entry \in 0..Paths
    BY UpdateAssumption DEF Path
<1>3. op' = [op EXCEPT !.pc = pc, !.entry = entry]
    BY DEF NextEntry
<1> HIDE DEF pc, entry
<1> QED BY <1>1, <1>2, <1>3, RecordTypes, Zenon

(* The state that a step of the update leaves alone.                         *)
ControllerTyped ==
    /\ kind \in Kinds
    /\ op \in Operations /\ ops \in Version
    /\ outcome \in {"none", "running", "failed", "succeeded", "restored", "retained"}
    /\ base \in [Path -> Content] /\ verified \in BOOLEAN /\ abandoned \in BOOLEAN

(* A step of the update that is not its last.                                *)
LEMMA UpdaterGoesTypes ==
    ASSUME TypeOK, NEW u \in Updaters, UpdaterGoes(u)
    PROVE  exec' \in Executions /\ exits' \subseteq Exits /\ updater' \in Updaters /\ ControllerTyped'
BY DEF UpdaterGoes, TypeOK, ControllerTyped, controller, history

(* Its last step.                                                            *)
LEMMA UpdateEndsTypes ==
    ASSUME TypeOK, NEW ok \in BOOLEAN, UpdateEnds(ok)
    PROVE  exec' \in Executions /\ exits' \subseteq Exits /\ updater' \in Updaters /\ ControllerTyped'
BY RecordTypes DEF UpdateEnds, TypeOK, ControllerTyped, controller, history

(* GoTo changes the place of the operation only.                             *)
LEMMA GoToMoves ==
    ASSUME TypeOK, NEW pc, GoTo(pc)
    PROVE  op'.pc = pc /\ op'.entry = op.entry
BY DEF GoTo, TypeOK, Operations

(* An execution that ends is no longer alive.                                *)
LEMMA EndsMoves ==
    ASSUME TypeOK
    PROVE  /\ \A ok : exec' = [exec EXCEPT !.alive = FALSE, !.ok = ok] => ~exec'.alive
           /\ exec' = [exec EXCEPT !.alive = FALSE] => ~exec'.alive
BY DEF TypeOK, Executions

(* A rollback that begins under a running update abandons it.                *)
LEMMA RollBackMoves ==
    ASSUME TypeOK, RollBack
    PROVE  op'.pc = "manifest" /\ (abandoned \/ Updating => abandoned')
BY GoToMoves DEF RollBack, TypeOK

(* A step of an update leaves the controller and the execution alone.        *)
LEMMA UpdaterGoesMoves ==
    ASSUME NEW pc, NEW entry, UpdaterGoes(UpdaterAt(pc, entry))
    PROVE  /\ updater'.pc = pc /\ updater'.entry = entry
           /\ UNCHANGED <<kind, exec, op, verified, abandoned, base>>
BY DEF UpdaterGoes, UpdaterAt, controller, history

(* The last step of an update ends its execution.                            *)
LEMMA UpdateEndsMoves ==
    ASSUME TypeOK, NEW ok, UpdateEnds(ok)
    PROVE  /\ updater'.pc = "none" /\ ~exec'.alive
           /\ UNCHANGED <<kind, op, verified, abandoned, base>>
BY DEF UpdateEnds, NoUpdater, TypeOK, Executions, controller, history

(* Where an operation goes when it begins.                                   *)
LEMMA BeginMoves ==
    ASSUME TypeOK, Begin
    PROVE  op'.pc \in {"idle", "stop", "backup"} /\ (op'.pc = "backup" => ~exec.alive)
<1>1. CASE op' = NoOp
    BY <1>1 DEF NoOp
<1>2. CASE op' = [NoOp EXCEPT !.pc = IF exec.alive THEN "stop" ELSE "backup",
                              !.wasRunning = exec.alive]
    BY <1>2 DEF NoOp
<1> QED BY <1>1, <1>2 DEF Begin, Finish

(* When it has read the manifest.                                            *)
LEMMA ReadManifestMoves ==
    ASSUME TypeOK, ReadManifest
    PROVE  \/ op'.pc = "idle"
           \/ hasManifest /\ op'.pc = "undo" /\ op'.entry = Paths
           \/ ~hasManifest /\ op'.pc = "list"
<1>1. CASE op' = NoOp
    BY <1>1 DEF NoOp
<1>2. CASE op' = [op EXCEPT !.pc = IF hasManifest THEN "undo" ELSE "list",
                            !.entry = IF hasManifest THEN Paths ELSE 0]
  <2>1. CASE hasManifest
      BY <1>2, <2>1 DEF TypeOK, Operations
  <2>2. CASE ~hasManifest
      BY <1>2, <2>2 DEF TypeOK, Operations
  <2> QED BY <2>1, <2>2
<1> QED BY <1>1, <1>2 DEF ReadManifest, Retain, Finish

(* After an entry.                                                           *)
LEMMA NextEntryMoves ==
    ASSUME TypeOK, NextEntry, op.entry \in Path
    PROVE  \/ op.entry = 1 /\ op'.pc = "relist"
           \/ op.entry # 1 /\ op'.pc = "undo" /\ op'.entry = op.entry - 1
<1>1. CASE op.entry = 1
    BY <1>1 DEF NextEntry, TypeOK, Operations
<1>2. CASE op.entry # 1
    BY <1>2 DEF NextEntry, TypeOK, Operations
<1> QED BY <1>1, <1>2

(* The same for the undoing of an update.                                    *)
LEMMA UndoNextMoves ==
    ASSUME TypeOK, NEW failed \in BOOLEAN, UndoNext(failed), updater.entry \in Path
    PROVE  /\ \/ updater.entry = 1 /\ updater'.pc = "remove"
              \/ updater.entry # 1 /\ updater'.pc = "undo" /\ updater'.entry = updater.entry - 1
           /\ updater'.failed = (updater.failed \/ failed)
<1>1. CASE updater.entry = 1
    BY <1>1 DEF UndoNext, UpdaterGoes
<1>2. CASE updater.entry # 1
    BY <1>2 DEF UndoNext, UpdaterGoes
<1> QED BY <1>1, <1>2

(* Every step of the controller keeps the types.                             *)
LEMMA ControllerTypes ==
    ASSUME IInv, Begin \/ Operation \/ ControllerCrash
    PROVE  TypeOK'
<1>t. TypeOK /\ op \in Operations /\ ops \in Version
    BY DEF IInv, TypeOK
<1>b. Begin => op' \in Operations /\ ops' \in Version
  <2> DEFINE pc == IF exec.alive THEN "stop" ELSE "backup"
  <2>1. pc \in OpPlaces
      BY DEF OpPlaces
  <2>2. NoOp \in Operations /\ exec.alive \in BOOLEAN
      BY <1>t, RecordTypes, FieldTypes
  <2>3. Begin => op' = [NoOp EXCEPT !.pc = pc, !.wasRunning = exec.alive] \/ op' = NoOp
      BY DEF Begin, Finish
  <2>4. Begin => ops' \in Version
      BY <1>t, UpdateAssumption DEF Begin, Version
  <2> HIDE DEF pc
  <2>5. [NoOp EXCEPT !.pc = pc, !.wasRunning = exec.alive] \in Operations
      BY <2>1, <2>2, RecordTypes, Zenon
  <2>6. Begin => op' \in Operations
      BY <2>2, <2>3, <2>5
  <2> QED BY <2>4, <2>6
<1>u. StartUpdate => updater' \in Updaters /\ exec' \in Executions
  <2>1. 0 \in 0..Paths /\ "stage" \in UpdaterPlaces /\ "command" \in UpdaterPlaces
      BY UpdateAssumption DEF UpdaterPlaces
  <2> QED BY <1>t, <2>1, RecordTypes DEF StartUpdate
<1> DEFINE FilesTyped == /\ live \in [Path -> Content] /\ saved \in [Path -> Content]
                         /\ kept \in [Path -> Content] /\ dir \in BOOLEAN
                         /\ hasManifest \in BOOLEAN /\ existed \subseteq Path
           NodeTyped == exec \in Executions /\ exits \subseteq Exits /\ updater \in Updaters
           ReportTyped == /\ outcome \in {"none", "running", "failed", "succeeded", "restored", "retained"}
                          /\ base \in [Path -> Content]
                          /\ verified \in BOOLEAN /\ abandoned \in BOOLEAN
<1>s. FilesTyped /\ NodeTyped /\ ReportTyped /\ kind \in Kinds
    BY DEF IInv, TypeOK
<1>q. ASSUME FilesTyped', NodeTyped', ReportTyped', op' \in Operations, kind' = kind, ops' \in Version
      PROVE  TypeOK'
    BY <1>s, <1>q DEF TypeOK
<1>h. UNCHANGED files => FilesTyped'
    BY <1>s DEF files
<1>c. UNCHANGED history /\ outcome' \in {"none", "running", "failed", "succeeded", "restored", "retained"}
          => ReportTyped'
    BY <1>s DEF history
<1>m. ReadManifest => op' \in Operations
  <2> DEFINE pc == IF hasManifest THEN "undo" ELSE "list"
             entry == IF hasManifest THEN Paths ELSE 0
  <2>1. pc \in OpPlaces
      BY DEF OpPlaces
  <2>2. entry \in 0..Paths
      BY UpdateAssumption
  <2>3. ReadManifest => op' = [op EXCEPT !.pc = pc, !.entry = entry] \/ op' = NoOp
      BY DEF ReadManifest, Retain, Finish
  <2> HIDE DEF pc, entry
  <2>4. [op EXCEPT !.pc = pc, !.entry = entry] \in Operations
      BY <1>t, <2>1, <2>2, RecordTypes, Zenon
  <2>5. NoOp \in Operations
      BY RecordTypes
  <2> QED BY <2>3, <2>4, <2>5
<1>g. ASSUME NEW pc \in {"offline", "backup", "promote", "update", "wait", "restart", "online",
                         "cleanup", "manifest", "copyEntry", "copyBack", "removeDir",
                         "restartOld", "onlineOld"}, GoTo(pc)
      PROVE  op' \in Operations
  <2>1. pc \in OpPlaces
      BY DEF OpPlaces
  <2> QED BY <1>t, <1>g, <2>1, RecordTypes DEF GoTo
<1>i. NoOp \in Operations
    BY RecordTypes
<1>r. RollBack => op' \in Operations /\ ReportTyped'
  <2>1. RollBack => op' \in Operations
      BY <1>g DEF RollBack
  <2> QED BY <1>s, <2>1 DEF RollBack, ReportTyped
<1>o. UpdateIsGood => op' \in Operations /\ ReportTyped'
  <2>1. UpdateIsGood => op' \in Operations
      BY <1>g DEF UpdateIsGood
  <2> QED BY <1>s, <2>1 DEF UpdateIsGood, ReportTyped
<1>a. GiveUpBackup => op' \in Operations /\ outcome' = "failed"
    BY <1>g, <1>i DEF GiveUpBackup
<1>e. Retain => op' \in Operations /\ ReportTyped' /\ NodeTyped' /\ UNCHANGED <<kind, ops>>
    BY <1>i, <1>s DEF Retain, Finish, ReportTyped, NodeTyped, history
<1>d. ReportRestored => op' \in Operations /\ ReportTyped' /\ NodeTyped' /\ UNCHANGED <<kind, ops>>
    BY <1>g, <1>i, <1>s DEF ReportRestored, ReportTyped, NodeTyped, history
<1>v. /\ DeleteBackup => saved' \in [Path -> Content] /\ kept' \in [Path -> Content]
                         /\ dir' \in BOOLEAN /\ hasManifest' \in BOOLEAN /\ existed' \subseteq Path
      /\ DeleteBackupFails => saved' \in [Path -> Content] /\ kept' \in [Path -> Content]
                              /\ dir' \in BOOLEAN /\ hasManifest' \in BOOLEAN /\ existed' \subseteq Path
    BY <1>s DEF DeleteBackup, DeleteBackupFails, NoFiles, Content
<1> HIDE DEF FilesTyped, NodeTyped, ReportTyped
<1>1. CASE Begin
  <2>1. NodeTyped'
      BY <1>s, <1>1 DEF Begin, NodeTyped
  <2>2. FilesTyped' /\ ReportTyped' /\ kind' = kind
      BY <1>h, <1>c, <1>1 DEF Begin, Finish
  <2> QED BY <1>b, <1>q, <1>1, <2>1, <2>2
<1>2. CASE StopServer \/ WaitOffline \/ CopyBackup
  <2>1. NodeTyped' /\ kind' = kind /\ ops' = ops
      BY <1>s, <1>2 DEF StopServer, WaitOffline, CopyBackup, NodeTyped
  <2>2. FilesTyped'
      BY <1>h, <1>2 DEF StopServer, WaitOffline, CopyBackup
  <2>3. op' \in Operations
      BY <1>2, <1>g, <1>i, <1>a DEF StopServer, WaitOffline, CopyBackup, Finish
  <2>4. outcome' \in {outcome, "failed"} /\ UNCHANGED history
      BY <1>2, <1>a DEF StopServer, WaitOffline, CopyBackup, Finish
  <2>5. ReportTyped'
      BY <1>s, <1>c, <2>4 DEF ReportTyped
  <2> QED BY <1>t, <1>q, <2>1, <2>2, <2>3, <2>5
<1>3. CASE PromoteBackup
  <2>1. NodeTyped' /\ kind' = kind /\ ops' = ops
      BY <1>s, <1>3 DEF PromoteBackup, NodeTyped
  <2>2. FilesTyped'
      BY <1>s, <1>3 DEF PromoteBackup, FilesTyped, Content, NoFile
  <2>3. op' \in Operations
      BY <1>3, <1>g, <1>a DEF PromoteBackup
  <2>4. ReportTyped'
      BY <1>s, <1>3, <1>a DEF PromoteBackup, ReportTyped, FilesTyped, history
  <2> QED BY <1>t, <1>q, <2>1, <2>2, <2>3, <2>4
<1>4. CASE StartUpdate
  <2>1. NodeTyped'
      BY <1>s, <1>4, <1>u DEF StartUpdate, NodeTyped
  <2>2. FilesTyped' /\ kind' = kind /\ ops' = ops
      BY <1>h, <1>4 DEF StartUpdate
  <2>3. op' \in Operations
      BY <1>4, <1>g DEF StartUpdate
  <2>4. ReportTyped'
      BY <1>s, <1>4 DEF StartUpdate, ReportTyped, history
  <2> QED BY <1>t, <1>q, <2>1, <2>2, <2>3, <2>4
<1>5. CASE StartUpdateFails \/ GiveUpWaiting
  <2>1. FilesTyped' /\ kind' = kind /\ ops' = ops /\ RollBack
      BY <1>h, <1>5 DEF StartUpdateFails, GiveUpWaiting
  <2>2. NodeTyped'
      BY <1>s, <1>5 DEF StartUpdateFails, GiveUpWaiting, NodeTyped
  <2> QED BY <1>t, <1>q, <1>r, <2>1, <2>2
<1>6. CASE ReceiveExit \/ PollExit
  <2>1. FilesTyped' /\ kind' = kind /\ ops' = ops /\ (UpdateIsGood \/ RollBack)
      BY <1>h, <1>6 DEF ReceiveExit, PollExit
  <2>2. exits' \subseteq exits /\ UNCHANGED <<exec, updater>>
      BY <1>6 DEF ReceiveExit, PollExit
  <2>3. NodeTyped'
      BY <1>s, <2>2 DEF NodeTyped
  <2> QED BY <1>t, <1>q, <1>r, <1>o, <2>1, <2>3
<1>7. CASE Restart \/ WaitOnline
  <2>1. FilesTyped' /\ kind' = kind /\ ops' = ops /\ UNCHANGED <<exits, updater>>
      BY <1>h, <1>7 DEF Restart, WaitOnline
  <2>2. exec' \in Executions
      BY <1>s, <1>7, RecordTypes DEF Restart, WaitOnline, StartServer, NodeTyped
  <2>3. NodeTyped'
      BY <1>s, <2>1, <2>2 DEF NodeTyped
  <2>4. \/ RollBack
        \/ /\ GoTo("online") \/ GoTo("cleanup")
           /\ UNCHANGED <<outcome, base, abandoned>> /\ verified' \in BOOLEAN
      BY <1>s, <1>7 DEF Restart, WaitOnline, StartServer, history, ReportTyped
  <2>5. op' \in Operations /\ ReportTyped'
      BY <1>s, <1>g, <1>r, <2>4 DEF ReportTyped
  <2> QED BY <1>t, <1>q, <2>1, <2>3, <2>5
<1>8. CASE RestartOld \/ WaitOnlineOld
  <2>1. FilesTyped' /\ kind' = kind /\ ops' = ops /\ UNCHANGED <<exits, updater, outcome, history>>
      BY <1>h, <1>8 DEF RestartOld, WaitOnlineOld
  <2>2. exec' \in Executions
      BY <1>s, <1>8, RecordTypes DEF RestartOld, WaitOnlineOld, StartServer, NodeTyped
  <2>3. NodeTyped' /\ ReportTyped'
      BY <1>s, <2>1, <2>2 DEF NodeTyped, ReportTyped, history
  <2>4. op' \in Operations
      BY <1>8, <1>g, <1>i DEF RestartOld, WaitOnlineOld, StartServer
  <2> QED BY <1>t, <1>q, <2>1, <2>3, <2>4
<1>9. CASE Cleanup
  <2>1. NodeTyped' /\ kind' = kind /\ ops' = ops /\ live' = live
      BY <1>s, <1>9 DEF Cleanup, NodeTyped
  <2>2. FilesTyped'
      BY <1>s, <1>v, <1>9, <2>1 DEF Cleanup, FilesTyped
  <2>3. op' \in Operations /\ ReportTyped'
      BY <1>i, <1>c, <1>9 DEF Cleanup, Finish
  <2> QED BY <1>t, <1>q, <2>1, <2>2, <2>3
<1>10. CASE ReadManifest
  <2>1. NodeTyped' /\ kind' = kind /\ ops' = ops /\ ReportTyped'
      BY <1>s, <1>e, <1>10 DEF ReadManifest, NodeTyped, ReportTyped, history
  <2> QED BY <1>t, <1>q, <1>h, <1>m, <1>10, <2>1 DEF ReadManifest
<1>11. CASE UndoEntry \/ CopyEntryBack
  <2>1. op.entry \in Path
      BY <1>11 DEF UndoEntry, CopyEntryBack, IInv, OpInv
  <2>2. live' \in [Path -> Content]
      BY <1>s, <1>11, <2>1 DEF UndoEntry, CopyEntryBack, FilesTyped, Content
  <2>3. NextEntry \/ GoTo("copyEntry")
      BY <1>11 DEF UndoEntry, CopyEntryBack
  <2>4. op' \in Operations
      BY <1>t, <1>g, <2>1, <2>3, NextEntryTypes
  <2>5. UNCHANGED <<kind, dir, saved, hasManifest, existed, kept, exec, updater, exits, ops,
                    outcome, history>>
      BY <1>11 DEF UndoEntry, CopyEntryBack
  <2>6. FilesTyped' /\ NodeTyped' /\ ReportTyped'
      BY <1>s, <2>2, <2>5 DEF FilesTyped, NodeTyped, ReportTyped, history
  <2> QED BY <1>t, <1>q, <2>4, <2>5, <2>6
<1>12. CASE UndoFails
    BY <1>t, <1>q, <1>h, <1>e, <1>12 DEF UndoFails
<1>13. CASE ListBackup
  <2>1. CASE Retain \/ ReportRestored
      BY <1>t, <1>q, <1>h, <1>e, <1>d, <1>13, <2>1 DEF ListBackup
  <2>2. CASE /\ GoTo("copyBack")
             /\ UNCHANGED <<kind, outcome, exec, updater, exits, ops, history>>
    <3>1. NodeTyped' /\ ReportTyped'
        BY <1>s, <2>2 DEF NodeTyped, ReportTyped, history
    <3> QED BY <1>t, <1>q, <1>g, <1>h, <1>13, <2>2, <3>1 DEF ListBackup
  <2> QED BY <1>13, <2>1, <2>2 DEF ListBackup
<1>14. CASE CopyBack
  <2>1. \A S \in SUBSET Path : Restored(S) \in [Path -> Content]
      BY <1>s DEF Restored, FilesTyped
  <2>2. FilesTyped'
      BY <1>s, <1>14, <2>1 DEF CopyBack, FilesTyped
  <2>3. CASE Retain
      BY <1>t, <1>q, <1>e, <2>2, <2>3
  <2>4. CASE /\ GoTo("removeDir")
             /\ UNCHANGED <<kind, outcome, exec, updater, exits, ops, history>>
    <3>1. NodeTyped' /\ ReportTyped'
        BY <1>s, <2>4 DEF NodeTyped, ReportTyped, history
    <3> QED BY <1>t, <1>q, <1>g, <2>2, <2>4, <3>1
  <2> QED BY <1>14, <2>3, <2>4 DEF CopyBack
<1>15. CASE RemoveRestored
  <2>1. FilesTyped'
      BY <1>s, <1>v, <1>15 DEF RemoveRestored, FilesTyped
  <2> QED BY <1>t, <1>q, <1>d, <1>e, <1>15, <2>1 DEF RemoveRestored
<1>16. CASE ControllerCrash
  <2>1. NodeTyped'
      BY <1>s, <1>16 DEF ControllerCrash, NodeTyped
  <2> QED BY <1>t, <1>q, <1>h, <1>c, <1>i, <1>16, <2>1 DEF ControllerCrash
<1>17. \/ Begin \/ StopServer \/ WaitOffline \/ CopyBackup \/ PromoteBackup \/ StartUpdate
      \/ StartUpdateFails \/ GiveUpWaiting \/ ReceiveExit \/ PollExit \/ Restart \/ WaitOnline
      \/ RestartOld \/ WaitOnlineOld \/ Cleanup \/ ReadManifest \/ UndoEntry \/ CopyEntryBack
      \/ UndoFails \/ ListBackup \/ CopyBack \/ RemoveRestored \/ ControllerCrash
    BY DEF Operation
<1> QED BY <1>1, <1>2, <1>3, <1>4, <1>5, <1>6, <1>7, <1>8, <1>9, <1>10, <1>11, <1>12,
        <1>13, <1>14, <1>15, <1>16, <1>17

(* So does every step of the node.                                           *)
LEMMA NodeTypes ==
    ASSUME IInv, Updater \/ ServerStarts \/ ServerEnds \/ NodeCrash \/ LoseExit
    PROVE  TypeOK'
<1> DEFINE FilesTyped == /\ live \in [Path -> Content] /\ saved \in [Path -> Content]
                         /\ kept \in [Path -> Content] /\ dir \in BOOLEAN
                         /\ hasManifest \in BOOLEAN /\ existed \subseteq Path
           NodeTyped == exec \in Executions /\ exits \subseteq Exits /\ updater \in Updaters
<1>1. TypeOK /\ FilesTyped
    BY DEF IInv, TypeOK
<1>2. /\ UpdaterAt("manifest", 0) \in Updaters /\ UpdaterAt("retain", 1) \in Updaters
      /\ UpdaterAt("commit", 0) \in Updaters /\ UpdaterAt("undo", Paths) \in Updaters
      /\ \A p \in Path : UpdaterAt("promote", p) \in Updaters
      /\ \A p \in Path : p # Paths => UpdaterAt("retain", p + 1) \in Updaters
  <2>1. {"manifest", "retain", "commit", "undo", "promote"} \subseteq UpdaterPlaces
      BY DEF UpdaterPlaces
  <2>2. /\ 0 \in 0..Paths /\ 1 \in 0..Paths /\ Paths \in 0..Paths /\ Path \subseteq 0..Paths
        /\ \A p \in Path : p # Paths => p + 1 \in 0..Paths
      BY UpdateAssumption DEF Path
  <2> QED BY <2>1, <2>2, RecordTypes
<1>3. FilesTyped' /\ NodeTyped' /\ ControllerTyped' => TypeOK'
    BY DEF TypeOK, ControllerTyped
<1>4. ASSUME NEW ok \in BOOLEAN, UpdateEnds(ok) PROVE NodeTyped' /\ ControllerTyped'
    BY <1>1, <1>4, UpdateEndsTypes
<1>5. ASSUME NEW u \in Updaters, UpdaterGoes(u) PROVE NodeTyped' /\ ControllerTyped'
    BY <1>1, <1>5, UpdaterGoesTypes
<1>6. StartUndo => NodeTyped' /\ ControllerTyped'
    BY <1>2, <1>5 DEF StartUndo
<1>7. CASE Stage
    BY <1>1, <1>2, <1>3, <1>4, <1>5, <1>7 DEF Stage, files
<1>8. CASE WriteManifest
  <2>1. NodeTyped' /\ ControllerTyped'
      BY <1>2, <1>4, <1>5, <1>8 DEF WriteManifest
  <2>2. FilesTyped'
      BY <1>1, <1>8 DEF WriteManifest
  <2> QED BY <1>3, <2>1, <2>2
<1>9. CASE RetainOriginal
  <2>1. updater.entry \in Path
      BY <1>9 DEF RetainOriginal, IInv, UpdaterInv
  <2>2. NodeTyped' /\ ControllerTyped'
      BY <1>2, <1>5, <1>6, <1>9, <2>1 DEF RetainOriginal
  <2>3. CASE UNCHANGED files
      BY <1>1, <1>3, <2>2, <2>3 DEF files
  <2>4. CASE /\ kept' = [kept EXCEPT ![updater.entry] = IF updater.entry \in existed THEN live[updater.entry] ELSE @]
             /\ live' = [live EXCEPT ![updater.entry] = IF updater.entry \in existed THEN NoFile ELSE @]
             /\ dir' = (dir \/ updater.entry \in existed)
             /\ UNCHANGED <<saved, hasManifest, existed>>
    <3>1. kept' \in [Path -> Content]
        BY <1>1, <2>1, <2>4
    <3>2. live' \in [Path -> Content]
        BY <1>1, <2>1, <2>4 DEF Content
    <3> QED BY <1>1, <1>3, <2>2, <2>4, <3>1, <3>2
  <2> QED BY <1>9, <2>3, <2>4 DEF RetainOriginal
<1>10. CASE PromoteStaged
  <2>1. updater.entry \in Path
      BY <1>10 DEF PromoteStaged, IInv, UpdaterInv
  <2>2. NodeTyped' /\ ControllerTyped'
      BY <1>2, <1>5, <1>6, <1>10, <2>1 DEF PromoteStaged
  <2>3. FilesTyped'
      BY <1>1, <1>10, FieldTypes DEF PromoteStaged, Content, files
  <2> QED BY <1>3, <2>2, <2>3
<1>11. CASE Commit
    BY <1>1, <1>3, <1>4, <1>6, <1>11 DEF Commit, files
<1>12. CASE UndoStaged
  <2>1. \A failed \in BOOLEAN : UndoNext(failed) => NodeTyped' /\ ControllerTyped'
    <3> SUFFICES ASSUME NEW failed \in BOOLEAN, UndoNext(failed) PROVE NodeTyped' /\ ControllerTyped'
        OBVIOUS
    <3> DEFINE pc == IF updater.entry = 1 THEN "remove" ELSE "undo"
               entry == IF updater.entry = 1 THEN 0 ELSE updater.entry - 1
               f == updater.failed \/ failed
    <3>1. pc \in UpdaterPlaces
        BY DEF UpdaterPlaces
    <3>2. entry \in 0..Paths
        BY <1>12, UpdateAssumption DEF UndoStaged, IInv, UpdaterInv, Path
    <3>3. f \in BOOLEAN
        OBVIOUS
    <3>4. UpdaterGoes([pc |-> pc, entry |-> entry, failed |-> f])
        BY DEF UndoNext
    <3> HIDE DEF pc, entry, f
    <3> QED BY <1>5, <3>1, <3>2, <3>3, <3>4, RecordTypes, Zenon
  <2>2. NodeTyped' /\ ControllerTyped'
      BY <1>12, <2>1 DEF UndoStaged
  <2>3. FilesTyped'
      BY <1>1, <1>12 DEF UndoStaged, Content
  <2> QED BY <1>3, <2>2, <2>3
<1>13. CASE RemoveTransaction
  <2>1. FilesTyped'
      BY <1>1, <1>13 DEF RemoveTransaction, NoFiles, Content
  <2> QED BY <1>3, <1>4, <1>13, <2>1 DEF RemoveTransaction
<1>14. CASE CommandWrites
    BY <1>1, <1>14, FieldTypes DEF CommandWrites, TypeOK, Content, controller, history
<1>15. CASE CommandEnds
    BY <1>1, <1>3, <1>4, <1>15 DEF CommandEnds, files
<1>16. CASE ServerStarts \/ ServerEnds \/ NodeCrash \/ LoseExit
  <2>1. TypeOK' <=> (FilesTyped /\ NodeTyped /\ ControllerTyped)'
      BY DEF TypeOK, ControllerTyped
  <2>2. FilesTyped' /\ ControllerTyped'
      BY <1>1, <1>16
      DEF ServerStarts, ServerEnds, NodeCrash, LoseExit, TypeOK, ControllerTyped, files,
          controller, history
  <2>3. exec' \in Executions
      BY <1>1, <1>16, RecordTypes
      DEF ServerStarts, ServerEnds, NodeCrash, LoseExit, TypeOK, controller
  <2>4. updater' \in Updaters /\ exits' \subseteq Exits
      BY <1>1, <1>16, RecordTypes
      DEF ServerStarts, ServerEnds, NodeCrash, LoseExit, TypeOK, controller
  <2> QED BY <2>1, <2>2, <2>3, <2>4
<1> QED BY <1>7, <1>8, <1>9, <1>10, <1>11, <1>12, <1>13, <1>14, <1>15, <1>16 DEF Updater

(* The backup: every copy is one of what is there, nothing is kept aside.    *)
LEMMA PromoteBackupCopies ==
    ASSUME IInv, PromoteBackup
    PROVE  CopiesInv' /\ ProgressInv'
<1>t. TypeOK /\ DirInv /\ UpdaterInv /\ OpInv /\ CopiesInv /\ ProgressInv
    BY DEF IInv
<1>1. updater.pc = "none" /\ updater' = updater /\ UNCHANGED <<kind, live, hasManifest, existed, kept>>
    BY <1>t DEF PromoteBackup, OpInv, UpdaterInv
<1>2. CASE GiveUpBackup /\ UNCHANGED <<dir, saved, history>>
  <2>1. op'.pc \in {"restartOld", "idle"}
    <3>1. op' = NoOp => op'.pc = "idle"
        BY DEF NoOp
    <3>2. GoTo("restartOld") => op'.pc = "restartOld"
        BY <1>t DEF GoTo, TypeOK, Operations
    <3> QED BY <1>2, <3>1, <3>2 DEF GiveUpBackup
  <2>2. UNCHANGED <<dir, saved, base, verified, abandoned>>
      BY <1>2 DEF history
  <2> QED BY <1>1, <1>t, <2>1, <2>2 DEF CopiesInv, ProgressInv, AtStake
<1>3. CASE /\ ~dir /\ base' = live
           /\ saved' = [p \in Path |-> IF p \in Covered THEN live[p] ELSE NoFile]
           /\ GoTo("update") \/ GiveUpBackup
  <2>1. op'.pc \in {"update", "restartOld", "idle"}
    <3>1. op' = NoOp => op'.pc = "idle"
        BY DEF NoOp
    <3> QED BY <1>3, <1>t, <3>1 DEF GoTo, GiveUpBackup, TypeOK, Operations
  <2>2. ~hasManifest /\ kept = NoFiles
      BY <1>3, <1>t DEF DirInv
  <2>3. \A p \in Path : kept'[p] = NoFile
      BY <1>1, <2>2 DEF NoFiles
  <2>4. \A p \in Path : saved'[p] = IF p \in Covered THEN base'[p] ELSE NoFile
      BY <1>3
  <2>5. Covered \subseteq Path
      BY UpdateAssumption DEF Path
  <2>6. CopiesInv'
      BY <1>1, <1>3, <2>1, <2>2, <2>3, <2>4, <2>5 DEF CopiesInv
  <2>7. ProgressInv'
      BY <1>1, <2>1 DEF ProgressInv
  <2> QED BY <2>6, <2>7
<1> QED BY <1>2, <1>3 DEF PromoteBackup

(* The rollback takes away what the update has put in place, or leaves a     *)
(* path alone that still holds its original.                                 *)
LEMMA UndoEntryCopies ==
    ASSUME IInv, UndoEntry
    PROVE  CopiesInv' /\ ProgressInv'
<1>t. TypeOK /\ DirInv /\ UpdaterInv /\ OpInv /\ CopiesInv /\ ProgressInv
    BY DEF IInv
<1>1. /\ UNCHANGED <<kind, dir, saved, hasManifest, existed, kept, updater, base, verified, abandoned>>
      /\ op.pc = "undo"
    BY DEF UndoEntry, history
<1> SUFFICES ASSUME dir, AtStake PROVE CopiesInv' /\ ProgressInv'
    BY <1>1 DEF CopiesInv, ProgressInv, AtStake
<1> DEFINE p == op.entry
<1>2. p \in Path /\ kind = "staged" /\ hasManifest /\ updater.pc = "none"
    BY <1>1, <1>t, UpdateAssumption DEF OpInv, UpdaterInv, AtStake, RollingBack, ProgressInv, TypeOK
<1>3. \A q \in Path : q > p => live[q] = base[q]
    BY <1>1, <1>t DEF ProgressInv
<1>4. existed = {q \in Path : base[q] # NoFile}
    BY <1>2, <1>t DEF CopiesInv
<1>v. live \in [Path -> Content] /\ NoFile \in Content
    BY <1>t DEF TypeOK, Content
<1>k. p \in existed /\ kept[p] = NoFile => live[p] = base[p]
    BY <1>2, <1>t DEF CopiesInv
<1>5. /\ live' \in [Path -> Content]
      /\ \A q \in Path : q # p => live'[q] = live[q]
  <2>1. live' \in {live, [live EXCEPT ![p] = NoFile]}
      BY DEF UndoEntry
  <2> QED BY <1>2, <1>v, <2>1
<1>w. p \in existed => kept[p] # NoFile \/ live'[p] = live[p]
    BY DEF UndoEntry
<1>c. GoTo("copyEntry") \/ (NextEntry /\ live'[p] = base[p])
  <2>1. CASE p \in existed /\ kept[p] = NoFile /\ NextEntry /\ UNCHANGED live
      BY <1>k, <2>1
  <2>2. CASE p \notin existed /\ live' = [live EXCEPT ![p] = NoFile] /\ NextEntry
    <3>1. base[p] = NoFile
        BY <1>2, <1>4, <2>2
    <3>2. live'[p] = NoFile
        BY <1>2, <1>v, <2>2
    <3> QED BY <2>2, <3>1, <3>2
  <2> QED BY <2>1, <2>2 DEF UndoEntry
<1>6. \A q \in Path : q > p => live'[q] = base'[q]
    BY <1>1, <1>2, <1>3, <1>5 DEF Path
<1>7. CASE GoTo("copyEntry")
  <2>1. op'.pc = "copyEntry" /\ op'.entry = p
      BY <1>7, <1>t DEF GoTo, TypeOK, Operations
  <2> QED BY <1>1, <1>2, <1>5, <1>w, <1>6, <1>t, <2>1 DEF CopiesInv, ProgressInv
<1>8. CASE NextEntry /\ live'[p] = base[p]
  <2>1. \/ p = 1 /\ op'.pc = "relist"
        \/ p # 1 /\ op'.pc = "undo" /\ op'.entry = p - 1
      BY <1>2, <1>8, <1>t, NextEntryMoves
  <2>2. \A q \in Path : q >= p => live'[q] = base'[q]
      BY <1>1, <1>2, <1>6, <1>8 DEF Path
  <2>3. p = 1 => live' = base'
    <3>1. base' \in [Path -> Content]
        BY <1>1, <1>t DEF TypeOK
    <3>2. p = 1 => \A q \in Path : live'[q] = base'[q]
        BY <2>2 DEF Path
    <3> QED BY <1>5, <3>1, <3>2
  <2>4. \A q \in Path : q > p - 1 => live'[q] = base'[q]
      BY <1>2, <2>2 DEF Path
  <2> QED BY <1>1, <1>2, <1>5, <1>w, <1>t, <2>1, <2>3, <2>4 DEF CopiesInv, ProgressInv
<1> QED BY <1>c, <1>7, <1>8

(* The rollback puts an original back.                                       *)
LEMMA CopyEntryBackCopies ==
    ASSUME IInv, CopyEntryBack
    PROVE  CopiesInv' /\ ProgressInv'
<1>t. TypeOK /\ DirInv /\ UpdaterInv /\ OpInv /\ CopiesInv /\ ProgressInv
    BY DEF IInv
<1>1. /\ UNCHANGED <<kind, dir, saved, hasManifest, existed, kept, updater, base, verified, abandoned>>
      /\ op.pc = "copyEntry"
    BY DEF CopyEntryBack, history
<1> SUFFICES ASSUME dir, AtStake PROVE CopiesInv' /\ ProgressInv'
    BY <1>1 DEF CopiesInv, ProgressInv, AtStake
<1> DEFINE p == op.entry
<1>2. p \in Path /\ kind = "staged" /\ hasManifest /\ updater.pc = "none"
    BY <1>1, <1>t, UpdateAssumption DEF OpInv, UpdaterInv, AtStake, RollingBack, ProgressInv, TypeOK
<1>3. \A q \in Path : q > p => live[q] = base[q]
    BY <1>1, <1>t DEF ProgressInv
<1>4. /\ live' \in [Path -> Content]
      /\ \A q \in Path : q # p => live'[q] = live[q]
      /\ live'[p] = base[p]
  <2>1. live \in [Path -> Content] /\ kept \in [Path -> Content]
      BY <1>t DEF TypeOK
  <2>2. kept[p] # NoFile /\ kept[p] = base[p]
      BY <1>2, <1>t DEF CopyEntryBack, CopiesInv
  <2> QED BY <1>2, <2>1, <2>2 DEF CopyEntryBack
<1>5. \/ p = 1 /\ op'.pc = "relist"
      \/ p # 1 /\ op'.pc = "undo" /\ op'.entry = p - 1
    BY <1>2, <1>t, NextEntryMoves DEF CopyEntryBack
<1>6. \A q \in Path : q >= p => live'[q] = base'[q]
    BY <1>1, <1>2, <1>3, <1>4 DEF Path
<1>7. p = 1 => live' = base'
  <2>1. base' \in [Path -> Content]
      BY <1>1, <1>t DEF TypeOK
  <2>2. p = 1 => \A q \in Path : live'[q] = base'[q]
      BY <1>6 DEF Path
  <2> QED BY <1>4, <2>1, <2>2
<1>8. \A q \in Path : q > p - 1 => live'[q] = base'[q]
    BY <1>2, <1>6 DEF Path
<1> QED BY <1>1, <1>2, <1>4, <1>t, <1>5, <1>7, <1>8 DEF CopiesInv, ProgressInv

(* The copies go back to their places, all of them or some.                  *)
LEMMA CopyBackCopies ==
    ASSUME IInv, CopyBack
    PROVE  CopiesInv' /\ ProgressInv'
<1>t. TypeOK /\ DirInv /\ UpdaterInv /\ OpInv /\ CopiesInv /\ ProgressInv
    BY DEF IInv
<1>1. /\ UNCHANGED <<kind, dir, saved, hasManifest, existed, kept, updater, base, verified, abandoned>>
      /\ op.pc = "copyBack"
    BY DEF CopyBack, Retain, history
<1> SUFFICES ASSUME dir, AtStake PROVE CopiesInv' /\ ProgressInv'
    BY <1>1 DEF CopiesInv, ProgressInv, AtStake
<1>2. updater.pc = "none"
    BY <1>1, <1>t DEF OpInv, UpdaterInv, AtStake, RollingBack
<1>3. PICK S \in SUBSET Path : live' = Restored(S) /\ (op'.pc = "removeDir" => S = Path)
  <2>1. GoTo("removeDir") => op'.pc = "removeDir"
      BY <1>t DEF GoTo, TypeOK, Operations
  <2>2. Retain => op'.pc = "idle"
      BY DEF Retain, Finish, NoOp
  <2> QED BY <2>1, <2>2 DEF CopyBack
<1>4. op'.pc \in {"removeDir", "idle"}
  <2>1. GoTo("removeDir") => op'.pc = "removeDir"
      BY <1>t DEF GoTo, TypeOK, Operations
  <2>2. Retain => op'.pc = "idle"
      BY DEF Retain, Finish, NoOp
  <2> QED BY <2>1, <2>2 DEF CopyBack
<1>5. \A p \in Path : live'[p] \in {live[p], base[p]}
    BY <1>3, <1>t DEF Restored, CopiesInv
<1>6. /\ live' \in [Path -> Content]
      /\ kind = "staged" => live' = base
    BY <1>1, <1>3, <1>5, <1>t DEF ProgressInv, TypeOK, Restored
<1>7. op'.pc = "removeDir" => \A p \in Promised : live'[p] = base[p]
  <2> SUFFICES ASSUME op'.pc = "removeDir", NEW p \in Promised PROVE live'[p] = base[p]
      OBVIOUS
  <2>1. p \in Path
      BY UpdateAssumption DEF Promised, Path
  <2>2. CASE kind = "staged"
      BY <1>6, <2>2
  <2>3. CASE kind # "staged"
    <3>1. kind = "command" /\ p \in Covered /\ base[p] # NoFile
        BY <2>3, <1>t, UpdateAssumption DEF Promised, TypeOK
    <3>2. saved[p] = NoFile => live[p] = base[p]
        BY <1>t, <3>1 DEF CopiesInv
    <3>3. saved[p] # NoFile => saved[p] = base[p]
        BY <1>t, <2>1 DEF CopiesInv
    <3> QED BY <1>3, <2>1, <3>2, <3>3 DEF Restored
  <2> QED BY <2>2, <2>3
<1>8. CopiesInv'
    BY <1>1, <1>2, <1>4, <1>5, <1>6, <1>t, UpdateAssumption DEF CopiesInv, Path
<1>9. ProgressInv'
    BY <1>1, <1>2, <1>4, <1>7 DEF ProgressInv, Promised
<1> QED BY <1>8, <1>9

(* A rollback that has restored everything deletes the copies, or some.      *)
LEMMA RemoveRestoredCopies ==
    ASSUME IInv, RemoveRestored
    PROVE  CopiesInv' /\ ProgressInv'
<1>t. TypeOK /\ DirInv /\ UpdaterInv /\ OpInv /\ CopiesInv /\ ProgressInv
    BY DEF IInv
<1>1. /\ UNCHANGED <<kind, live, updater, base, verified, abandoned>>
      /\ op.pc = "removeDir"
    BY DEF RemoveRestored, ReportRestored, Retain, history
<1>2. CASE DeleteBackup
    BY <1>2 DEF DeleteBackup, CopiesInv, ProgressInv
<1>3. CASE DeleteBackupFails /\ Retain
  <2>1. op'.pc = "idle"
      BY <1>3 DEF Retain, Finish, NoOp
  <2> SUFFICES ASSUME dir, AtStake PROVE CopiesInv' /\ ProgressInv'
      BY <1>1, <1>3 DEF CopiesInv, ProgressInv, AtStake, DeleteBackupFails
  <2>2. updater.pc = "none"
      BY <1>1, <1>t DEF OpInv, UpdaterInv, AtStake, RollingBack
  <2>3. \A p \in Promised : live[p] = base[p]
      BY <1>1, <1>t DEF ProgressInv
  <2>4. kind = "staged" => live = base
      BY <2>3, <1>t DEF Promised, TypeOK
  <2>5. \A p \in Path : saved'[p] \in {saved[p], NoFile} /\ kept'[p] \in {kept[p], NoFile}
      BY <1>3 DEF DeleteBackupFails
  <2>6. hasManifest' => hasManifest /\ existed' = existed
      BY <1>3 DEF DeleteBackupFails
  <2>7. hasManifest => kind = "staged"
      BY <1>t, UpdateAssumption DEF DirInv, TypeOK
  <2>8. CopiesInv'
      BY <1>1, <1>t, <2>1, <2>2, <2>3, <2>4, <2>5, <2>6, <2>7 DEF CopiesInv, Promised
  <2>9. ProgressInv'
      BY <1>1, <2>1, <2>2 DEF ProgressInv
  <2> QED BY <2>8, <2>9
<1> QED BY <1>2, <1>3 DEF RemoveRestored

(* The manifest lists what is there, and nothing has been replaced yet.      *)
LEMMA WriteManifestCopies ==
    ASSUME IInv, WriteManifest
    PROVE  CopiesInv' /\ ProgressInv'
<1>t. TypeOK /\ DirInv /\ UpdaterInv /\ OpInv /\ CopiesInv /\ ProgressInv
    BY DEF IInv
<1>1. /\ UNCHANGED <<kind, live, saved, kept, op, base, verified, abandoned>>
      /\ updater.pc = "manifest"
    BY DEF WriteManifest, UpdaterGoes, UpdateEnds, controller, history
<1> SUFFICES ASSUME AtStake PROVE CopiesInv' /\ ProgressInv'
    BY <1>1 DEF CopiesInv, ProgressInv, AtStake
<1>2. dir /\ kind = "staged" /\ op.pc # "update" /\ op.pc \notin RollingBack
    BY <1>1, <1>t DEF UpdaterInv, OpInv, AtStake
<1>3. CASE UpdateEnds(FALSE) /\ UNCHANGED <<hasManifest, existed>>
  <2>1. updater'.pc = "none"
      BY <1>3 DEF UpdateEnds, NoUpdater
  <2> QED BY <1>1, <1>2, <1>3, <1>t, <2>1 DEF CopiesInv, ProgressInv, RollingBack
<1>4. CASE /\ ~hasManifest /\ hasManifest' = TRUE
           /\ existed' = {p \in Path : live[p] # NoFile}
           /\ UpdaterGoes(UpdaterAt("retain", 1))
  <2>1. updater'.pc = "retain"
      BY <1>4 DEF UpdaterGoes, UpdaterAt
  <2>2. live = base
      BY <1>2, <1>4, <1>t DEF CopiesInv
  <2> QED BY <1>1, <1>2, <1>4, <1>t, <2>1, <2>2 DEF CopiesInv, ProgressInv, RollingBack
<1> QED BY <1>3, <1>4 DEF WriteManifest

(* An original is moved aside; it has not been replaced before.              *)
LEMMA RetainOriginalCopies ==
    ASSUME IInv, RetainOriginal
    PROVE  CopiesInv' /\ ProgressInv'
<1>t. TypeOK /\ DirInv /\ UpdaterInv /\ OpInv /\ CopiesInv /\ ProgressInv
    BY DEF IInv
<1>1. /\ UNCHANGED <<kind, saved, hasManifest, existed, op, base, verified, abandoned>>
      /\ updater.pc = "retain"
    BY DEF RetainOriginal, UpdaterGoes, StartUndo, controller, history, files
<1> SUFFICES ASSUME AtStake PROVE CopiesInv' /\ ProgressInv'
    BY <1>1 DEF CopiesInv, ProgressInv, AtStake
<1> DEFINE p == updater.entry
<1>2. /\ dir /\ kind = "staged" /\ op.pc # "update" /\ op.pc \notin RollingBack
      /\ hasManifest /\ p \in Path
    BY <1>1, <1>t DEF UpdaterInv, OpInv, AtStake, Transacting
<1>3. \A q \in Path : q >= p => live[q] = base[q]
    BY <1>1, <1>2, <1>t DEF ProgressInv
<1>4. CASE StartUndo /\ UNCHANGED files
  <2>1. updater'.pc = "undo" /\ updater'.entry = Paths
      BY <1>4 DEF StartUndo, UpdaterGoes, UpdaterAt
  <2>2. \A q \in Path : ~(q > Paths)
      BY UpdateAssumption DEF Path
  <2> QED BY <1>1, <1>2, <1>4, <1>t, <2>1, <2>2 DEF CopiesInv, ProgressInv, RollingBack, files
<1>5. CASE /\ kept' = [kept EXCEPT ![p] = IF p \in existed THEN live[p] ELSE @]
           /\ live' = [live EXCEPT ![p] = IF p \in existed THEN NoFile ELSE @]
           /\ UpdaterGoes(UpdaterAt("promote", p))
           /\ p \in existed => live[p] # NoFile
  <2>1. updater'.pc = "promote" /\ updater'.entry = p
      BY <1>5 DEF UpdaterGoes, UpdaterAt
  <2>2. live[p] = base[p]
      BY <1>2, <1>3 DEF Path
  <2>3. \A q \in Path : q # p => kept'[q] = kept[q] /\ live'[q] = live[q]
      BY <1>5, <1>t DEF TypeOK
  <2>4. p \in existed => kept'[p] = base[p] /\ kept'[p] # NoFile
      BY <1>2, <1>5, <1>t, <2>2 DEF TypeOK
  <2>5. p \notin existed => kept'[p] = kept[p] /\ live'[p] = live[p]
      BY <1>2, <1>5, <1>t DEF TypeOK
  <2>6. \A q \in Path : q > p => live'[q] = base'[q]
      BY <1>1, <1>2, <1>3, <2>3 DEF Path
  <2>7. CopiesInv'
      BY <1>1, <1>2, <1>t, <2>3, <2>4, <2>5 DEF CopiesInv
  <2>8. ProgressInv'
      BY <1>1, <1>2, <2>1, <2>4, <2>6 DEF ProgressInv, RollingBack
  <2> QED BY <2>7, <2>8
<1> QED BY <1>4, <1>5 DEF RetainOriginal

(* The new file takes a place whose original has been kept.                  *)
LEMMA PromoteStagedCopies ==
    ASSUME IInv, PromoteStaged
    PROVE  CopiesInv' /\ ProgressInv'
<1>t. TypeOK /\ DirInv /\ UpdaterInv /\ OpInv /\ CopiesInv /\ ProgressInv
    BY DEF IInv
<1>1. /\ UNCHANGED <<kind, saved, dir, hasManifest, existed, kept, op, base, verified, abandoned>>
      /\ updater.pc = "promote"
    BY DEF PromoteStaged, UpdaterGoes, StartUndo, controller, history, files
<1> SUFFICES ASSUME AtStake PROVE CopiesInv' /\ ProgressInv'
    BY <1>1 DEF CopiesInv, ProgressInv, AtStake
<1> DEFINE p == updater.entry
<1>2. /\ dir /\ kind = "staged" /\ op.pc # "update" /\ op.pc \notin RollingBack
      /\ hasManifest /\ p \in Path
    BY <1>1, <1>t DEF UpdaterInv, OpInv, AtStake, Transacting
<1>3. /\ \A q \in Path : q > p => live[q] = base[q]
      /\ p \in existed => kept[p] # NoFile
    BY <1>1, <1>2, <1>t DEF ProgressInv
<1>4. CASE StartUndo /\ UNCHANGED files
  <2>1. updater'.pc = "undo" /\ updater'.entry = Paths
      BY <1>4 DEF StartUndo, UpdaterGoes, UpdaterAt
  <2>2. \A q \in Path : ~(q > Paths)
      BY UpdateAssumption DEF Path
  <2> QED BY <1>1, <1>2, <1>4, <1>t, <2>1, <2>2 DEF CopiesInv, ProgressInv, RollingBack, files
<1>5. CASE /\ live' = [live EXCEPT ![p] = exec.id]
           /\ UpdaterGoes(IF p = Paths THEN UpdaterAt("commit", 0) ELSE UpdaterAt("retain", p + 1))
  <2>1. updater'.pc = "commit" \/ (updater'.pc = "retain" /\ updater'.entry = p + 1)
      BY <1>5 DEF UpdaterGoes, UpdaterAt
  <2>2. \A q \in Path : q # p => live'[q] = live[q]
      BY <1>5, <1>t DEF TypeOK
  <2>3. \A q \in Path : q >= p + 1 => live'[q] = base'[q]
      BY <1>1, <1>2, <1>3, <2>2 DEF Path
  <2>4. CopiesInv'
      BY <1>1, <1>2, <1>3, <1>t, <2>2 DEF CopiesInv
  <2>5. ProgressInv'
      BY <1>1, <1>2, <2>1, <2>3 DEF ProgressInv, RollingBack
  <2> QED BY <2>4, <2>5
<1> QED BY <1>4, <1>5 DEF PromoteStaged

(* An update undoes itself, from the last entry to the first.                *)
LEMMA UndoStagedCopies ==
    ASSUME IInv, UndoStaged
    PROVE  CopiesInv' /\ ProgressInv'
<1>t. TypeOK /\ DirInv /\ UpdaterInv /\ OpInv /\ CopiesInv /\ ProgressInv
    BY DEF IInv
<1> DEFINE p == updater.entry
<1>1. /\ UNCHANGED <<kind, saved, dir, hasManifest, existed, op, base, verified, abandoned>>
      /\ updater.pc = "undo" /\ \E failed \in BOOLEAN : UndoNext(failed)
    BY DEF UndoStaged, UndoNext, UpdaterGoes, controller, history
<1> SUFFICES ASSUME AtStake PROVE CopiesInv' /\ ProgressInv'
    BY <1>1 DEF CopiesInv, ProgressInv, AtStake
<1>2. /\ dir /\ kind = "staged" /\ op.pc # "update" /\ op.pc \notin RollingBack
      /\ hasManifest /\ p \in Path
    BY <1>1, <1>t DEF UpdaterInv, OpInv, AtStake, Transacting
<1>3. ~updater.failed => \A q \in Path : q > p => live[q] = base[q]
    BY <1>1, <1>2, <1>t DEF ProgressInv
<1>4. existed = {q \in Path : base[q] # NoFile}
    BY <1>2, <1>t DEF CopiesInv
<1>5. /\ live' \in [Path -> Content]
      /\ \A q \in Path : q # p => live'[q] = live[q] /\ kept'[q] = kept[q]
    BY <1>2, <1>t DEF UndoStaged, TypeOK, Content
<1>6. \/ kept'[p] = kept[p] /\ live'[p] = live[p]
      \/ kept'[p] = NoFile /\ live'[p] = base[p]
      \/ kept'[p] = kept[p] /\ (p \in existed => kept[p] # NoFile)
  <2>1. p \in existed /\ kept[p] # NoFile => kept[p] = base[p]
      BY <1>2, <1>t DEF CopiesInv
  <2>2. p \notin existed => base[p] = NoFile
      BY <1>2, <1>4
  <2> QED BY <1>2, <1>t, <2>1, <2>2 DEF UndoStaged, TypeOK
<1>7. ~updater'.failed => ~updater.failed /\ live'[p] = base[p]
  <2>1. \A failed \in BOOLEAN : UndoNext(failed) => updater'.failed = (updater.failed \/ failed)
      BY <1>2, <1>t, UndoNextMoves
  <2>2. p \in existed /\ kept[p] # NoFile => kept[p] = base[p]
      BY <1>2, <1>t DEF CopiesInv
  <2>3. p \in existed /\ kept[p] = NoFile => live[p] = base[p]
      BY <1>2, <1>t DEF CopiesInv
  <2>4. p \notin existed => base[p] = NoFile
      BY <1>2, <1>4
  <2>5. updater.failed \in BOOLEAN
      BY <1>t, FieldTypes
  <2> QED BY <1>2, <1>t, <2>1, <2>2, <2>3, <2>4, <2>5 DEF UndoStaged, TypeOK
<1>8. \/ p = 1 /\ updater'.pc = "remove"
      \/ p # 1 /\ updater'.pc = "undo" /\ updater'.entry = p - 1
    BY <1>1, <1>2, <1>t, UndoNextMoves
<1>9. ~updater'.failed => \A q \in Path : q >= p => live'[q] = base'[q]
    BY <1>1, <1>2, <1>3, <1>5, <1>7 DEF Path
<1>10. ~updater'.failed /\ p = 1 => live' = base'
  <2>1. base' \in [Path -> Content]
      BY <1>1, <1>t DEF TypeOK
  <2>2. ~updater'.failed /\ p = 1 => \A q \in Path : live'[q] = base'[q]
      BY <1>9 DEF Path
  <2> QED BY <1>5, <2>1, <2>2
<1>11. ~updater'.failed => \A q \in Path : q > p - 1 => live'[q] = base'[q]
    BY <1>2, <1>9 DEF Path
<1>12. CopiesInv'
    BY <1>1, <1>2, <1>4, <1>5, <1>6, <1>t DEF CopiesInv
<1>13. ProgressInv'
    BY <1>1, <1>2, <1>8, <1>10, <1>11 DEF ProgressInv, RollingBack
<1> QED BY <1>12, <1>13

(* The transaction is removed when everything is back, and kept otherwise.   *)
LEMMA RemoveTransactionCopies ==
    ASSUME IInv, RemoveTransaction
    PROVE  CopiesInv' /\ ProgressInv'
<1>t. TypeOK /\ DirInv /\ UpdaterInv /\ OpInv /\ CopiesInv /\ ProgressInv
    BY DEF IInv
<1>1. /\ UNCHANGED <<kind, live, saved, op, base, verified, abandoned>>
      /\ updater.pc = "remove" /\ updater'.pc = "none"
    BY DEF RemoveTransaction, UpdateEnds, NoUpdater, controller, history
<1> SUFFICES ASSUME AtStake PROVE CopiesInv' /\ ProgressInv'
    BY <1>1 DEF CopiesInv, ProgressInv, AtStake
<1>2. dir /\ kind = "staged" /\ op.pc # "update" /\ op.pc \notin RollingBack /\ hasManifest
    BY <1>1, <1>t DEF UpdaterInv, OpInv, AtStake, Transacting
<1>3. ProgressInv'
    BY <1>1, <1>2 DEF ProgressInv, RollingBack
<1>4. CASE updater.failed /\ UNCHANGED <<dir, hasManifest, existed, kept>>
    BY <1>1, <1>2, <1>3, <1>4, <1>t DEF CopiesInv
<1>5. CASE ~updater.failed
  <2>1. live = base
      BY <1>1, <1>2, <1>5, <1>t DEF ProgressInv
  <2>2. \A q \in Path : kept'[q] \in {kept[q], NoFile}
      BY DEF RemoveTransaction, NoFiles
  <2>3. hasManifest' => existed' = existed
      BY DEF RemoveTransaction
  <2> QED BY <1>1, <1>2, <1>3, <1>t, <2>1, <2>2, <2>3 DEF CopiesInv
<1> QED BY <1>4, <1>5 DEF RemoveTransaction

(* The other steps write into no file, no copy and no manifest; they move    *)
(* the operation and the update on.                                          *)
Quiet ==
    \/ Begin \/ StopServer \/ WaitOffline \/ CopyBackup
    \/ StartUpdate \/ StartUpdateFails \/ ReceiveExit \/ PollExit \/ GiveUpWaiting
    \/ Restart \/ WaitOnline \/ ReadManifest \/ UndoFails \/ ListBackup
    \/ RestartOld \/ WaitOnlineOld
    \/ Stage \/ Commit \/ CommandEnds
    \/ ServerStarts \/ ServerEnds \/ ControllerCrash \/ NodeCrash \/ LoseExit

Elsewhere == {"idle", "stop", "offline", "backup", "promote", "wait", "restart", "online",
              "cleanup", "manifest", "restartOld", "onlineOld"}

OperationMoves ==
    \/ UNCHANGED op
    \/ op'.pc \in Elsewhere
    \/ hasManifest /\ op'.pc = "undo" /\ op'.entry = Paths
    \/ ~hasManifest /\ op'.pc = "list"
    \/ op.pc \in {"list", "relist"} /\ op'.pc = "copyBack"

UpdaterMoves ==
    \/ UNCHANGED updater
    \/ updater'.pc = "none"
    \/ op.pc = "update" /\ updater'.pc \in {"stage", "command"}
    \/ updater.pc = "stage" /\ updater'.pc = "manifest"
    \/ updater.pc = "commit" /\ updater'.pc = "undo" /\ updater'.entry = Paths

(* What a quiet step may do.                                                 *)
LEMMA QuietMoves ==
    ASSUME TypeOK, Quiet
    PROVE  /\ UNCHANGED <<kind, live, dir, saved, hasManifest, existed, kept, base>>
           /\ AtStake' => AtStake
           /\ OperationMoves
           /\ UpdaterMoves
<1> USE DEF Begin, StopServer, WaitOffline, CopyBackup, StartUpdate, StartUpdateFails,
        ReceiveExit, PollExit, GiveUpWaiting, Restart, WaitOnline, ReadManifest, UndoFails,
        ListBackup, RestartOld, WaitOnlineOld, Stage, Commit, CommandEnds, ServerStarts,
        ServerEnds, ControllerCrash, NodeCrash, LoseExit, Finish, RollBack, GiveUpBackup,
        UpdateIsGood, StartServer, Retain, ReportRestored, files, controller, history
<1>i. op' = NoOp => op'.pc = "idle"
    BY DEF NoOp
<1>u. /\ updater' = NoUpdater => updater'.pc = "none"
      /\ \A pc, entry : updater' = UpdaterAt(pc, entry) => updater'.pc = pc /\ updater'.entry = entry
    BY DEF NoUpdater, UpdaterAt
<1>1. UNCHANGED <<kind, live, dir, saved, hasManifest, existed, kept, base>>
    BY DEF Quiet, UpdateEnds, UpdaterGoes, StartUndo
<1>2. AtStake' => AtStake
    BY DEF Quiet, AtStake, UpdateEnds, UpdaterGoes, StartUndo
<1>3. OperationMoves
  <2>1. CASE Begin
      BY <2>1, BeginMoves DEF OperationMoves, Elsewhere
  <2>2. CASE ReadManifest
      BY <2>2, ReadManifestMoves DEF OperationMoves, Elsewhere
  <2>3. CASE StopServer \/ WaitOffline \/ CopyBackup \/ StartUpdate \/ StartUpdateFails
      BY <1>i, <2>3, GoToMoves DEF OperationMoves, Elsewhere
  <2>4. CASE ReceiveExit \/ PollExit \/ GiveUpWaiting \/ Restart \/ WaitOnline
      BY <1>i, <2>4, GoToMoves DEF OperationMoves, Elsewhere
  <2>5. CASE UndoFails \/ ListBackup \/ RestartOld \/ WaitOnlineOld \/ ControllerCrash
      BY <1>i, <2>5, GoToMoves DEF OperationMoves, Elsewhere
  <2>6. CASE Stage \/ Commit \/ CommandEnds \/ ServerStarts \/ ServerEnds \/ NodeCrash \/ LoseExit
      BY <2>6 DEF OperationMoves, UpdateEnds, UpdaterGoes, StartUndo
  <2> QED BY <2>1, <2>2, <2>3, <2>4, <2>5, <2>6 DEF Quiet
<1>4. UpdaterMoves
  <2>1. CASE StartUpdate
      BY <1>u, <2>1 DEF UpdaterMoves
  <2>2. CASE Stage \/ Commit \/ CommandEnds \/ NodeCrash
      BY <1>u, <2>2 DEF UpdaterMoves, UpdateEnds, UpdaterGoes, StartUndo
  <2> QED BY <2>1, <2>2 DEF Quiet, UpdaterMoves
<1> QED BY <1>1, <1>2, <1>3, <1>4

(* So the copies and the progress are what they were.                        *)
LEMMA QuietCopies ==
    ASSUME IInv, Quiet
    PROVE  CopiesInv' /\ ProgressInv'
<1>t. TypeOK /\ DirInv /\ UpdaterInv /\ OpInv /\ CopiesInv /\ ProgressInv
    BY DEF IInv
<1>m. /\ UNCHANGED <<kind, live, dir, saved, hasManifest, existed, kept, base>>
      /\ AtStake' => AtStake
      /\ OperationMoves
      /\ UpdaterMoves
    BY <1>t, QuietMoves
<1> SUFFICES ASSUME dir, AtStake, AtStake' PROVE CopiesInv' /\ ProgressInv'
    BY <1>m DEF CopiesInv, ProgressInv
<1>p. \A q \in Path : ~(q > Paths)
    BY UpdateAssumption DEF Path
<1>1. CopiesInv'
  <2>1. op'.pc = "update" \/ updater'.pc # "none" => op.pc = "update" \/ updater.pc # "none"
      BY <1>m DEF OperationMoves, UpdaterMoves, Elsewhere
  <2> QED BY <1>m, <1>t, <2>1 DEF CopiesInv
<1>2. ProgressInv'
  <2>1. \/ updater'.pc \in {"none", "stage", "command", "manifest"}
        \/ updater'.pc = "undo" /\ updater'.entry = Paths
        \/ UNCHANGED updater
      BY <1>m DEF UpdaterMoves
  <2>2. op'.pc = "copyBack" /\ kind = "staged" => live = base
      BY <1>m, <1>t DEF OperationMoves, Elsewhere, ProgressInv, CopiesInv
  <2>3. Promised' = Promised
      BY <1>m DEF Promised
  <2>4. \/ op'.pc \in Elsewhere \cup {"copyBack"}
        \/ hasManifest /\ op'.pc = "undo" /\ op'.entry = Paths
        \/ ~hasManifest /\ op'.pc = "list"
        \/ UNCHANGED op
      BY <1>m DEF OperationMoves
  <2> QED BY <1>m, <1>p, <1>t, <2>1, <2>2, <2>3, <2>4 DEF ProgressInv, Elsewhere
<1> QED BY <1>1, <1>2

(* An update command overwrites only what has a copy or is not promised.     *)
LEMMA CommandWritesCopies ==
    ASSUME IInv, CommandWrites
    PROVE  CopiesInv' /\ ProgressInv'
<1>1. kind = "command" /\ Updating /\ op.pc \notin {"undo", "copyEntry", "relist"}
    BY DEF IInv, UpdaterInv, OpInv, CommandWrites
<1>2. AtStake => op.pc \notin RollingBack
    BY <1>1 DEF IInv, OpInv, AtStake
<1> QED BY <1>1, <1>2 DEF CommandWrites, IInv, DirInv, CopiesInv, ProgressInv, AtStake,
             RollingBack, controller, history

(* The backup is removed only when the update is known to be good.           *)
LEMMA CleanupCopies ==
    ASSUME IInv, Cleanup
    PROVE  CopiesInv' /\ ProgressInv'
BY DEF Cleanup, IInv, OpInv, CopiesInv, ProgressInv, AtStake, history
(* The three parts about the directory, the update and the operation.        *)
LEMMA DirIsKept ==
    ASSUME IInv, Next
    PROVE  DirInv'
<1> USE DEF IInv, TypeOK, DirInv, UpdaterInv, OpInv, RollingBack, Transacting, Updating, files
<1>1. CASE Quiet
    BY <1>1, QuietMoves
<1>2. CASE PromoteBackup
    BY <1>2 DEF PromoteBackup
<1>3. CASE Cleanup \/ RemoveRestored
    BY <1>3 DEF Cleanup, RemoveRestored, DeleteBackup, DeleteBackupFails, ReportRestored, Retain, NoFiles
<1>4. CASE UndoEntry \/ CopyEntryBack \/ CopyBack \/ CommandWrites
    BY <1>4 DEF UndoEntry, CopyEntryBack, CopyBack, CommandWrites, Retain
<1>5. CASE WriteManifest
    BY <1>5 DEF WriteManifest, UpdaterGoes, UpdateEnds
<1>6. CASE RetainOriginal
  <2>1. updater.entry \notin existed => UNCHANGED kept
      BY <1>6 DEF RetainOriginal
  <2>2. UNCHANGED <<kind, saved, hasManifest>> /\ kind = "staged"
      BY <1>6 DEF RetainOriginal, StartUndo, UpdaterGoes
  <2>3. dir' \/ (~dir /\ UNCHANGED kept)
      BY <1>6, <2>1 DEF RetainOriginal
  <2> QED BY <2>2, <2>3
<1>7. CASE PromoteStaged
    BY <1>7 DEF PromoteStaged, StartUndo, UpdaterGoes
<1>8. CASE UndoStaged
  <2>1. \A q \in Path : kept[q] = NoFile => kept'[q] = NoFile
      BY <1>8 DEF UndoStaged, UndoNext, UpdaterGoes
  <2> QED BY <1>8, <2>1 DEF UndoStaged, UndoNext, UpdaterGoes, NoFiles
<1>9. CASE RemoveTransaction
    BY <1>9 DEF RemoveTransaction, UpdateEnds, NoFiles
<1> QED BY <1>1, <1>2, <1>3, <1>4, <1>5, <1>6, <1>7, <1>8, <1>9 DEF Next, Operation, Updater, Quiet

(* The code of an update ends with its execution.                            *)
LEMMA UpdaterIsKept ==
    ASSUME IInv, Next
    PROVE  UpdaterInv'
<1>p. 1 \in Path /\ Paths \in Path
    BY UpdateAssumption DEF Path
<1> USE DEF IInv, UpdaterInv, Transacting, AtStake, Updating, files, controller, history
<1>1. CASE Quiet
  <2>1. /\ UNCHANGED <<kind, dir, hasManifest>>
        /\ AtStake' => AtStake
        /\ UpdaterMoves
      BY <1>1, QuietMoves
  <2>2. CASE StartUpdate
    <3>1. Updating' /\ dir
        BY <2>2 DEF StartUpdate, Update, OpInv
    <3>2. kind = "staged" => updater'.pc = "stage"
        BY <2>2 DEF StartUpdate, UpdaterAt
    <3>3. kind = "command" => updater'.pc = "command"
        BY <2>2 DEF StartUpdate, UpdaterAt
    <3>4. kind \in {"staged", "command"}
        BY UpdateAssumption DEF TypeOK
    <3> QED BY <2>1, <3>1, <3>2, <3>3, <3>4
  <2>3. CASE Stage \/ Commit \/ CommandEnds
    <3>1. UpdaterGoes(UpdaterAt("manifest", 0)) \/ StartUndo => UNCHANGED <<exec, kind, verified, abandoned>>
        BY UpdaterGoesMoves DEF StartUndo
    <3>2. CASE \E ok \in BOOLEAN : UpdateEnds(ok)
        BY <3>2, UpdateEndsMoves
    <3>3. CASE Stage /\ UpdaterGoes(UpdaterAt("manifest", 0))
        BY <2>1, <3>1, <3>3, UpdaterGoesMoves DEF Stage
    <3>4. CASE Commit /\ StartUndo
        BY <1>p, <2>1, <3>1, <3>4, UpdaterGoesMoves DEF Commit, StartUndo
    <3> QED BY <2>3, <3>2, <3>3, <3>4 DEF Stage, Commit, CommandEnds
  <2>5. CASE NodeCrash
      BY <2>1, <2>5 DEF NodeCrash, NoUpdater
  <2>4. CASE UNCHANGED updater /\ (UNCHANGED exec \/ ~exec.alive \/ exec.kind = "server")
      BY <2>1, <2>4
  <2> QED BY <1>1, <2>2, <2>3, <2>4, <2>5 DEF Quiet, Begin, StopServer, WaitOffline, CopyBackup,
         StartUpdateFails, ReceiveExit, PollExit, GiveUpWaiting, Restart, WaitOnline,
         ReadManifest, UndoFails, ListBackup, RestartOld, WaitOnlineOld, ServerStarts,
         ServerEnds, ControllerCrash, LoseExit, StartServer, Retain, ReportRestored
<1>2. CASE PromoteBackup
    BY <1>2 DEF PromoteBackup, OpInv
<1>3. CASE Cleanup
    BY <1>3 DEF Cleanup, OpInv
<1>4. CASE RemoveRestored
    BY <1>4 DEF RemoveRestored, ReportRestored, Retain, OpInv, RollingBack
<1>5. CASE UndoEntry \/ CopyEntryBack \/ CopyBack \/ CommandWrites
    BY <1>5 DEF UndoEntry, CopyEntryBack, CopyBack, CommandWrites, Retain
<1>6. CASE WriteManifest
  <2>1. CASE UpdateEnds(FALSE)
      BY <2>1, UpdateEndsMoves
  <2>2. CASE UpdaterGoes(UpdaterAt("retain", 1)) /\ dir' /\ hasManifest'
      BY <1>6, <1>p, <2>2, UpdaterGoesMoves DEF WriteManifest
  <2> QED BY <1>6, <2>1, <2>2 DEF WriteManifest
<1>7. CASE RetainOriginal
  <2>1. CASE UpdaterGoes(UpdaterAt("promote", updater.entry))
    <3>1. dir => dir'
        BY <1>7 DEF RetainOriginal
    <3>2. UNCHANGED hasManifest /\ updater.pc = "retain"
        BY <1>7 DEF RetainOriginal
    <3> QED BY <2>1, <3>1, <3>2, UpdaterGoesMoves
  <2>2. CASE StartUndo /\ UNCHANGED files
      BY <1>7, <1>p, <2>2, UpdaterGoesMoves DEF RetainOriginal, StartUndo
  <2> QED BY <1>7, <2>1, <2>2 DEF RetainOriginal
<1>8. CASE PromoteStaged
  <2>1. updater.entry # Paths => updater.entry + 1 \in Path
      BY <1>8, UpdateAssumption DEF PromoteStaged, Path
  <2> QED BY <1>p, <1>8, <2>1, UpdaterGoesMoves DEF PromoteStaged, StartUndo
<1>9. CASE UndoStaged
  <2>1. UndoNext(TRUE) \/ UndoNext(FALSE)
      BY <1>9 DEF UndoStaged
  <2>2. updater.entry \in Path /\ (updater.entry # 1 => updater.entry - 1 \in Path)
      BY <1>9, UpdateAssumption DEF UndoStaged, Path
  <2>3. \/ updater'.pc = "remove"
        \/ updater'.pc = "undo" /\ updater'.entry \in Path
      BY <2>1, <2>2, UndoNextMoves
  <2> QED BY <1>9, <2>1, <2>3 DEF UndoStaged, UndoNext, UpdaterGoes
<1>10. CASE RemoveTransaction
    BY <1>10, UpdateEndsMoves DEF RemoveTransaction
<1> QED BY <1>1, <1>2, <1>3, <1>4, <1>5, <1>6, <1>7, <1>8, <1>9, <1>10 DEF Next, Operation, Updater, Quiet

(* The operation never touches the files of a running update, or gives up    *)
(* the promise.                                                              *)
LEMMA OpIsKept ==
    ASSUME IInv, Next
    PROVE  OpInv'
<1>i. op' = NoOp => op'.pc = "idle"
    BY DEF NoOp
<1>p. Paths \in Path
    BY UpdateAssumption DEF Path
<1> USE DEF IInv, OpInv, RollingBack, AtStake, Updating, files, controller, history
<1>1. CASE Begin
    BY <1>1, BeginMoves DEF Begin
<1>2. CASE StopServer \/ WaitOffline \/ CopyBackup
    BY <1>i, <1>2, GoToMoves DEF StopServer, WaitOffline, CopyBackup, Finish, GiveUpBackup
<1>3. CASE PromoteBackup
    BY <1>i, <1>3, GoToMoves DEF PromoteBackup, Finish, GiveUpBackup
<1>4. CASE StartUpdate \/ StartUpdateFails \/ ReceiveExit \/ PollExit \/ GiveUpWaiting
  <2>1. CASE StartUpdate
      BY <2>1, GoToMoves DEF StartUpdate
  <2>2. UpdateIsGood => op'.pc \in {"restart", "cleanup"} /\ (op'.pc = "cleanup" => verified')
    <3>1. CASE op.wasRunning
        BY <3>1, GoToMoves DEF UpdateIsGood
    <3>2. CASE ~op.wasRunning
        BY <3>2, GoToMoves DEF UpdateIsGood
    <3> QED BY <3>1, <3>2
  <2> QED BY <1>4, <2>1, <2>2, RollBackMoves DEF StartUpdateFails, ReceiveExit, PollExit, GiveUpWaiting
<1>5. CASE Restart \/ WaitOnline
    BY <1>5, GoToMoves, RollBackMoves DEF Restart, WaitOnline, StartServer, Server
<1>6. CASE Cleanup \/ RemoveRestored \/ RestartOld \/ WaitOnlineOld \/ ControllerCrash
    BY <1>i, <1>6, GoToMoves DEF Cleanup, RemoveRestored, RestartOld, WaitOnlineOld,
       ControllerCrash, StartServer, Finish, Retain, ReportRestored
<1>7. CASE ReadManifest
    BY <1>p, <1>7, ReadManifestMoves DEF ReadManifest, Retain, DirInv
<1>8. CASE UndoEntry \/ CopyEntryBack
  <2>1. op.entry \in Path /\ (op.entry # 1 => op.entry - 1 \in Path)
      BY <1>8, UpdateAssumption DEF UndoEntry, CopyEntryBack, Path
  <2>2. \/ op'.pc = "copyEntry" /\ op'.entry = op.entry
        \/ op'.pc = "relist"
        \/ op'.pc = "undo" /\ op'.entry \in Path
      BY <1>8, <2>1, GoToMoves, NextEntryMoves DEF UndoEntry, CopyEntryBack
  <2> QED BY <1>8, <2>2 DEF UndoEntry, CopyEntryBack
<1>9. CASE UndoFails \/ ListBackup \/ CopyBack
    BY <1>i, <1>9, GoToMoves DEF UndoFails, ListBackup, CopyBack, Retain, ReportRestored, Finish
<1>10. CASE ServerStarts \/ ServerEnds \/ NodeCrash \/ LoseExit
  <2>1. Updating' => Updating
    <3>1. CASE ServerEnds
        BY <3>1, EndsMoves DEF ServerEnds
    <3> QED BY <1>10, <3>1 DEF ServerStarts, NodeCrash, LoseExit, Server, NoExecution
  <2> QED BY <1>10, <2>1 DEF ServerStarts, ServerEnds, NodeCrash, LoseExit
<1>11. CASE Updater
  <2>1. updater.pc # "none"
      BY <1>11 DEF Updater, Stage, WriteManifest, RetainOriginal, PromoteStaged, Commit, UndoStaged,
         RemoveTransaction, CommandWrites, CommandEnds
  <2>2. op.pc \notin {"backup", "promote", "update"}
      BY <2>1 DEF UpdaterInv
  <2>3. UNCHANGED <<kind, op, verified, abandoned>> /\ (Updating' => Updating)
      BY <1>11, EndsMoves
         DEF Updater, Stage, WriteManifest, RetainOriginal, PromoteStaged, Commit, UndoStaged,
         RemoveTransaction, CommandWrites, CommandEnds, UpdaterGoes, UpdateEnds, StartUndo, UndoNext
  <2> QED BY <2>2, <2>3
<1> QED BY <1>1, <1>2, <1>3, <1>4, <1>5, <1>6, <1>7, <1>8, <1>9, <1>10, <1>11 DEF Next, Operation
(* Every step keeps the copies good.                                         *)
LEMMA CopiesAreKept ==
    ASSUME IInv, Next
    PROVE  CopiesInv' /\ ProgressInv'
BY QuietCopies, CommandWritesCopies, CleanupCopies, PromoteBackupCopies, UndoEntryCopies,
   CopyEntryBackCopies, CopyBackCopies, RemoveRestoredCopies, WriteManifestCopies,
   RetainOriginalCopies, PromoteStagedCopies, UndoStagedCopies, RemoveTransactionCopies
   DEF Next, Operation, Updater, Quiet

--------------------------------------------------------------------------------
(* The initial states satisfy the invariant.                                 *)
LEMMA InitIInv == Init => IInv
<1> SUFFICES ASSUME Init PROVE IInv
    OBVIOUS
<1>1. TypeOK
  <2>1. live \in [Path -> Content] /\ NoFiles \in [Path -> Content]
      BY UpdateAssumption DEF Init, NoFiles, Content, Version
  <2>2. exec \in Executions /\ updater \in Updaters /\ op \in Operations
      BY RecordTypes DEF Init
  <2>3. ops \in Version /\ kind \in Kinds
      BY UpdateAssumption DEF Init, Version
  <2> QED BY <2>1, <2>2, <2>3 DEF Init, TypeOK
<1> USE DEF Init, NoOp, NoUpdater
<1>2. DirInv
    BY DEF DirInv
<1>3. UpdaterInv
    BY DEF UpdaterInv, Transacting
<1>4. OpInv
    BY DEF OpInv, RollingBack
<1>5. CopiesInv /\ ProgressInv
    BY DEF CopiesInv, ProgressInv
<1> QED BY <1>1, <1>2, <1>3, <1>4, <1>5 DEF IInv

(* Every step, and every stutter, keeps it.                                  *)
LEMMA NextIInv ==
    ASSUME IInv, [Next]_vars
    PROVE  IInv'
<1>1. CASE Next
  <2>1. TypeOK'
      BY <1>1, ControllerTypes, NodeTypes DEF Next
  <2> QED BY <1>1, <2>1, DirIsKept, UpdaterIsKept, OpIsKept, CopiesAreKept DEF IInv
<1>2. CASE UNCHANGED vars
    BY <1>2 DEF vars, files, controller, history, IInv, TypeOK, DirInv, UpdaterInv, OpInv, CopiesInv,
       ProgressInv, AtStake, Updating, Promised
<1> QED BY <1>1, <1>2

(* The invariant holds of UpdateService's every state.                       *)
THEOREM Invariant == Spec => []IInv
BY InitIInv, NextIInv, PTL DEF Spec

(* Every variable keeps its type, whatever fails: UpdateService's state.     *)
THEOREM TypeCorrect == Spec => []TypeOK
<1>1. IInv => TypeOK
    BY DEF IInv
<1> QED BY <1>1, Invariant, PTL

(* A copy in .update-backup is one of the original, and a path without one   *)
(* still holds it: so a restore has everything it needs.                     *)
LEMMA CopiesAreEnough == IInv => OriginalsAreRecoverable
<1> SUFFICES ASSUME IInv, dir, AtStake
             PROVE  /\ ~RestoreWouldStop
                    /\ \A p \in Promised : RestoreWouldGive(p) = base[p]
    BY DEF OriginalsAreRecoverable, AtStake
<1>1. CopiesInv /\ DirInv /\ kind \in {"staged", "command"} /\ Covered \subseteq Path
    BY UpdateAssumption DEF IInv, TypeOK, Path
<1>2. ~RestoreWouldStop
  <2> SUFFICES ASSUME NEW p \in existed, hasManifest, kept[p] = NoFile, live[p] = NoFile
               PROVE  FALSE
      BY DEF RestoreWouldStop
  <2>1. p \in Path /\ base[p] # NoFile /\ live[p] = base[p]
      BY <1>1 DEF CopiesInv
  <2> QED BY <2>1
<1>3. ASSUME NEW p \in Promised
      PROVE  RestoreWouldGive(p) = base[p]
  <2>1. p \in Path
      BY <1>1, <1>3 DEF Promised
  <2>2. CASE saved[p] # NoFile
      BY <1>1, <2>1, <2>2 DEF CopiesInv, RestoreWouldGive
  <2>3. CASE saved[p] = NoFile /\ ~hasManifest
      BY <1>1, <1>3, <2>1, <2>3 DEF CopiesInv, RestoreWouldGive, Undone, Promised
  <2>4. CASE saved[p] = NoFile /\ hasManifest
      BY <1>1, <2>1, <2>4 DEF CopiesInv, RestoreWouldGive, Undone
  <2> QED BY <2>2, <2>3, <2>4
<1> QED BY <1>2, <1>3

(* Whatever fails and whoever crashes, a complete restore would bring back   *)
(* every file until the update is found to be good: staged-update.go,        *)
(* rollbackUpdate and restoreNodeServerFiles never lose an original.         *)
THEOREM OriginalsCanBeRecovered == Spec => []OriginalsAreRecoverable
BY Invariant, CopiesAreEnough, PTL

====
