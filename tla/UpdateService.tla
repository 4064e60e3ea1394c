---- MODULE UpdateService ----
(* The update of one game server: runUpdateWithBackup of                     *)
(* internal/controller/actions/update_service.go, which stops the server,    *)
(* copies its files to .update-backup, runs the update on the node, waits    *)
(* for its end, restarts the server and, when anything fails, rolls back;    *)
(* and the update itself, either the staged update of                        *)
(* internal/gameintegrations/games/staged-update.go, a transaction that      *)
(* moves each path aside and the new one in its place, or an update command  *)
(* that overwrites the files as it likes.                                    *)
(* The controller and the node may end between any two steps, every call may *)
(* fail or lose its answer, and users start and stop the server meanwhile.   *)
EXTENDS Integers, FiniteSets

CONSTANTS Paths,      \* the update's payload is the paths 1..Paths, in the order of their names
          Existing,   \* the paths a server has before its first update
          Covered,    \* the existing paths shouldBackupUpdateFile accepts
          Kinds,      \* how the game is updated
          MaxOps      \* bound on the update operations

ASSUME UpdateAssumption ==
    /\ Paths \in Nat \ {0}
    /\ Existing \subseteq 1..Paths
    /\ Covered \subseteq Existing
    /\ Kinds \subseteq {"staged", "command"}
    /\ MaxOps \in Nat \ {0}

VARIABLES
    kind,         \* how this server's game is updated
    (* the files of the server, on the node *)
    live,         \* the version of each path
    dir,          \* whether .update-backup exists
    saved,        \* the copies in it
    hasManifest,  \* whether .update-backup/.internal-update/manifest.json exists
    existed,      \* the paths it lists as existing before the update
    kept,         \* the originals in .update-backup/.internal-update/files
    (* the node *)
    exec,         \* the last execution the supervisor knows of this server
    updater,      \* where the code of an update is
    exits,        \* status events of ended updates that are on their way
    (* the controller *)
    op,           \* the operation that holds the server, if any
    ops,          \* operations so far; operation n installs version n
    outcome,      \* what the last operation reported
    (* history *)
    base,         \* the files when .update-backup was made
    verified,     \* the update that .update-backup belongs to was found to be good
    abandoned     \* a rollback began while the update was still running

files == <<live, dir, saved, hasManifest, existed, kept>>
controller == <<op, ops, outcome>>
history == <<base, verified, abandoned>>
vars == <<kind, files, exec, updater, exits, controller, history>>

Path == 1..Paths
NoFile == -1
Version == 0..MaxOps
Content == Version \cup {NoFile}
NoFiles == [p \in Path |-> NoFile]

NoExecution == [kind |-> "none", id |-> 0, alive |-> FALSE, ok |-> FALSE]
Server == [kind |-> "server", id |-> 0, alive |-> TRUE, ok |-> FALSE]
Update(n) == [kind |-> "update", id |-> n, alive |-> TRUE, ok |-> FALSE]

(* entry is the entry of the manifest in hand; failed says that undoing one  *)
(* of them did not work.                                                     *)
NoUpdater == [pc |-> "none", entry |-> 0, failed |-> FALSE]
UpdaterAt(pc, entry) == [pc |-> pc, entry |-> entry, failed |-> FALSE]

NoOp == [pc |-> "idle", wasRunning |-> FALSE, entry |-> 0]

Executions == [kind : {"none", "server", "update"}, id : Version, alive : BOOLEAN, ok : BOOLEAN]
Exits == [id : Version, ok : BOOLEAN]
UpdaterPlaces == {"none", "command", "stage", "manifest", "retain", "promote", "commit",
                  "undo", "remove"}
Updaters == [pc : UpdaterPlaces, entry : 0..Paths, failed : BOOLEAN]
OpPlaces == {"idle", "stop", "offline", "backup", "promote", "update", "wait",
             "restart", "online", "cleanup", "manifest", "undo", "copyEntry",
             "list", "relist", "copyBack", "removeDir", "restartOld", "onlineOld"}
Operations == [pc : OpPlaces, wasRunning : BOOLEAN, entry : 0..Paths]

Updating == exec.kind = "update" /\ exec.alive

TypeOK ==
    /\ kind \in Kinds
    /\ live \in [Path -> Content] /\ saved \in [Path -> Content]
    /\ kept \in [Path -> Content] /\ base \in [Path -> Content]
    /\ dir \in BOOLEAN /\ hasManifest \in BOOLEAN /\ existed \subseteq Path
    /\ exec \in Executions /\ exits \subseteq Exits
    /\ updater \in Updaters
    /\ op \in Operations
    /\ ops \in Version
    /\ outcome \in {"none", "running", "failed", "succeeded", "restored", "retained"}
    /\ verified \in BOOLEAN /\ abandoned \in BOOLEAN

Init ==
    /\ kind \in Kinds
    /\ live = [p \in Path |-> IF p \in Existing THEN 0 ELSE NoFile]
    /\ dir = FALSE /\ saved = NoFiles
    /\ hasManifest = FALSE /\ existed = {} /\ kept = NoFiles
    /\ exec \in {NoExecution, Server}
    /\ updater = NoUpdater
    /\ exits = {}
    /\ op = NoOp /\ ops = 0 /\ outcome = "none"
    /\ base = live
    /\ verified = FALSE /\ abandoned = FALSE

--------------------------------------------------------------------------------
(* The controller.  GoTo moves the operation on; Finish ends it.             *)

GoTo(pc) == op' = [op EXCEPT !.pc = pc]

Finish(result) ==
    /\ op' = NoOp
    /\ outcome' = result

(* rollbackUpdate.  The update process is not asked to stop.                 *)
RollBack ==
    /\ GoTo("manifest")
    /\ abandoned' = (abandoned \/ Updating)
    /\ UNCHANGED <<outcome, base, verified>>

(* UpdateGameServerWithBackup and the beginning of runUpdateWithBackup.  The *)
(* process is running, OFFLINE, or its status cannot be learnt.              *)
Begin ==
    /\ op.pc = "idle"
    /\ ops < MaxOps
    /\ ops' = ops + 1
    /\ \/ /\ op' = [NoOp EXCEPT !.pc = IF exec.alive THEN "stop" ELSE "backup",
                                !.wasRunning = exec.alive]
          /\ outcome' = "running"
       \/ Finish("failed")
    /\ UNCHANGED <<kind, files, exec, updater, exits, history>>

(* StopGameServer, then up to 30 s of waiting for OFFLINE.  A process that   *)
(* obeys or is killed ends by itself here; the code of a staged update runs  *)
(* inside the node and is not affected.                                      *)
StopServer ==
    /\ op.pc = "stop"
    /\ \/ GoTo("offline") /\ UNCHANGED outcome
       \/ Finish("failed")
    /\ UNCHANGED <<kind, files, exec, updater, exits, ops, history>>

WaitOffline ==
    /\ op.pc = "offline"
    /\ \/ ~exec.alive /\ GoTo("backup") /\ UNCHANGED outcome
       \/ Finish("failed")
    /\ UNCHANGED <<kind, files, exec, updater, exits, ops, history>>

(* After a failed backup the server is started again if it was running.      *)
GiveUpBackup ==
    /\ IF op.wasRunning THEN GoTo("restartOld") ELSE op' = NoOp
    /\ outcome' = "failed"

(* backupNodeServerFiles.  Copies are made in a pending directory first,     *)
(* which matters to nobody until it is renamed.                              *)
CopyBackup ==
    /\ op.pc = "backup"
    /\ \/ ~dir /\ GoTo("promote") /\ UNCHANGED outcome
       \/ GiveUpBackup
    /\ UNCHANGED <<kind, files, exec, updater, exits, ops, history>>

PromoteBackup ==
    /\ op.pc = "promote"
    /\ \/ /\ ~dir
          /\ dir' = TRUE
          /\ saved' = [p \in Path |-> IF p \in Covered THEN live[p] ELSE NoFile]
          /\ base' = live
          /\ verified' = FALSE
          /\ abandoned' = FALSE
          /\ \/ GoTo("update") /\ UNCHANGED outcome
             \/ GiveUpBackup                        \* the answer of the node is lost
       \/ GiveUpBackup /\ UNCHANGED <<dir, saved, history>>
    /\ UNCHANGED <<kind, live, hasManifest, existed, kept, exec, updater, exits, ops>>

(* startGameServerUpdate.  The node refuses a second process.                *)
StartUpdate ==
    /\ op.pc = "update"
    /\ ~exec.alive
    /\ exec' = Update(ops)
    /\ updater' = UpdaterAt(IF kind = "staged" THEN "stage" ELSE "command", 0)
    /\ \/ GoTo("wait") /\ UNCHANGED <<outcome, history>>
       \/ (* the answer of the node is lost *)
          /\ GoTo("manifest")
          /\ abandoned' = TRUE
          /\ UNCHANGED <<outcome, base, verified>>
    /\ UNCHANGED <<kind, files, exits, ops>>

StartUpdateFails ==
    /\ op.pc = "update"
    /\ RollBack
    /\ UNCHANGED <<kind, files, exec, updater, exits, ops>>

UpdateIsGood ==
    /\ GoTo(IF op.wasRunning THEN "restart" ELSE "cleanup")
    /\ verified' = (verified \/ ~op.wasRunning)
    /\ UNCHANGED <<outcome, base, abandoned>>

(* Mistake: any exit of this server's updates is taken for the awaited one.  *)
ReceiveAnyExit ==
    /\ op.pc = "wait"
    /\ \E e \in exits :
         /\ exits' = exits \ {e}
         /\ IF e.ok THEN UpdateIsGood ELSE RollBack
    /\ UNCHANGED <<kind, files, exec, updater, ops>>

(* waitForUpdateProcessExit.  The event and the poll race.                   *)
ReceiveExit ==
    /\ op.pc = "wait"
    /\ \E e \in exits :
         /\ e.id = ops
         /\ exits' = exits \ {e}
         /\ IF e.ok THEN UpdateIsGood ELSE RollBack
    /\ UNCHANGED <<kind, files, exec, updater, ops>>

PollExit ==
    /\ op.pc = "wait"
    /\ exec.kind = "update" /\ exec.id = ops /\ ~exec.alive
    /\ IF exec.ok THEN UpdateIsGood ELSE RollBack
    /\ UNCHANGED <<kind, files, exec, updater, exits, ops>>

(* Mistake: there is no timer.                                               *)
GiveUpWithoutTimer ==
    /\ op.pc = "wait"
    /\ exec.kind # "update" \/ exec.id # ops \/ ~exec.alive
    /\ RollBack
    /\ UNCHANGED <<kind, files, exec, updater, exits, ops>>

(* The process is not found, another one has replaced it, the snapshot lacks *)
(* the metadata of the end, or six hours have passed.                        *)
GiveUpWaiting ==
    /\ op.pc = "wait"
    /\ RollBack
    /\ UNCHANGED <<kind, files, exec, updater, exits, ops>>

(* The starts of the server by the operation: the node may refuse, and its   *)
(* answer may get lost.                                                      *)
StartServer(started, refused) ==
    /\ \/ ~exec.alive /\ exec' = Server /\ (started \/ refused)
       \/ exec' = exec /\ refused

Restart ==
    /\ op.pc = "restart"
    /\ StartServer(GoTo("online") /\ UNCHANGED <<outcome, history>>, RollBack)
    /\ UNCHANGED <<kind, files, updater, exits, ops>>

WaitOnline ==
    /\ op.pc = "online"
    /\ \/ /\ exec.kind = "server" /\ exec.alive
          /\ GoTo("cleanup")
          /\ verified' = TRUE
          /\ UNCHANGED <<outcome, base, abandoned>>
       \/ RollBack
    /\ UNCHANGED <<kind, files, exec, updater, exits, ops>>

(* DeleteFiles of .update-backup.  An error in the middle leaves some of it. *)
DeleteBackup ==
    /\ dir' = FALSE
    /\ saved' = NoFiles /\ kept' = NoFiles
    /\ hasManifest' = FALSE /\ existed' = {}

DeleteBackupFails ==
    /\ \E S, T \in SUBSET Path :
         /\ saved' = [p \in Path |-> IF p \in S THEN NoFile ELSE saved[p]]
         /\ kept' = [p \in Path |-> IF p \in T THEN NoFile ELSE kept[p]]
    /\ \/ UNCHANGED <<hasManifest, existed>>
       \/ hasManifest' = FALSE /\ existed' = {}
    /\ UNCHANGED dir

Cleanup ==
    /\ op.pc = "cleanup"
    /\ DeleteBackup \/ DeleteBackupFails
    /\ Finish("succeeded")
    /\ UNCHANGED <<kind, live, exec, updater, exits, ops, history>>

--------------------------------------------------------------------------------
(* restoreNodeServerFiles: the manifest's entries backwards, then the files  *)
(* of .update-backup, then .update-backup itself is deleted.  An error ends  *)
(* the rollback and leaves everything as it is.                              *)

Retain == Finish("retained") /\ UNCHANGED <<kind, exec, updater, exits, ops, history>>

ReportRestored ==
    /\ IF op.wasRunning THEN GoTo("restartOld") ELSE op' = NoOp
    /\ outcome' = "restored"
    /\ UNCHANGED <<kind, exec, updater, exits, ops, history>>

ReadManifest ==
    /\ op.pc = "manifest"
    /\ \/ /\ op' = [op EXCEPT !.pc = IF hasManifest THEN "undo" ELSE "list",
                              !.entry = IF hasManifest THEN Paths ELSE 0]
          /\ UNCHANGED <<kind, outcome, exec, updater, exits, ops, history>>
       \/ Retain
    /\ UNCHANGED files

(* Mistake: the last entry is not noticed.                                   *)
NextEntryForEver == op' = [op EXCEPT !.pc = "undo", !.entry = op.entry - 1]

NextEntry ==
    op' = [op EXCEPT !.pc = IF op.entry = 1 THEN "relist" ELSE "undo",
                     !.entry = IF op.entry = 1 THEN 0 ELSE op.entry - 1]

(* Mistake: files that the update has added stay.                            *)
UndoReplacedOnly ==
    /\ op.pc = "undo"
    /\ LET p == op.entry IN
       \/ /\ p \notin existed \/ (kept[p] = NoFile /\ live[p] # NoFile)
          /\ NextEntry
          /\ UNCHANGED live
       \/ /\ p \in existed /\ kept[p] # NoFile
          /\ live' = [live EXCEPT ![p] = NoFile]
          /\ GoTo("copyEntry")
    /\ UNCHANGED <<kind, dir, saved, hasManifest, existed, kept, exec, updater, exits, ops,
                   outcome, history>>

(* A path whose original was never moved aside is left alone.                *)
UndoEntry ==
    /\ op.pc = "undo"
    /\ LET p == op.entry IN
       \/ /\ p \in existed /\ kept[p] = NoFile /\ live[p] # NoFile
          /\ NextEntry
          /\ UNCHANGED live
       \/ /\ p \in existed /\ kept[p] # NoFile
          /\ live' = [live EXCEPT ![p] = NoFile]
          /\ GoTo("copyEntry")
       \/ /\ p \notin existed
          /\ live' = [live EXCEPT ![p] = NoFile]
          /\ NextEntry
    /\ UNCHANGED <<kind, dir, saved, hasManifest, existed, kept, exec, updater, exits, ops,
                   outcome, history>>

CopyEntryBack ==
    /\ op.pc = "copyEntry"
    /\ kept[op.entry] # NoFile
    /\ live' = [live EXCEPT ![op.entry] = kept[op.entry]]
    /\ NextEntry
    /\ UNCHANGED <<kind, dir, saved, hasManifest, existed, kept, exec, updater, exits, ops,
                   outcome, history>>

(* Mistake: the error is logged and the other entries are undone.            *)
SkipFailedEntry ==
    /\ op.pc \in {"undo", "copyEntry"}
    /\ NextEntry
    /\ UNCHANGED <<kind, files, exec, updater, exits, ops, outcome, history>>

UndoFails ==
    /\ op.pc \in {"undo", "copyEntry"}
    /\ Retain
    /\ UNCHANGED files

(* Without .update-backup there is nothing to restore, and after a manifest  *)
(* was found in it that is an error.                                         *)
ListBackup ==
    /\ op.pc \in {"list", "relist"}
    /\ \/ /\ dir
          /\ GoTo("copyBack")
          /\ UNCHANGED <<kind, outcome, exec, updater, exits, ops, history>>
       \/ /\ ~dir /\ op.pc = "list"
          /\ ReportRestored
       \/ Retain
    /\ UNCHANGED files

Restored(S) == [p \in Path |-> IF p \in S /\ saved[p] # NoFile THEN saved[p] ELSE live[p]]

CopyBack ==
    /\ op.pc = "copyBack"
    /\ \/ /\ live' = Restored(Path)
          /\ GoTo("removeDir")
          /\ UNCHANGED <<kind, outcome, exec, updater, exits, ops, history>>
       \/ /\ \E S \in SUBSET Path : live' = Restored(S)
          /\ Retain
    /\ UNCHANGED <<dir, saved, hasManifest, existed, kept>>

RemoveRestored ==
    /\ op.pc = "removeDir"
    /\ \/ DeleteBackup /\ ReportRestored
       \/ (DeleteBackup \/ DeleteBackupFails) /\ Retain
    /\ UNCHANGED live

RestartOld ==
    /\ op.pc = "restartOld"
    /\ StartServer(GoTo("onlineOld"), op' = NoOp)
    /\ UNCHANGED <<kind, files, updater, exits, ops, outcome, history>>

(* The operation ends whether the server comes back or not.                  *)
WaitOnlineOld ==
    /\ op.pc = "onlineOld"
    /\ op' = NoOp
    /\ UNCHANGED <<kind, files, exec, updater, exits, ops, outcome, history>>

(* The controller ends; operations are in its memory only.                   *)
ControllerCrash ==
    /\ op.pc # "idle"
    /\ op' = NoOp
    /\ outcome' = "none"
    /\ UNCHANGED <<kind, files, exec, updater, exits, ops, history>>

--------------------------------------------------------------------------------
(* The node.                                                                 *)

(* The update ends: its execution finalizes and the event leaves.            *)
UpdateEnds(ok) ==
    /\ exec' = [exec EXCEPT !.alive = FALSE, !.ok = ok]
    /\ exits' = exits \cup {[id |-> exec.id, ok |-> ok]}
    /\ updater' = NoUpdater
    /\ UNCHANGED <<kind, controller, history>>

UpdaterGoes(u) ==
    /\ updater' = u
    /\ UNCHANGED <<kind, exec, exits, controller, history>>

(* newStagedUpdate, the download and the checks of the payload.              *)
Stage ==
    /\ updater.pc = "stage"
    /\ \/ ~hasManifest /\ UpdaterGoes(UpdaterAt("manifest", 0))
       \/ UpdateEnds(FALSE)
    /\ UNCHANGED files

(* Apply up to writeManifest: what exists now is what a rollback brings back.*)
WriteManifest ==
    /\ updater.pc = "manifest"
    /\ \/ /\ ~hasManifest
          /\ dir' = TRUE
          /\ hasManifest' = TRUE
          /\ existed' = {p \in Path : live[p] # NoFile}
          /\ UpdaterGoes(UpdaterAt("retain", 1))
          /\ UNCHANGED <<live, saved, kept>>
       \/ /\ UpdateEnds(FALSE)
          /\ dir' = TRUE \/ UNCHANGED dir
          /\ UNCHANGED <<live, saved, hasManifest, existed, kept>>

StartUndo == UpdaterGoes(UpdaterAt("undo", Paths))

(* applyEntry: the live path is renamed to the originals, if there was one,  *)
(* and the staged path to the live one.                                      *)
RetainOriginal ==
    /\ updater.pc = "retain"
    /\ LET p == updater.entry IN
       \/ /\ p \in existed => live[p] # NoFile
          /\ kept' = [kept EXCEPT ![p] = IF p \in existed THEN live[p] ELSE @]
          /\ live' = [live EXCEPT ![p] = IF p \in existed THEN NoFile ELSE @]
          /\ dir' = (dir \/ p \in existed)
          /\ UpdaterGoes(UpdaterAt("promote", p))
          /\ UNCHANGED <<saved, hasManifest, existed>>
       \/ StartUndo /\ UNCHANGED files

PromoteStaged ==
    /\ updater.pc = "promote"
    /\ LET p == updater.entry IN
       \/ /\ live' = [live EXCEPT ![p] = exec.id]
          /\ UpdaterGoes(IF p = Paths THEN UpdaterAt("commit", 0) ELSE UpdaterAt("retain", p + 1))
          /\ UNCHANGED <<dir, saved, hasManifest, existed, kept>>
       \/ StartUndo /\ UNCHANGED files

(* The marker of the commit is read by nobody; writing it may fail.          *)
Commit ==
    /\ updater.pc = "commit"
    /\ \/ UpdateEnds(TRUE)
       \/ StartUndo
    /\ UNCHANGED files

(* rollback: all entries backwards, the failed ones are skipped.             *)
UndoNext(failed) ==
    UpdaterGoes([pc |-> IF updater.entry = 1 THEN "remove" ELSE "undo",
                 entry |-> IF updater.entry = 1 THEN 0 ELSE updater.entry - 1,
                 failed |-> updater.failed \/ failed])

UndoStaged ==
    /\ updater.pc = "undo"
    /\ LET p == updater.entry IN
       \/ /\ p \in existed /\ kept[p] = NoFile
          /\ UndoNext(FALSE)
          /\ UNCHANGED <<live, kept>>
       \/ /\ p \in existed => kept[p] # NoFile
          /\ live' = [live EXCEPT ![p] = IF p \in existed THEN kept[p] ELSE NoFile]
          /\ kept' = [kept EXCEPT ![p] = NoFile]
          /\ UndoNext(FALSE)
       \/ (* the rename fails after the live path has been removed *)
          /\ p \in existed => kept[p] # NoFile
          /\ live' = [live EXCEPT ![p] = NoFile]
          /\ UndoNext(TRUE)
          /\ UNCHANGED kept
       \/ UndoNext(TRUE) /\ UNCHANGED <<live, kept>>
    /\ UNCHANGED <<dir, saved, hasManifest, existed>>

(* Mistake: the directory goes even if an original could not be put back.    *)
RemoveAnyTransaction ==
    /\ updater.pc = "remove"
    /\ kept' = NoFiles /\ hasManifest' = FALSE /\ existed' = {}
    /\ dir' = (saved # NoFiles)
    /\ UpdateEnds(FALSE)
    /\ UNCHANGED <<live, saved>>

(* removeRollbackDirectory, unless something could not be undone.  It also   *)
(* removes .update-backup if that is empty now.                              *)
RemoveTransaction ==
    /\ updater.pc = "remove"
    /\ \/ /\ ~updater.failed
          /\ kept' = NoFiles /\ hasManifest' = FALSE /\ existed' = {}
          /\ dir' = (saved # NoFiles)
       \/ /\ ~updater.failed
          /\ \E T \in SUBSET Path : kept' = [p \in Path |-> IF p \in T THEN NoFile ELSE kept[p]]
          /\ \/ UNCHANGED <<hasManifest, existed>>
             \/ hasManifest' = FALSE /\ existed' = {}
          /\ UNCHANGED dir
       \/ updater.failed /\ UNCHANGED <<dir, hasManifest, existed, kept>>
    /\ UpdateEnds(FALSE)
    /\ UNCHANGED <<live, saved>>

(* An update command, external to the repository: it overwrites the files in *)
(* any order and reports success only when it has written all of them.       *)
CommandWrites ==
    /\ updater.pc = "command"
    /\ \E p \in Path : live[p] # exec.id /\ live' = [live EXCEPT ![p] = exec.id]
    /\ UNCHANGED <<kind, dir, saved, hasManifest, existed, kept, exec, updater, exits,
                   controller, history>>

CommandEnds ==
    /\ updater.pc = "command"
    /\ \E ok \in BOOLEAN : (ok => \A p \in Path : live[p] = exec.id) /\ UpdateEnds(ok)
    /\ UNCHANGED files

(* A user, a task or auto-restart starts the server; none of them asks for   *)
(* the operation.  It ends when asked to, or by itself.                      *)
ServerStarts ==
    /\ ~exec.alive
    /\ exec' = Server
    /\ UNCHANGED <<kind, files, updater, exits, controller, history>>

ServerEnds ==
    /\ exec.kind = "server" /\ exec.alive
    /\ exec' = [exec EXCEPT !.alive = FALSE]
    /\ UNCHANGED <<kind, files, updater, exits, controller, history>>

(* The node ends with its processes; the next one knows of none.             *)
NodeCrash ==
    /\ exec.kind # "none"
    /\ exec' = NoExecution
    /\ updater' = NoUpdater
    /\ UNCHANGED <<kind, files, exits, controller, history>>

(* An event arrives while nobody waits for it, or its connection breaks.     *)
LoseExit ==
    /\ \E e \in exits : exits' = exits \ {e}
    /\ UNCHANGED <<kind, files, exec, updater, controller, history>>

--------------------------------------------------------------------------------
Operation ==
    \/ StopServer \/ WaitOffline \/ CopyBackup \/ PromoteBackup
    \/ StartUpdate \/ StartUpdateFails \/ ReceiveExit \/ PollExit \/ GiveUpWaiting
    \/ Restart \/ WaitOnline \/ Cleanup
    \/ ReadManifest \/ UndoEntry \/ CopyEntryBack \/ UndoFails
    \/ ListBackup \/ CopyBack \/ RemoveRestored \/ RestartOld \/ WaitOnlineOld

Updater ==
    \/ Stage \/ WriteManifest \/ RetainOriginal \/ PromoteStaged \/ Commit
    \/ UndoStaged \/ RemoveTransaction \/ CommandWrites \/ CommandEnds

Next ==
    \/ Begin \/ Operation \/ Updater
    \/ ServerStarts \/ ServerEnds \/ ControllerCrash \/ NodeCrash \/ LoseExit

(* The operation is a goroutine that goes on as long as the controller runs: *)
(* each of its waits has a timer.                                            *)
Spec == Init /\ [][Next]_vars /\ WF_vars(Operation)

--------------------------------------------------------------------------------
(* Properties.                                                               *)

(* The paths a rollback promises to bring back: a staged update is undone as *)
(* a whole, a command only where backupNodeServerFiles has made a copy.      *)
Promised == IF kind = "staged" THEN Path ELSE {p \in Covered : base[p] # NoFile}

(* What restoreNodeServerFiles would make of a path if it ran now and        *)
(* nothing failed.                                                           *)
Undone(p) ==
    IF ~hasManifest THEN live[p]
    ELSE IF p \notin existed THEN NoFile
    ELSE IF kept[p] # NoFile THEN kept[p]
    ELSE live[p]

RestoreWouldGive(p) == IF saved[p] # NoFile THEN saved[p] ELSE Undone(p)

(* It would stop at a path of which nothing is left.                         *)
RestoreWouldStop ==
    hasManifest /\ \E p \in existed : kept[p] = NoFile /\ live[p] = NoFile

(* From the moment the backup exists until the update is found to be good,   *)
(* a complete restore would bring back every file, wherever the controller   *)
(* and the node stand, whatever has failed, and after any crash: staged-     *)
(* update.go, rollbackUpdate and restoreNodeServerFiles never destroy the    *)
(* last copy of an original, nor the record that says what to do with it.    *)
(* Not once a rollback has begun under a running update.                     *)
OriginalsAreRecoverable ==
    dir /\ ~verified /\ ~abandoned =>
        /\ ~RestoreWouldStop
        /\ \A p \in Promised : RestoreWouldGive(p) = base[p]

(* A rollback that reports restored files has restored them (rollbackUpdate),*)
(* unless the update process was still at work on them.                      *)
RollbackTellsTheTruth ==
    [][outcome' = "restored" /\ outcome # "restored"
         => abandoned \/ \A p \in Promised : live[p] = base[p]]_vars

(* An update that reports success has installed its own version everywhere   *)
(* (runUpdateWithBackup and the correlation by execution in                  *)
(* waitForUpdateProcessExit): no late exit of an earlier update stands in    *)
(* for this one.                                                             *)
SuccessMeansInstalled ==
    [][outcome' = "succeeded" /\ outcome # "succeeded" => \A p \in Path : live[p] = ops]_vars

(* What the operation starts the server on: after an update every path is of *)
(* its own version; after a rollback that reports restored files every       *)
(* promised path is as it was before, unless the update was still running    *)
(* when the rollback began.  So a rolled-back staged update leaves one whole *)
(* version; after a command's only the covered files are known to be the old *)
(* ones, beside whatever it made of the others (runUpdateWithBackup,         *)
(* rollbackUpdate).                                                          *)
StartsMatchOutcome ==
    [][exec'.alive /\ ~exec.alive =>
         /\ Restart => \A p \in Path : live[p] = ops
         /\ RestartOld /\ outcome = "restored" =>
                abandoned \/ \A p \in Promised : live[p] = base[p]]_vars

(* Every operation ends and releases the server (releaseOperation), even if  *)
(* the update hangs and its exit is never heard of.                          *)
OperationsEnd == op.pc # "idle" ~> op.pc = "idle"

====
