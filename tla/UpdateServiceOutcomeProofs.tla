---- MODULE UpdateServiceOutcomeProofs ----
(*****************************************************************************)
(* What UpdateService reports is true, for any payload, any coverage of the  *)
(* backup and any number of updates: a success has installed its version, a  *)
(* restored server has its promised files back, and these are what the       *)
(* operation starts the server on.                                           *)
(*                                                                           *)
(* The invariant of UpdateServiceProofs looks at the disk while the backup   *)
(* is there.  This one adds the rest of the operation: which executions and  *)
(* exits the controller can still meet, what the awaited one has done so     *)
(* far, and what the files are like once the backup is gone.                 *)
(* At the end: operations and staged updates only ever go forward.           *)
(*****************************************************************************)
EXTENDS UpdateServiceProofs

BeforeStart == {"stop", "offline", "backup", "promote", "update"}
AfterStart == {"wait", "restart", "online"} \cup RollingBack

(* The update of this operation is over, and all files are its own.          *)
Installed == ~Updating /\ \A p \in Path : live[p] = ops

(* Only the operation's own update bears its number, and its exit comes once.*)
ExitsInv ==
    /\ exec.id <= ops /\ \A e \in exits : e.id <= ops
    /\ op.pc \in BeforeStart => exec.id < ops /\ \A e \in exits : e.id < ops
    /\ op.pc = "wait" /\ Updating => exec.id = ops /\ \A e \in exits : e.id < ops

(* What the awaited update has put in place, and what its success means.     *)
InstallInv ==
    /\ op.pc = "wait" /\ updater.pc \in {"retain", "promote"} =>
           \A p \in Path : p < updater.entry => live[p] = exec.id
    /\ op.pc = "wait" /\ updater.pc = "commit" => \A p \in Path : live[p] = exec.id
    /\ op.pc = "wait" => \A e \in exits : e.id = ops /\ e.ok => Installed
    /\ op.pc = "wait" /\ exec.kind = "update" /\ exec.id = ops /\ ~exec.alive /\ exec.ok => Installed
    /\ op.pc \in {"restart", "online", "cleanup"} => Installed

(* .update-backup may go before its operation ends, but only from a server   *)
(* that is as it was; so what a rollback finds, or leaves, is the original.  *)
OutcomeInv ==
    /\ op.pc \in AfterStart /\ ~abandoned => ~verified /\ (~dir => live = base)
    /\ op.pc \in {"undo", "copyEntry"} /\ ~abandoned => dir
    /\ op.pc = "restartOld" => abandoned \/ ~Updating
    /\ op.pc = "restartOld" /\ outcome = "restored" =>
           abandoned \/ \A p \in Promised : live[p] = base[p]

FullInv == IInv /\ ExitsInv /\ InstallInv /\ OutcomeInv

--------------------------------------------------------------------------------
(* Where the steps of the operation lead.                                    *)

(* The steps of a node, and the other users of the server.                   *)
NodeStep == Updater \/ ServerStarts \/ ServerEnds \/ NodeCrash \/ LoseExit

(* They leave the controller alone.                                          *)
LEMMA NodeStepLeaves ==
    ASSUME NodeStep
    PROVE  UNCHANGED <<kind, op, ops, outcome, base, verified, abandoned>>
BY DEF NodeStep, Updater, Stage, WriteManifest, RetainOriginal, PromoteStaged, Commit, UndoStaged,
   RemoveTransaction, CommandWrites, CommandEnds, ServerStarts, ServerEnds, NodeCrash, LoseExit,
   UpdaterGoes, UpdateEnds, StartUndo, UndoNext, controller, history

(* A step of the update happens in a live execution of it.                   *)
LEMMA UpdaterIsAlive ==
    ASSUME IInv, Updater
    PROVE  updater.pc # "none" /\ Updating
BY DEF IInv, UpdaterInv, Updater, Stage, WriteManifest, RetainOriginal, PromoteStaged, Commit,
   UndoStaged, RemoveTransaction, CommandWrites, CommandEnds

(* It either goes on or ends.                                                *)
LEMMA UpdaterEitherEnds ==
    ASSUME IInv, Updater
    PROVE  \/ (exec' = exec /\ exits' = exits)
           \/ \E ok \in BOOLEAN : UpdateEnds(ok)
<1>1. \A u : UpdaterGoes(u) => (exec' = exec /\ exits' = exits)
    BY DEF UpdaterGoes
<1>2. (StartUndo => (exec' = exec /\ exits' = exits)) /\ \A failed : UndoNext(failed) => (exec' = exec /\ exits' = exits)
    BY DEF UpdaterGoes, StartUndo, UndoNext
<1>3. TRUE \in BOOLEAN /\ FALSE \in BOOLEAN
    OBVIOUS
<1>4. CASE Stage \/ WriteManifest
    BY <1>1, <1>3, <1>4 DEF Stage, WriteManifest
<1>5. CASE RetainOriginal \/ PromoteStaged
    BY <1>1, <1>2, <1>5 DEF RetainOriginal, PromoteStaged
<1>6. CASE Commit
    BY <1>2, <1>3, <1>6 DEF Commit
<1>7. CASE UndoStaged
    BY <1>2, <1>7 DEF UndoStaged
<1>8. CASE RemoveTransaction \/ CommandEnds
    BY <1>3, <1>8 DEF RemoveTransaction, CommandEnds
<1>9. CASE CommandWrites
    BY <1>9 DEF CommandWrites
<1> QED BY <1>4, <1>5, <1>6, <1>7, <1>8, <1>9 DEF Updater

(* The other steps of the node neither touch the files nor begin an update.  *)
LEMMA ProcessesLeave ==
    ASSUME IInv, ServerStarts \/ ServerEnds \/ NodeCrash \/ LoseExit
    PROVE  /\ UNCHANGED <<live, dir>>
           /\ exits' \subseteq exits
           /\ exec'.id \in {exec.id, 0}
           /\ \/ updater'.pc = "none" /\ ~Updating'
              \/ UNCHANGED <<exec, updater>>
           /\ exec' = exec \/ exec'.kind # "update"
<1>1. TypeOK /\ UpdaterInv
    BY DEF IInv
<1>2. CASE ServerStarts
    BY <1>1, <1>2 DEF ServerStarts, Server, files, Updating, UpdaterInv
<1>3. CASE ServerEnds
  <2>1. exec'.alive = FALSE /\ exec'.id = exec.id /\ exec'.kind = "server"
      BY <1>1, <1>3 DEF ServerEnds, TypeOK, Executions
  <2>2. updater.pc = "none"
      BY <1>1, <1>3 DEF ServerEnds, UpdaterInv, Updating
  <2> QED BY <1>3, <2>1, <2>2 DEF ServerEnds, files, Updating
<1>4. CASE NodeCrash
    BY <1>4 DEF NodeCrash, NoExecution, NoUpdater, files, Updating
<1>5. CASE LoseExit
    BY <1>5 DEF LoseExit, files
<1> QED BY <1>2, <1>3, <1>4, <1>5

(* The end of an update: its exit leaves, its execution is over.             *)
LEMMA EndLeaves ==
    ASSUME TypeOK, NEW ok \in BOOLEAN, UpdateEnds(ok)
    PROVE  /\ exec'.id = exec.id /\ exec'.ok = ok /\ ~Updating' /\ updater'.pc = "none"
           /\ \A e \in exits' : e \in exits \/ (e.id = exec.id /\ e.ok = ok)
BY DEF UpdateEnds, TypeOK, Executions, NoUpdater, Updating

(* The operation, but for its beginning and the start of the update: it      *)
(* never comes back to an earlier stage, and begins no update.               *)
LEMMA OperationGoesOn ==
    ASSUME IInv, Operation \/ ControllerCrash, ~StartUpdate
    PROVE  /\ UNCHANGED <<kind, updater, ops>>
           /\ exits' \subseteq exits
           /\ exec' = exec \/ exec' = Server
           /\ Updating' => Updating
           /\ op'.pc # "wait"
           /\ op'.pc \in BeforeStart => op.pc \in BeforeStart
<1>1. TypeOK /\ OpInv
    BY DEF IInv
<1>2. ~Server.alive \/ Server.kind # "update"
    BY DEF Server
<1>3. CASE StopServer \/ WaitOffline \/ CopyBackup \/ PromoteBackup
    BY <1>1, <1>3, GoToMoves
       DEF StopServer, WaitOffline, CopyBackup, PromoteBackup, GiveUpBackup, Finish, NoOp, BeforeStart,
       files, history, Updating
<1>4. CASE StartUpdateFails \/ GiveUpWaiting \/ ReceiveExit \/ PollExit
    BY <1>1, <1>4, GoToMoves
       DEF StartUpdateFails, GiveUpWaiting, ReceiveExit, PollExit, RollBack, UpdateIsGood, BeforeStart,
       files, Updating
<1>5. CASE Restart \/ WaitOnline \/ RestartOld \/ WaitOnlineOld \/ Cleanup \/ ControllerCrash
    BY <1>1, <1>2, <1>5, GoToMoves
       DEF Restart, WaitOnline, RestartOld, WaitOnlineOld, Cleanup, ControllerCrash, StartServer,
       RollBack, Finish, NoOp, BeforeStart, files, history, Updating
<1>6. CASE ReadManifest
    BY <1>1, <1>6, ReadManifestMoves DEF ReadManifest, Retain, Finish, BeforeStart, Updating
<1>7. CASE UndoEntry \/ CopyEntryBack
  <2>1. op.entry \in Path
      BY <1>1, <1>7 DEF OpInv, UndoEntry, CopyEntryBack
  <2>2. op'.pc \in {"relist", "undo", "copyEntry"}
      BY <1>1, <1>7, <2>1, NextEntryMoves, GoToMoves DEF UndoEntry, CopyEntryBack
  <2> QED BY <1>7, <2>2 DEF UndoEntry, CopyEntryBack, BeforeStart, Updating
<1>8. CASE UndoFails \/ ListBackup \/ CopyBack \/ RemoveRestored
    BY <1>1, <1>8, GoToMoves
       DEF UndoFails, ListBackup, CopyBack, RemoveRestored, Retain, ReportRestored, Finish, NoOp,
       BeforeStart, Updating
<1>9. \/ StopServer \/ WaitOffline \/ CopyBackup \/ PromoteBackup
      \/ StartUpdateFails \/ GiveUpWaiting \/ ReceiveExit \/ PollExit
      \/ Restart \/ WaitOnline \/ RestartOld \/ WaitOnlineOld \/ Cleanup \/ ControllerCrash
      \/ ReadManifest \/ UndoEntry \/ CopyEntryBack
      \/ UndoFails \/ ListBackup \/ CopyBack \/ RemoveRestored
    BY DEF Operation
<1> QED BY <1>3, <1>4, <1>5, <1>6, <1>7, <1>8, <1>9

--------------------------------------------------------------------------------
(* Each part of the invariant is kept.                                       *)

(* No step makes an execution or an exit bear a number to come.              *)
LEMMA ExitsAreKept ==
    ASSUME FullInv, Next
    PROVE  ExitsInv'
<1>1. IInv /\ TypeOK /\ ExitsInv
    BY DEF FullInv, IInv
<1>2. /\ exec.id \in Nat /\ ops \in Nat
      /\ \A e \in exits : e.id \in Nat
    BY <1>1, UpdateAssumption DEF TypeOK, Executions, Exits, Version
<1>3. CASE Begin
  <2>1. op'.pc # "wait" /\ ops' = ops + 1 /\ UNCHANGED <<exec, exits>>
      BY <1>1, <1>3, BeginMoves DEF Begin
  <2> QED BY <1>1, <1>2, <2>1 DEF ExitsInv
<1>4. CASE StartUpdate
  <2>1. op'.pc \in {"wait", "manifest"} /\ exec'.id = ops /\ UNCHANGED <<exits, ops>>
      BY <1>1, <1>4, GoToMoves DEF StartUpdate, Update
  <2>2. \A e \in exits : e.id < ops
      BY <1>1, <1>4 DEF StartUpdate, ExitsInv, BeforeStart
  <2> QED BY <1>1, <1>2, <2>1, <2>2 DEF ExitsInv, BeforeStart
<1>5. CASE (Operation \/ ControllerCrash) /\ ~StartUpdate
  <2>1. /\ exits' \subseteq exits /\ ops' = ops /\ op'.pc # "wait"
        /\ exec' = exec \/ exec' = Server
        /\ op'.pc \in BeforeStart => op.pc \in BeforeStart
      BY <1>1, <1>5, OperationGoesOn
  <2>2. exec'.id \in {exec.id, 0}
      BY <2>1 DEF Server
  <2> QED BY <1>1, <1>2, <2>1, <2>2 DEF ExitsInv
<1>6. CASE Updater
  <2>1. UNCHANGED <<op, ops>> /\ Updating
      BY <1>1, <1>6, NodeStepLeaves, UpdaterIsAlive DEF NodeStep
  <2>2. CASE UNCHANGED <<exec, exits>>
      BY <1>1, <2>1, <2>2 DEF ExitsInv, Updating
  <2>3. CASE \E ok \in BOOLEAN : UpdateEnds(ok)
    <3>1. exec'.id = exec.id /\ ~Updating' /\ \A e \in exits' : e \in exits \/ e.id = exec.id
        BY <1>1, <2>3, EndLeaves, Zenon
    <3> QED BY <1>1, <1>2, <2>1, <3>1 DEF ExitsInv
  <2>4. (exec' = exec /\ exits' = exits) \/ \E ok \in BOOLEAN : UpdateEnds(ok)
      BY <1>1, <1>6, UpdaterEitherEnds
  <2> QED BY <2>2, <2>3, <2>4
<1>7. CASE ServerStarts \/ ServerEnds \/ NodeCrash \/ LoseExit
  <2>1. UNCHANGED <<op, ops>>
      BY <1>7, NodeStepLeaves DEF NodeStep
  <2>2. (Updating' => exec' = exec) /\ exits' \subseteq exits /\ exec'.id \in {exec.id, 0}
      BY <1>1, <1>7, ProcessesLeave DEF Updating
  <2> QED BY <1>1, <1>2, <2>1, <2>2 DEF ExitsInv, Updating
<1> QED BY <1>3, <1>4, <1>5, <1>6, <1>7 DEF Next

(* A staged update puts one path after another in place.                     *)
LEMMA StagedInstalls ==
    ASSUME FullInv, op.pc = "wait", Updater
    PROVE  /\ updater'.pc \in {"retain", "promote"} =>
                  \A p \in Path : p < updater'.entry => live'[p] = exec'.id
           /\ updater'.pc = "commit" => \A p \in Path : live'[p] = exec'.id
<1>1. IInv /\ TypeOK /\ UpdaterInv /\ InstallInv
    BY DEF FullInv, IInv
<1>2. ASSUME NEW ok \in BOOLEAN, UpdateEnds(ok) PROVE updater'.pc = "none"
    BY <1>1, <1>2, EndLeaves
<1>3. StartUndo => updater'.pc = "undo"
    BY UpdaterGoesMoves DEF StartUndo
<1>4. CASE Stage
  <2>1. updater'.pc \in {"none", "manifest"}
      BY <1>2, <1>4, UpdaterGoesMoves DEF Stage
  <2> QED BY <2>1
<1>5. CASE WriteManifest
  <2>1. updater'.pc = "none" \/ (updater'.pc = "retain" /\ updater'.entry = 1)
      BY <1>2, <1>5, UpdaterGoesMoves DEF WriteManifest
  <2> QED BY <2>1 DEF Path
<1>6. CASE RetainOriginal /\ ~StartUndo
  <2>1. updater.entry \in Path /\ \A p \in Path : p < updater.entry => live[p] = exec.id
      BY <1>1, <1>6 DEF RetainOriginal, UpdaterInv, InstallInv
  <2>2. updater'.pc = "promote" /\ updater'.entry = updater.entry /\ exec' = exec
      BY <1>6, UpdaterGoesMoves DEF RetainOriginal
  <2>3. \A p \in Path : p # updater.entry => live'[p] = live[p]
      BY <1>1, <1>6 DEF RetainOriginal, TypeOK
  <2> QED BY <2>1, <2>2, <2>3 DEF Path
<1>7. CASE PromoteStaged /\ ~StartUndo
  <2>1. updater.entry \in Path /\ \A p \in Path : p < updater.entry => live[p] = exec.id
      BY <1>1, <1>7 DEF PromoteStaged, UpdaterInv, InstallInv
  <2>2. live' = [live EXCEPT ![updater.entry] = exec.id] /\ exec' = exec
      BY <1>7 DEF PromoteStaged, UpdaterGoes
  <2>3. \A p \in Path : p <= updater.entry => live'[p] = exec.id
      BY <1>1, <2>1, <2>2 DEF TypeOK, Path
  <2>4. CASE updater.entry = Paths
    <3>1. updater'.pc = "commit"
        BY <1>7, <2>4, UpdaterGoesMoves DEF PromoteStaged
    <3> QED BY <2>2, <2>3, <2>4, <3>1 DEF Path
  <2>5. CASE updater.entry # Paths
    <3>1. updater'.pc = "retain" /\ updater'.entry = updater.entry + 1
        BY <1>7, <2>5, UpdaterGoesMoves DEF PromoteStaged
    <3> QED BY <2>1, <2>2, <2>3, <3>1 DEF Path
  <2> QED BY <2>4, <2>5
<1>8. CASE StartUndo
    BY <1>3, <1>8
<1>9. CASE Commit
    BY <1>2, <1>3, <1>9 DEF Commit
<1>10. CASE UndoStaged
  <2>1. updater'.pc \in {"remove", "undo"}
      BY <1>10 DEF UndoStaged, UndoNext, UpdaterGoes
  <2> QED BY <2>1
<1>11. CASE RemoveTransaction \/ CommandEnds
    BY <1>2, <1>11 DEF RemoveTransaction, CommandEnds
<1>12. CASE CommandWrites
    BY <1>12 DEF CommandWrites
<1> QED BY <1>4, <1>5, <1>6, <1>7, <1>8, <1>9, <1>10, <1>11, <1>12 DEF Updater

(* An update ends well only when every path is its own.                      *)
LEMMA SuccessfulEnd ==
    ASSUME FullInv, op.pc = "wait", Updater, UpdateEnds(TRUE)
    PROVE  \A p \in Path : live'[p] = exec.id
<1>1. IInv /\ TypeOK /\ InstallInv
    BY DEF FullInv, IInv
<1>2. exec'.ok = TRUE /\ updater'.pc = "none"
    BY <1>1, EndLeaves
<1>3. ~UpdateEnds(FALSE)
    BY <1>1, <1>2, EndLeaves
<1>4. \A pc, entry : pc # "none" => ~UpdaterGoes(UpdaterAt(pc, entry))
    BY <1>2, UpdaterGoesMoves
<1>5. ~StartUndo /\ \A failed : ~UndoNext(failed)
    BY <1>2, <1>4 DEF StartUndo, UndoNext, UpdaterGoes
<1>6. CASE Commit
    BY <1>1, <1>6 DEF Commit, InstallInv, files
<1>7. CASE CommandEnds
    BY <1>3, <1>7 DEF CommandEnds, files
<1>8. CASE CommandWrites
    BY <1>2, <1>8 DEF CommandWrites
<1>9. ~Stage /\ ~WriteManifest /\ ~RetainOriginal /\ ~PromoteStaged /\ ~UndoStaged /\ ~RemoveTransaction
  <2>1. ~Stage /\ ~WriteManifest
      BY <1>3, <1>4 DEF Stage, WriteManifest
  <2>2. ~RetainOriginal
      BY <1>4, <1>5 DEF RetainOriginal
  <2>3. ~PromoteStaged
    <3>1. UpdaterAt("commit", 0).pc = "commit" /\ \A p : UpdaterAt("retain", p + 1).pc = "retain"
        BY DEF UpdaterAt
    <3> QED BY <1>2, <1>5, <3>1 DEF PromoteStaged, UpdaterGoes
  <2>4. ~UndoStaged /\ ~RemoveTransaction
      BY <1>3, <1>5 DEF UndoStaged, RemoveTransaction
  <2> QED BY <2>1, <2>2, <2>3, <2>4
<1> QED BY <1>6, <1>7, <1>8, <1>9 DEF Updater

(* The success of the awaited update is known only when it has installed.    *)
LEMMA InstallsAreKept ==
    ASSUME FullInv, Next
    PROVE  InstallInv'
<1>1. IInv /\ TypeOK /\ UpdaterInv /\ ExitsInv /\ InstallInv
    BY DEF FullInv, IInv
<1>2. /\ exec.id \in Nat /\ ops \in Nat
      /\ \A e \in exits : e.id \in Nat
    BY <1>1, UpdateAssumption DEF TypeOK, Executions, Exits, Version
<1>3. CASE Begin
  <2>1. op'.pc \in {"idle", "stop", "backup"}
      BY <1>1, <1>3, BeginMoves
  <2> QED BY <2>1 DEF InstallInv
<1>4. CASE StartUpdate
  <2>1. op'.pc \in {"wait", "manifest"} /\ UNCHANGED <<exits, ops>> /\ exec'.alive
      BY <1>1, <1>4, GoToMoves DEF StartUpdate, Update
  <2>2. updater'.pc \in {"stage", "command"}
      BY <1>4 DEF StartUpdate, UpdaterAt
  <2>3. \A e \in exits : e.id < ops
      BY <1>1, <1>4 DEF StartUpdate, ExitsInv, BeforeStart
  <2>4. \A e \in exits : e.id # ops
      BY <1>2, <2>3
  <2> QED BY <2>1, <2>2, <2>4 DEF InstallInv
<1>5. CASE (Operation \/ ControllerCrash) /\ ~StartUpdate
  <2>1. op'.pc # "wait" /\ ops' = ops /\ (Updating' => Updating)
      BY <1>1, <1>5, OperationGoesOn
  <2>2. ASSUME op'.pc \in {"restart", "online", "cleanup"} PROVE Installed'
    <3>1. CASE ReceiveExit
      <4>1. PICK e \in exits : e.id = ops /\ IF e.ok THEN UpdateIsGood ELSE RollBack
          BY <3>1 DEF ReceiveExit
      <4>2. e.ok
          BY <1>1, <2>2, <4>1, RollBackMoves
      <4>3. Installed
          BY <1>1, <3>1, <4>1, <4>2 DEF ReceiveExit, InstallInv
      <4> QED BY <2>1, <3>1, <4>3 DEF ReceiveExit, Installed, files
    <3>2. CASE PollExit
      <4>1. exec.ok
          BY <1>1, <2>2, <3>2, RollBackMoves DEF PollExit
      <4>2. Installed
          BY <1>1, <3>2, <4>1 DEF PollExit, InstallInv
      <4> QED BY <2>1, <3>2, <4>2 DEF PollExit, Installed, files
    <3>3. CASE Restart \/ WaitOnline
      <4>1. Installed /\ live' = live
          BY <1>1, <3>3 DEF Restart, WaitOnline, InstallInv, files
      <4> QED BY <2>1, <4>1 DEF Installed
    <3>4. CASE StopServer \/ WaitOffline \/ CopyBackup \/ PromoteBackup
        BY <1>1, <2>2, <3>4, GoToMoves
           DEF StopServer, WaitOffline, CopyBackup, PromoteBackup, GiveUpBackup, Finish, NoOp
    <3>5. CASE StartUpdateFails \/ GiveUpWaiting
        BY <1>1, <2>2, <3>5, RollBackMoves DEF StartUpdateFails, GiveUpWaiting
    <3>6. CASE RestartOld \/ WaitOnlineOld \/ Cleanup \/ ControllerCrash
        BY <1>1, <2>2, <3>6, GoToMoves
           DEF RestartOld, WaitOnlineOld, Cleanup, ControllerCrash, StartServer, Finish, NoOp
    <3>7. CASE ReadManifest
        BY <1>1, <2>2, <3>7, ReadManifestMoves
    <3>8. CASE UndoEntry \/ CopyEntryBack
      <4>1. op.entry \in Path
          BY <1>1, <3>8 DEF IInv, OpInv, UndoEntry, CopyEntryBack
      <4> QED BY <1>1, <2>2, <3>8, <4>1, NextEntryMoves, GoToMoves DEF UndoEntry, CopyEntryBack
    <3>9. CASE UndoFails \/ ListBackup \/ CopyBack \/ RemoveRestored
        BY <1>1, <2>2, <3>9, GoToMoves
           DEF UndoFails, ListBackup, CopyBack, RemoveRestored, Retain, ReportRestored, Finish, NoOp
    <3> QED BY <1>5, <3>1, <3>2, <3>3, <3>4, <3>5, <3>6, <3>7, <3>8, <3>9 DEF Operation
  <2> QED BY <2>1, <2>2 DEF InstallInv
<1>6. CASE Updater
  <2>1. UNCHANGED <<op, ops>> /\ Updating
      BY <1>1, <1>6, NodeStepLeaves, UpdaterIsAlive DEF NodeStep
  <2>2. op.pc \notin {"restart", "online", "cleanup"}
      BY <1>1, <2>1 DEF InstallInv, Installed
  <2>3. SUFFICES ASSUME op.pc = "wait" PROVE InstallInv'
      BY <2>1, <2>2 DEF InstallInv
  <2>4. exec.id = ops /\ \A e \in exits : e.id # ops
      BY <1>1, <1>2, <2>1, <2>3 DEF ExitsInv
  <2>5. CASE exec' = exec /\ exits' = exits
      BY <1>6, <2>1, <2>3, <2>4, <2>5, StagedInstalls DEF InstallInv, Updating
  <2>6. CASE UpdateEnds(FALSE)
    <3>1. exec'.ok = FALSE /\ \A e \in exits' : e \in exits \/ e.ok = FALSE
        BY <1>1, <2>6, EndLeaves
    <3> QED BY <1>6, <2>1, <2>3, <2>4, <3>1, StagedInstalls DEF InstallInv
  <2>7. CASE UpdateEnds(TRUE)
    <3>1. Installed'
        BY <1>1, <1>6, <2>1, <2>3, <2>4, <2>7, EndLeaves, SuccessfulEnd DEF Installed
    <3> QED BY <1>6, <2>1, <2>3, <3>1, StagedInstalls DEF InstallInv
  <2>8. \A ok \in BOOLEAN : ok = TRUE \/ ok = FALSE
      OBVIOUS
  <2> QED BY <1>1, <1>6, <2>5, <2>6, <2>7, <2>8, UpdaterEitherEnds
<1>7. CASE ServerStarts \/ ServerEnds \/ NodeCrash \/ LoseExit
  <2>1. UNCHANGED <<op, ops>>
      BY <1>7, NodeStepLeaves DEF NodeStep
  <2>2. /\ live' = live /\ exits' \subseteq exits
        /\ updater'.pc = "none" \/ (exec' = exec /\ updater' = updater)
        /\ exec' = exec \/ exec'.kind # "update"
      BY <1>1, <1>7, ProcessesLeave
  <2>3. Installed => Installed'
      BY <2>1, <2>2 DEF Installed, Updating
  <2> QED BY <1>1, <2>1, <2>2, <2>3 DEF InstallInv
<1> QED BY <1>3, <1>4, <1>5, <1>6, <1>7 DEF Next

(* What the rollback finds is the original, also without .update-backup.     *)
LEMMA OutcomesAreKept ==
    ASSUME FullInv, Next
    PROVE  OutcomeInv'
<1>1. /\ IInv /\ TypeOK /\ DirInv /\ UpdaterInv /\ OpInv /\ CopiesInv /\ ProgressInv
      /\ InstallInv /\ OutcomeInv
    BY DEF FullInv, IInv
<1>2. /\ op.pc \in RollingBack => op.pc \in AfterStart
      /\ \A pc \in {"idle", "stop", "offline", "backup", "promote", "update", "cleanup",
                    "restartOld", "onlineOld"} : pc \notin AfterStart
    BY DEF AfterStart, RollingBack
<1>3. CASE Begin
  <2>1. op'.pc \in {"idle", "stop", "backup"}
      BY <1>1, <1>3, BeginMoves
  <2> QED BY <1>2, <2>1 DEF OutcomeInv
<1>4. CASE StopServer \/ WaitOffline \/ CopyBackup \/ PromoteBackup
  <2>1. \/ op'.pc \in {"idle", "offline", "backup", "promote", "update"}
        \/ /\ op'.pc = "restartOld" /\ outcome' = "failed"
           /\ UNCHANGED exec /\ op.pc \in {"backup", "promote"}
      BY <1>1, <1>4, GoToMoves
         DEF StopServer, WaitOffline, CopyBackup, PromoteBackup, GiveUpBackup, Finish, NoOp
  <2> QED BY <1>1, <1>2, <2>1 DEF OutcomeInv, OpInv, Updating
<1>5. CASE StartUpdate
  <2>1. op'.pc \in {"wait", "manifest"} /\ UNCHANGED <<dir, verified>> /\ dir /\ ~verified
      BY <1>1, <1>5, GoToMoves DEF StartUpdate, OpInv, AtStake, files, history
  <2> QED BY <2>1 DEF OutcomeInv
<1>6. ASSUME RollBack, UNCHANGED <<live, dir>>, op.pc \in {"update", "wait", "restart", "online"}
      PROVE  OutcomeInv'
  <2>1. op'.pc = "manifest" /\ (abandoned => abandoned') /\ UNCHANGED <<base, verified>>
      BY <1>1, <1>6, RollBackMoves DEF RollBack
  <2>2. ~abandoned => ~verified /\ (~dir => live = base)
      BY <1>1, <1>6 DEF OutcomeInv, OpInv, AtStake, AfterStart
  <2> QED BY <1>6, <2>1, <2>2 DEF OutcomeInv
<1>7. CASE StartUpdateFails \/ GiveUpWaiting
    BY <1>6, <1>7 DEF StartUpdateFails, GiveUpWaiting, files
<1>8. CASE ReceiveExit \/ PollExit
  <2>1. op.pc = "wait" /\ UNCHANGED <<live, dir>> /\ (UpdateIsGood \/ RollBack)
      BY <1>8 DEF ReceiveExit, PollExit, files
  <2>2. ASSUME UpdateIsGood PROVE OutcomeInv'
    <3>1. \/ op'.pc = "cleanup"
          \/ op'.pc = "restart" /\ UNCHANGED <<base, verified, abandoned>>
      <4>1. CASE op.wasRunning
        <5>1. op'.pc = "restart"
            BY <1>1, <2>2, <4>1, GoToMoves DEF UpdateIsGood
        <5>2. verified' = verified
            BY <1>1, <2>2, <4>1 DEF UpdateIsGood, TypeOK
        <5> QED BY <2>2, <5>1, <5>2 DEF UpdateIsGood
      <4>2. CASE ~op.wasRunning
          BY <1>1, <2>2, <4>2, GoToMoves DEF UpdateIsGood
      <4> QED BY <4>1, <4>2
    <3> QED BY <1>1, <1>2, <2>1, <3>1 DEF OutcomeInv, AfterStart
  <2> QED BY <1>6, <2>1, <2>2
<1>9. CASE Restart \/ WaitOnline
  <2>1. op.pc \in {"restart", "online"} /\ UNCHANGED <<live, dir>>
      BY <1>9 DEF Restart, WaitOnline, files
  <2>2. \/ RollBack
        \/ op'.pc = "cleanup"
        \/ op'.pc = "online" /\ UNCHANGED <<base, verified, abandoned>>
      BY <1>1, <1>9, GoToMoves DEF Restart, WaitOnline, StartServer, history
  <2> QED BY <1>1, <1>2, <1>6, <2>1, <2>2 DEF OutcomeInv, AfterStart
<1>10. CASE Cleanup \/ WaitOnlineOld \/ ControllerCrash \/ RestartOld
  <2>1. op'.pc \in {"idle", "onlineOld"}
      BY <1>1, <1>10, GoToMoves
         DEF Cleanup, WaitOnlineOld, ControllerCrash, RestartOld, StartServer, Finish, NoOp
  <2> QED BY <1>2, <2>1 DEF OutcomeInv
<1>11. ASSUME UNCHANGED <<kind, exec, base, verified, abandoned>>, op.pc \in RollingBack, op'.pc = "restartOld",
              abandoned \/ \A p \in Promised : live'[p] = base[p]
       PROVE  OutcomeInv'
  <2>1. abandoned \/ ~Updating
      BY <1>1, <1>11 DEF OpInv
  <2> QED BY <1>2, <1>11, <2>1 DEF OutcomeInv, Updating, Promised
<1>12. ASSUME UNCHANGED <<base, verified, abandoned>>, op.pc \in RollingBack, op'.pc \in RollingBack,
              dir' = dir, ~abandoned /\ ~dir => live' = live,
              op'.pc \in {"undo", "copyEntry"} /\ ~abandoned => dir
       PROVE  OutcomeInv'
    BY <1>1, <1>2, <1>12 DEF OutcomeInv, RollingBack
<1>13. CASE ReadManifest
  <2>1. op'.pc \in {"idle", "list"} \/ (op'.pc = "undo" /\ hasManifest)
      BY <1>1, <1>13, ReadManifestMoves
  <2>2. UNCHANGED <<base, verified, abandoned, dir, live>> /\ op.pc \in RollingBack
      BY <1>13 DEF ReadManifest, Retain, files, history, RollingBack
  <2>3. op'.pc = "undo" => dir
      BY <1>1, <2>1 DEF DirInv
  <2>4. CASE op'.pc = "idle"
      BY <1>2, <2>4 DEF OutcomeInv
  <2>5. CASE op'.pc # "idle"
      BY <1>12, <2>1, <2>2, <2>3, <2>5 DEF RollingBack
  <2> QED BY <2>4, <2>5
<1>14. CASE UndoEntry \/ CopyEntryBack
  <2>1. op.pc \in {"undo", "copyEntry"} /\ op.entry \in Path /\ (~abandoned => dir)
      BY <1>1, <1>14 DEF UndoEntry, CopyEntryBack, OpInv, OutcomeInv
  <2>2. UNCHANGED <<base, verified, abandoned, dir>>
      BY <1>14 DEF UndoEntry, CopyEntryBack, history
  <2>3. op'.pc \in {"relist", "undo", "copyEntry"}
      BY <1>1, <1>14, <2>1, NextEntryMoves, GoToMoves DEF UndoEntry, CopyEntryBack
  <2> QED BY <1>12, <2>1, <2>2, <2>3 DEF RollingBack
<1>15. ASSUME Retain PROVE OutcomeInv'
  <2>1. op'.pc = "idle"
      BY <1>15 DEF Retain, Finish, NoOp
  <2> QED BY <1>2, <2>1 DEF OutcomeInv
<1>16. ASSUME ReportRestored, op.pc \in RollingBack, abandoned \/ \A p \in Promised : live'[p] = base[p]
       PROVE  OutcomeInv'
  <2>1. UNCHANGED <<kind, exec, base, verified, abandoned>> /\ op'.pc \in {"idle", "restartOld"}
      BY <1>1, <1>16, GoToMoves DEF ReportRestored, NoOp, history
  <2>2. CASE op'.pc = "idle"
      BY <1>2, <2>2 DEF OutcomeInv
  <2> QED BY <1>11, <1>16, <2>1, <2>2
<1>17. CASE UndoFails
    BY <1>15, <1>17 DEF UndoFails
<1>18. CASE ListBackup
  <2>1. op.pc \in {"list", "relist"} /\ op.pc \in RollingBack /\ UNCHANGED <<live, dir>>
      BY <1>18 DEF ListBackup, files, RollingBack
  <2>2. CASE Retain
      BY <1>15, <2>2
  <2>3. CASE ReportRestored /\ ~dir
      BY <1>1, <1>2, <1>16, <2>1, <2>3 DEF OutcomeInv
  <2>4. CASE GoTo("copyBack") /\ UNCHANGED history
    <3>1. op'.pc = "copyBack"
        BY <1>1, <2>4, GoToMoves
    <3> QED BY <1>12, <2>1, <2>4, <3>1 DEF history, RollingBack
  <2> QED BY <1>18, <2>2, <2>3, <2>4 DEF ListBackup
<1>19. CASE CopyBack
  <2>1. CASE Retain
      BY <1>15, <2>1
  <2>2. CASE GoTo("removeDir") /\ live' = Restored(Path) /\ UNCHANGED history
    <3>1. op'.pc = "removeDir" /\ op.pc \in RollingBack /\ dir' = dir
        BY <1>1, <1>19, <2>2, GoToMoves DEF CopyBack, RollingBack
    <3>2. ~dir => live' = live
      <4>1. ~dir => \A p \in Path : saved[p] = NoFile
          BY <1>1 DEF DirInv, NoFiles
      <4>2. ~dir => live' = [p \in Path |-> live[p]]
          BY <2>2, <4>1 DEF Restored
      <4> QED BY <1>1, <4>2 DEF TypeOK
    <3> QED BY <1>12, <2>2, <3>1, <3>2 DEF history, RollingBack
  <2> QED BY <1>19, <2>1, <2>2 DEF CopyBack
<1>20. CASE RemoveRestored
  <2>1. CASE Retain
      BY <1>15, <2>1
  <2>2. CASE ReportRestored
    <3>1. op.pc = "removeDir" /\ op.pc \in RollingBack /\ live' = live
        BY <1>20 DEF RemoveRestored, RollingBack
    <3>2. abandoned \/ \A p \in Promised : live[p] = base[p]
        BY <1>1, <1>2, <3>1 DEF OutcomeInv, ProgressInv, AtStake
    <3> QED BY <1>16, <2>2, <3>1, <3>2
  <2> QED BY <1>20, <2>1, <2>2 DEF RemoveRestored
<1>21. CASE Updater
  <2>1. UNCHANGED <<kind, op, outcome, base, verified, abandoned>> /\ Updating /\ updater.pc # "none"
      BY <1>1, <1>21, NodeStepLeaves, UpdaterIsAlive DEF NodeStep
  <2>2. CASE abandoned
      BY <1>1, <2>1, <2>2 DEF OutcomeInv
  <2>3. CASE ~abandoned /\ op.pc \notin AfterStart
    <3>1. op.pc \notin {"undo", "copyEntry", "restartOld"}
        BY <1>1, <2>1, <2>3 DEF OutcomeInv, AfterStart, RollingBack
    <3> QED BY <2>1, <2>3, <3>1 DEF OutcomeInv
  <2>4. CASE ~abandoned /\ op.pc \in AfterStart
    <3>1. ~verified /\ dir
        BY <1>1, <2>1, <2>4 DEF OutcomeInv, UpdaterInv, AtStake
    <3>2. op.pc \notin {"undo", "copyEntry", "restartOld"}
        BY <1>1, <2>1, <2>4 DEF OutcomeInv, OpInv, RollingBack
    <3>3. dir' \/ live' = base
      <4>1. CASE RemoveTransaction
          BY <1>1, <2>1, <2>4, <3>1, <4>1 DEF RemoveTransaction, ProgressInv, AtStake
      <4>2. CASE ~RemoveTransaction
          BY <1>21, <3>1, <4>2
             DEF Updater, Stage, WriteManifest, RetainOriginal, PromoteStaged, Commit, UndoStaged,
             CommandWrites, CommandEnds, files
      <4> QED BY <4>1, <4>2
    <3> QED BY <2>1, <3>1, <3>2, <3>3 DEF OutcomeInv
  <2> QED BY <2>2, <2>3, <2>4
<1>22. CASE ServerStarts \/ ServerEnds \/ NodeCrash \/ LoseExit
  <2>1. UNCHANGED <<kind, op, outcome, base, verified, abandoned>>
      BY <1>22, NodeStepLeaves DEF NodeStep
  <2>2. live' = live /\ dir' = dir /\ (Updating' => Updating)
      BY <1>1, <1>22, ProcessesLeave DEF Updating
  <2> QED BY <1>1, <2>1, <2>2 DEF OutcomeInv, Promised
<1>23. Next =>
          \/ Begin \/ StopServer \/ WaitOffline \/ CopyBackup \/ PromoteBackup \/ StartUpdate
          \/ StartUpdateFails \/ GiveUpWaiting \/ ReceiveExit \/ PollExit \/ Restart \/ WaitOnline
          \/ Cleanup \/ WaitOnlineOld \/ ControllerCrash \/ RestartOld \/ ReadManifest
          \/ UndoEntry \/ CopyEntryBack \/ UndoFails \/ ListBackup \/ CopyBack \/ RemoveRestored
          \/ Updater \/ ServerStarts \/ ServerEnds \/ NodeCrash \/ LoseExit
    BY DEF Next, Operation
<1> QED BY <1>3, <1>4, <1>5, <1>7, <1>8, <1>9, <1>10, <1>13, <1>14, <1>17, <1>18, <1>19, <1>20,
        <1>21, <1>22, <1>23

--------------------------------------------------------------------------------
(* Nothing has happened in the initial states.                               *)
LEMMA InitFullInv == Init => FullInv
<1> SUFFICES ASSUME Init PROVE FullInv
    OBVIOUS
<1>1. IInv /\ op.pc = "idle" /\ exits = {} /\ exec.id = 0 /\ ops = 0
    BY InitIInv DEF Init, NoOp, NoExecution, Server
<1> QED BY <1>1 DEF FullInv, ExitsInv, InstallInv, OutcomeInv, BeforeStart, AfterStart, RollingBack

(* Every step, and every stutter, keeps the whole invariant.                 *)
LEMMA NextFullInv ==
    ASSUME FullInv, [Next]_vars
    PROVE  FullInv'
<1>1. IInv'
    BY NextIInv DEF FullInv
<1>2. CASE Next
    BY <1>1, <1>2, ExitsAreKept, InstallsAreKept, OutcomesAreKept DEF FullInv
<1>3. CASE UNCHANGED vars
    BY <1>1, <1>3 DEF vars, files, controller, history, FullInv, ExitsInv, InstallInv, OutcomeInv,
       Updating, Installed, Promised
<1> QED BY <1>2, <1>3

(* The whole invariant holds of UpdateService's every state.                 *)
THEOREM OutcomeInvariant == Spec => []FullInv
BY InitFullInv, NextFullInv, PTL DEF Spec

(* The steps that report a restored server, and what they find.              *)
LEMMA RestoredFiles ==
    ASSUME FullInv, [Next]_vars, outcome' = "restored", outcome # "restored"
    PROVE  abandoned \/ \A p \in Promised : live[p] = base[p]
<1>1. OutcomeInv /\ ProgressInv
    BY DEF FullInv, IInv
<1>2. (ListBackup /\ ReportRestored /\ ~dir) \/ RemoveRestored
    BY DEF Next, Operation, Updater, Begin, StopServer, WaitOffline, CopyBackup, PromoteBackup,
       StartUpdate, StartUpdateFails, ReceiveExit, PollExit, GiveUpWaiting, Restart, WaitOnline,
       Cleanup, ReadManifest, UndoEntry, CopyEntryBack, UndoFails, ListBackup, CopyBack,
       RestartOld, WaitOnlineOld, Stage, WriteManifest, RetainOriginal, PromoteStaged,
       Commit, UndoStaged, RemoveTransaction, CommandWrites, CommandEnds, ServerStarts, ServerEnds,
       ControllerCrash, NodeCrash, LoseExit, RollBack, Retain, Finish, GiveUpBackup, UpdateIsGood,
       StartServer, UpdaterGoes, UpdateEnds, UndoNext, StartUndo, controller, history, vars
<1>3. CASE ListBackup /\ ReportRestored /\ ~dir
    BY <1>1, <1>3 DEF ListBackup, OutcomeInv, AfterStart, RollingBack
<1>4. CASE RemoveRestored
    BY <1>1, <1>4 DEF RemoveRestored, OutcomeInv, AfterStart, RollingBack, ProgressInv, AtStake
<1> QED BY <1>2, <1>3, <1>4

(* A rollback that reports restored files has restored what it promises:     *)
(* rollbackUpdate and restoreNodeServerFiles, with .update-backup or without *)
(* it, unless the update was still at work.                                  *)
THEOREM RollbacksRestore == Spec => RollbackTellsTheTruth
<1>1. FullInv /\ [Next]_vars =>
          [outcome' = "restored" /\ outcome # "restored"
             => abandoned \/ \A p \in Promised : live[p] = base[p]]_vars
    BY RestoredFiles
<1> QED BY <1>1, OutcomeInvariant, PTL DEF Spec, RollbackTellsTheTruth

(* The one step that reports success, and what it finds.                     *)
LEMMA InstalledFiles ==
    ASSUME FullInv, [Next]_vars, outcome' = "succeeded", outcome # "succeeded"
    PROVE  \A p \in Path : live[p] = ops
<1>1. Cleanup
    BY DEF Next, Operation, Updater, Begin, StopServer, WaitOffline, CopyBackup, PromoteBackup,
       StartUpdate, StartUpdateFails, ReceiveExit, PollExit, GiveUpWaiting, Restart, WaitOnline,
       ReadManifest, UndoEntry, CopyEntryBack, UndoFails, ListBackup, CopyBack, RemoveRestored,
       RestartOld, WaitOnlineOld, Stage, WriteManifest, RetainOriginal, PromoteStaged,
       Commit, UndoStaged, RemoveTransaction, CommandWrites, CommandEnds, ServerStarts, ServerEnds,
       ControllerCrash, NodeCrash, LoseExit, RollBack, Retain, ReportRestored, Finish,
       GiveUpBackup, UpdateIsGood, StartServer, UpdaterGoes, UpdateEnds, UndoNext, StartUndo,
       controller, history, vars
<1> QED BY <1>1 DEF Cleanup, FullInv, InstallInv, Installed

(* An update that reports success has installed its version at every path:   *)
(* waitForUpdateProcessExit mistakes no other exit for the awaited one, and  *)
(* nothing touches the files between that exit and the report.               *)
THEOREM SuccessesAreInstalled == Spec => SuccessMeansInstalled
<1>1. FullInv /\ [Next]_vars =>
          [outcome' = "succeeded" /\ outcome # "succeeded" => \A p \in Path : live[p] = ops]_vars
    BY InstalledFiles
<1> QED BY <1>1, OutcomeInvariant, PTL DEF Spec, SuccessMeansInstalled

(* The operation starts the server on what it says: after the update every   *)
(* path is of its own version; after a rollback that reports restored files  *)
(* every promised path is what it was before (all paths of a staged update,  *)
(* the covered ones of a command), unless the update was still running when  *)
(* the rollback began.                                                       *)
THEOREM StartsAreTruthful == Spec => StartsMatchOutcome
<1>1. FullInv /\ [Next]_vars =>
          [exec'.alive /\ ~exec.alive =>
             /\ Restart => \A p \in Path : live[p] = ops
             /\ RestartOld /\ outcome = "restored" =>
                    abandoned \/ \A p \in Promised : live[p] = base[p]]_vars
  <2>1. ASSUME FullInv, Restart PROVE \A p \in Path : live[p] = ops
      BY <2>1 DEF Restart, FullInv, InstallInv, Installed
  <2>2. ASSUME FullInv, RestartOld, outcome = "restored"
        PROVE  abandoned \/ \A p \in Promised : live[p] = base[p]
      BY <2>2 DEF RestartOld, FullInv, OutcomeInv
  <2> QED BY <2>1, <2>2
<1> QED BY <1>1, OutcomeInvariant, PTL DEF Spec, StartsMatchOutcome

--------------------------------------------------------------------------------
(* Neither the operation nor the update goes round in circles.               *)

(* What the operation still has before it, at most: the stages in order, and *)
(* two steps for each entry that a rollback has yet to undo.                 *)
StepsFrom(pc, entry) ==
    CASE pc = "undo"      -> 2 * entry + 5
      [] pc = "copyEntry" -> 2 * entry + 4
      [] pc = "idle"      -> 0
      [] pc \in {"onlineOld", "cleanup"} -> 1
      [] pc = "restartOld" -> 2
      [] pc = "removeDir" -> 3
      [] pc = "copyBack"  -> 4
      [] pc \in {"list", "relist"} -> 5
      [] pc = "manifest"  -> 2 * Paths + 6
      [] pc = "online"    -> 2 * Paths + 7
      [] pc = "restart"   -> 2 * Paths + 8
      [] pc = "wait"      -> 2 * Paths + 9
      [] pc = "update"    -> 2 * Paths + 10
      [] pc = "promote"   -> 2 * Paths + 11
      [] pc = "backup"    -> 2 * Paths + 12
      [] pc = "offline"   -> 2 * Paths + 13
      [] pc = "stop"      -> 2 * Paths + 14

StepsLeft == StepsFrom(op.pc, op.entry)

(* The order of the stages.                                                  *)
LEMMA Stages ==
    /\ StepsFrom("idle", 0) = 0
    /\ \A e : /\ StepsFrom("idle", e) = 0
              /\ StepsFrom("onlineOld", e) = 1 /\ StepsFrom("cleanup", e) = 1
              /\ StepsFrom("restartOld", e) = 2
              /\ StepsFrom("removeDir", e) = 3 /\ StepsFrom("copyBack", e) = 4
              /\ StepsFrom("list", e) = 5 /\ StepsFrom("relist", e) = 5
              /\ StepsFrom("manifest", e) = 2 * Paths + 6
              /\ StepsFrom("online", e) = 2 * Paths + 7
              /\ StepsFrom("restart", e) = 2 * Paths + 8
              /\ StepsFrom("wait", e) = 2 * Paths + 9
              /\ StepsFrom("update", e) = 2 * Paths + 10
              /\ StepsFrom("promote", e) = 2 * Paths + 11
              /\ StepsFrom("backup", e) = 2 * Paths + 12
              /\ StepsFrom("offline", e) = 2 * Paths + 13
              /\ StepsFrom("stop", e) = 2 * Paths + 14
              /\ StepsFrom("undo", e) = 2 * e + 5
              /\ StepsFrom("copyEntry", e) = 2 * e + 4
BY DEF StepsFrom

(* There are that many steps, and no more.                                   *)
LEMMA StepsAreBounded == IInv => StepsLeft \in 0 .. 2 * Paths + 14
<1> SUFFICES ASSUME IInv
             PROVE  StepsLeft \in 0 .. 2 * Paths + 14
    OBVIOUS
<1>1. op.pc \in OpPlaces /\ Paths \in Nat
    BY UpdateAssumption DEF IInv, TypeOK, Operations
<1>2. CASE op.pc \in {"undo", "copyEntry"}
  <2>1. op.entry \in 1 .. Paths
      BY <1>2 DEF IInv, OpInv, Path
  <2> QED BY <1>1, <1>2, <2>1, Stages DEF StepsLeft
<1>3. CASE op.pc \notin {"undo", "copyEntry"}
    BY <1>1, <1>3, Stages DEF StepsLeft, OpPlaces
<1> QED BY <1>2, <1>3

(* Every step of the operation has one less before it.                       *)
LEMMA OperationDescends ==
    ASSUME IInv, Operation
    PROVE  StepsLeft' < StepsLeft
<1>1. TypeOK /\ OpInv /\ Paths \in Nat /\ Paths > 0
    BY UpdateAssumption DEF IInv
<1>2. NoOp.pc = "idle"
    BY DEF NoOp
<1>3. CASE StopServer \/ WaitOffline \/ CopyBackup \/ PromoteBackup
    BY <1>1, <1>2, <1>3, GoToMoves, Stages
       DEF StopServer, WaitOffline, CopyBackup, PromoteBackup, GiveUpBackup, Finish, StepsLeft
<1>4. CASE StartUpdate \/ StartUpdateFails
    BY <1>1, <1>4, GoToMoves, Stages DEF StartUpdate, StartUpdateFails, RollBack, StepsLeft
<1>5. CASE GiveUpWaiting \/ ReceiveExit \/ PollExit
  <2>1. op.pc = "wait" /\ op'.pc \in {"restart", "cleanup", "manifest"}
      BY <1>1, <1>5, GoToMoves DEF GiveUpWaiting, ReceiveExit, PollExit, RollBack, UpdateIsGood
  <2> QED BY <1>1, <2>1, Stages DEF StepsLeft
<1>6. CASE Restart \/ WaitOnline
  <2>1. \/ op.pc = "restart" /\ op'.pc \in {"online", "manifest"}
        \/ op.pc = "online" /\ op'.pc \in {"cleanup", "manifest"}
      BY <1>1, <1>6, GoToMoves DEF Restart, WaitOnline, StartServer, RollBack
  <2> QED BY <1>1, <2>1, Stages DEF StepsLeft
<1>7. CASE Cleanup \/ RestartOld \/ WaitOnlineOld
  <2>1. \/ op.pc \in {"cleanup", "restartOld", "onlineOld"} /\ op'.pc = "idle"
        \/ op.pc = "restartOld" /\ op'.pc = "onlineOld"
      BY <1>1, <1>2, <1>7, GoToMoves DEF Cleanup, RestartOld, WaitOnlineOld, StartServer, Finish
  <2> QED BY <2>1, Stages DEF StepsLeft
<1>8. CASE ReadManifest
  <2>1. op.pc = "manifest"
      BY <1>8 DEF ReadManifest
  <2> QED BY <1>1, <1>8, <2>1, ReadManifestMoves, Stages DEF StepsLeft
<1>9. CASE UndoEntry \/ CopyEntryBack
  <2>1. op.pc \in {"undo", "copyEntry"} /\ op.entry \in Path /\ op.entry \in Nat /\ op.entry > 0
      BY <1>1, <1>9 DEF OpInv, UndoEntry, CopyEntryBack, Path
  <2>2. CASE NextEntry
      BY <2>1, <2>2, <1>1, NextEntryMoves, Stages DEF StepsLeft
  <2>3. CASE op.pc = "undo" /\ GoTo("copyEntry")
    <3>1. op'.pc = "copyEntry" /\ op'.entry = op.entry
        BY <1>1, <2>3, GoToMoves
    <3> QED BY <2>1, <2>3, <3>1, Stages DEF StepsLeft
  <2> QED BY <1>9, <2>2, <2>3 DEF UndoEntry, CopyEntryBack
<1>10. CASE UndoFails
  <2>1. op.pc \in {"undo", "copyEntry"} /\ op.entry \in Nat /\ op'.pc = "idle"
      BY <1>1, <1>2, <1>10 DEF OpInv, UndoFails, Retain, Finish, Path
  <2> QED BY <2>1, Stages DEF StepsLeft
<1>11. CASE ListBackup \/ CopyBack \/ RemoveRestored
  <2>1. \/ op.pc \in {"list", "relist"} /\ op'.pc \in {"copyBack", "idle", "restartOld"}
        \/ op.pc = "copyBack" /\ op'.pc \in {"removeDir", "idle"}
        \/ op.pc = "removeDir" /\ op'.pc \in {"idle", "restartOld"}
      BY <1>1, <1>2, <1>11, GoToMoves
         DEF ListBackup, CopyBack, RemoveRestored, Retain, ReportRestored, Finish
  <2> QED BY <2>1, Stages DEF StepsLeft
<1> QED BY <1>3, <1>4, <1>5, <1>6, <1>7, <1>8, <1>9, <1>10, <1>11 DEF Operation

(* No other step adds to it, but for the beginning of an operation.          *)
LEMMA OthersLeaveSteps ==
    ASSUME IInv, [Next]_vars, op.pc # "idle"
    PROVE  op' = op \/ StepsLeft' < StepsLeft
<1>1. CASE Begin
    BY <1>1 DEF Begin
<1>2. CASE Operation
    BY <1>2, OperationDescends
<1>3. CASE NodeStep
    BY <1>3, NodeStepLeaves
<1>4. CASE ControllerCrash
  <2>1. op'.pc = "idle" /\ op.pc \in OpPlaces /\ Paths \in Nat
      BY <1>4, UpdateAssumption DEF ControllerCrash, NoOp, IInv, TypeOK, Operations
  <2>2. StepsLeft \in Nat /\ StepsLeft # 0
    <3>1. CASE op.pc \in {"undo", "copyEntry"}
      <4>1. op.entry \in Nat
          BY <3>1 DEF IInv, OpInv, Path
      <4> QED BY <3>1, <4>1, Stages DEF StepsLeft
    <3>2. CASE op.pc \notin {"undo", "copyEntry"}
        BY <2>1, <3>2, Stages DEF StepsLeft, OpPlaces
    <3> QED BY <3>1, <3>2
  <2> QED BY <2>1, <2>2, Stages DEF StepsLeft
<1>5. CASE UNCHANGED vars
    BY <1>5 DEF vars, controller
<1> QED BY <1>1, <1>2, <1>3, <1>4, <1>5 DEF Next, NodeStep

(* What OperationsEnd needs of the steps, for a payload of any size: an      *)
(* operation that has begun takes at most 2 * Paths + 14 steps, rollback     *)
(* included, whatever the node, other users and crashes do meanwhile.  No    *)
(* error sends it back to an earlier stage or an entry it has undone.        *)
THEOREM OperationsGoForward ==
    Spec => /\ [](StepsLeft \in 0 .. 2 * Paths + 14)
            /\ [][/\ Operation => StepsLeft' < StepsLeft
                  /\ op.pc # "idle" => op' = op \/ StepsLeft' < StepsLeft]_vars
<1>1. IInv => StepsLeft \in 0 .. 2 * Paths + 14
    BY StepsAreBounded
<1>2. IInv /\ [Next]_vars =>
          [/\ Operation => StepsLeft' < StepsLeft
           /\ op.pc # "idle" => op' = op \/ StepsLeft' < StepsLeft]_vars
    BY OperationDescends, OthersLeaveSteps
<1> QED BY <1>1, <1>2, Invariant, PTL DEF Spec

(* The same for the code of a staged update: two steps for each path, and    *)
(* one to undo it.                                                           *)
WorkFrom(pc, entry) ==
    CASE pc = "none"     -> 0
      [] pc = "remove"   -> 1
      [] pc = "undo"     -> entry + 1
      [] pc = "commit"   -> Paths + 2
      [] pc = "promote"  -> 3 * Paths - 2 * entry + 3
      [] pc = "retain"   -> 3 * Paths - 2 * entry + 4
      [] pc = "manifest" -> 3 * Paths + 3
      [] pc = "stage"    -> 3 * Paths + 4

WorkLeft == WorkFrom(updater.pc, updater.entry)

LEMMA Works ==
    \A e : /\ WorkFrom("none", e) = 0 /\ WorkFrom("remove", e) = 1
           /\ WorkFrom("undo", e) = e + 1
           /\ WorkFrom("commit", e) = Paths + 2
           /\ WorkFrom("promote", e) = 3 * Paths - 2 * e + 3
           /\ WorkFrom("retain", e) = 3 * Paths - 2 * e + 4
           /\ WorkFrom("manifest", e) = 3 * Paths + 3
           /\ WorkFrom("stage", e) = 3 * Paths + 4
BY DEF WorkFrom

LEMMA WorkIsBounded ==
    ASSUME IInv, updater.pc # "command"
    PROVE  WorkLeft \in 0 .. 3 * Paths + 4
<1>1. updater.pc \in UpdaterPlaces /\ Paths \in Nat
    BY UpdateAssumption DEF IInv, TypeOK, Updaters
<1>2. CASE updater.pc \in {"retain", "promote", "undo"}
  <2>1. updater.entry \in 1 .. Paths
      BY <1>2 DEF IInv, UpdaterInv, Path
  <2> QED BY <1>1, <1>2, <2>1, Works DEF WorkLeft
<1>3. CASE updater.pc \notin {"retain", "promote", "undo"}
    BY <1>1, <1>3, Works DEF WorkLeft, UpdaterPlaces
<1> QED BY <1>2, <1>3

(* Every step of a staged update has less before it.                         *)
LEMMA StagedDescends ==
    ASSUME IInv, Updater, kind = "staged"
    PROVE  WorkLeft' < WorkLeft
<1> DEFINE Goes(pc, entry) == updater'.pc = pc /\ updater'.entry = entry
<1>1. TypeOK /\ UpdaterInv /\ Paths \in Nat /\ Paths > 0
    BY UpdateAssumption DEF IInv
<1>2. /\ \A ok \in BOOLEAN : UpdateEnds(ok) => Goes("none", 0)
      /\ \A pc, entry : UpdaterGoes(UpdaterAt(pc, entry)) => Goes(pc, entry)
      /\ StartUndo => Goes("undo", Paths)
  <2>1. ASSUME NEW ok \in BOOLEAN, UpdateEnds(ok) PROVE Goes("none", 0)
      BY <2>1 DEF UpdateEnds, NoUpdater
  <2>2. ASSUME NEW pc, NEW entry, UpdaterGoes(UpdaterAt(pc, entry)) PROVE Goes(pc, entry)
      BY <2>2 DEF UpdaterGoes, UpdaterAt
  <2>3. ASSUME StartUndo PROVE Goes("undo", Paths)
      BY <2>3 DEF UpdaterGoes, UpdaterAt, StartUndo
  <2> HIDE DEF Goes
  <2> QED BY <2>1, <2>2, <2>3
<1>3. updater.pc \notin {"none", "command"}
    BY UpdaterIsAlive DEF IInv, UpdaterInv
<1> HIDE DEF Goes
<1>4. CASE Stage \/ WriteManifest
  <2>1. \/ updater.pc = "stage" /\ (Goes("manifest", 0) \/ Goes("none", 0))
        \/ updater.pc = "manifest" /\ (Goes("retain", 1) \/ Goes("none", 0))
      BY <1>2, <1>4 DEF Stage, WriteManifest
  <2> QED BY <1>1, <2>1, Works DEF Goes, WorkLeft
<1>5. CASE RetainOriginal \/ PromoteStaged
  <2>1. updater.entry \in Nat /\ 1 <= updater.entry /\ updater.entry <= Paths
      BY <1>1, <1>5 DEF UpdaterInv, RetainOriginal, PromoteStaged, Path
  <2>2. \/ updater.pc \in {"retain", "promote"} /\ Goes("undo", Paths)
        \/ updater.pc = "retain" /\ Goes("promote", updater.entry)
        \/ updater.pc = "promote" /\ updater.entry = Paths /\ Goes("commit", 0)
        \/ updater.pc = "promote" /\ Goes("retain", updater.entry + 1)
      BY <1>2, <1>5 DEF RetainOriginal, PromoteStaged
  <2> QED BY <1>1, <2>1, <2>2, Works DEF Goes, WorkLeft
<1>6. CASE Commit
  <2>1. updater.pc = "commit" /\ (Goes("none", 0) \/ Goes("undo", Paths))
      BY <1>2, <1>6 DEF Commit
  <2> QED BY <1>1, <2>1, Works DEF Goes, WorkLeft
<1>7. CASE UndoStaged
  <2>1. updater.pc = "undo" /\ updater.entry \in Nat /\ updater.entry >= 1
      BY <1>1, <1>7 DEF UpdaterInv, UndoStaged, Path
  <2>2. \/ updater.entry = 1 /\ Goes("remove", 0)
        \/ Goes("undo", updater.entry - 1)
      BY <1>7 DEF UndoStaged, UndoNext, UpdaterGoes, Goes
  <2> QED BY <2>1, <2>2, Works DEF Goes, WorkLeft
<1>8. CASE RemoveTransaction
  <2>1. updater.pc = "remove" /\ Goes("none", 0)
      BY <1>2, <1>8 DEF RemoveTransaction
  <2> QED BY <2>1, Works DEF Goes, WorkLeft
<1>9. ~CommandWrites /\ ~CommandEnds
    BY <1>3 DEF CommandWrites, CommandEnds
<1> QED BY <1>4, <1>5, <1>6, <1>7, <1>8, <1>9 DEF Updater

(* The other steps leave a running update where it is, or end it.            *)
LEMMA OthersLeaveWork ==
    ASSUME IInv, [Next]_vars, ~Updater, updater.pc # "none"
    PROVE  updater' = updater \/ updater'.pc = "none"
<1>1. CASE Begin
    BY <1>1 DEF Begin
<1>2. CASE Operation \/ ControllerCrash
  <2>1. ~StartUpdate
      BY DEF StartUpdate, IInv, UpdaterInv, Updating
  <2> QED BY <1>2, <2>1, OperationGoesOn
<1>3. CASE ServerStarts \/ ServerEnds \/ NodeCrash \/ LoseExit
    BY <1>3, ProcessesLeave
<1>4. CASE UNCHANGED vars
    BY <1>4 DEF vars
<1> QED BY <1>1, <1>2, <1>3, <1>4 DEF Next

(* A staged update ends after at most 3 * Paths + 4 steps, its own undoing   *)
(* included (staged-update.go: Apply and rollback): an entry that cannot be  *)
(* put in place, or cannot be undone, never makes it begin again, and the    *)
(* steps of others leave it where it is or end it.                           *)
THEOREM StagedUpdatesGoForward ==
    Spec => /\ [](kind = "staged" => WorkLeft \in 0 .. 3 * Paths + 4)
            /\ [][kind = "staged" /\ updater.pc # "none"
                    => updater' = updater \/ WorkLeft' < WorkLeft]_vars
<1>1. IInv => (kind = "staged" => WorkLeft \in 0 .. 3 * Paths + 4)
    BY WorkIsBounded DEF IInv, UpdaterInv
<1>2. IInv /\ [Next]_vars =>
          [kind = "staged" /\ updater.pc # "none"
             => updater' = updater \/ WorkLeft' < WorkLeft]_vars
  <2> SUFFICES ASSUME IInv, [Next]_vars, kind = "staged", updater.pc # "none"
               PROVE  updater' = updater \/ WorkLeft' < WorkLeft
      OBVIOUS
  <2>1. CASE Updater
      BY <2>1, StagedDescends
  <2>2. CASE ~Updater /\ updater'.pc = "none"
    <3>1. updater.pc \in UpdaterPlaces \ {"none", "command"} /\ Paths \in Nat /\ Paths > 0
        BY UpdateAssumption DEF IInv, TypeOK, Updaters, UpdaterInv
    <3>2. updater.pc \in {"retain", "promote", "undo"} => updater.entry \in 1 .. Paths
        BY DEF IInv, UpdaterInv, Path
    <3>3. WorkLeft > 0
        BY <3>1, <3>2, Works DEF WorkLeft, UpdaterPlaces
    <3> QED BY <2>2, <3>3, Works DEF WorkLeft
  <2> QED BY <2>1, <2>2, OthersLeaveWork
<1> QED BY <1>1, <1>2, Invariant, PTL DEF Spec

====
