---- MODULE SystemUpdate ----
(* The update of the program itself, controller or node: the jobs of         *)
(* internal/controller/api/rpc/system-update.go with their rows in the       *)
(* database, and the artifacts, the hand-off and the replacement of the      *)
(* executable in internal/selfupdate.                                        *)
(* The program, its helper and the controller may end between any two steps, *)
(* every file operation may fail, and a request to a node may arrive late.   *)
EXTENDS Integers, FiniteSets

CONSTANTS Components,  \* what is updated: "controller", "node"
          Modes,       \* how it restarts: in process, by a helper, by a Windows service, by
                       \* another service manager
          MaxVersion,  \* the program's versions are 0..MaxVersion
          MaxJobs,     \* bound on the update jobs; a job's stage has its number
          MaxCrashes   \* bound on the processes that end by themselves

ASSUME SystemUpdateAssumption ==
    /\ Components \subseteq {"controller", "node"}
    /\ Modes \subseteq {"inProcess", "helper", "service", "manager"}
    /\ MaxVersion \in Nat /\ MaxJobs \in Nat \ {0} /\ MaxCrashes \in Nat

VARIABLES
    component, mode,
    (* the machine's disk *)
    exe,       \* the version of the file at the executable's path
    bak,       \* the backups beside it, by job
    cand,      \* the jobs whose install candidate lies beside it
    marker,    \* the markers of pending hand-offs, by job
    aged,      \* the markers older than orphanedHandoffAge
    staged,    \* the staged artifacts
    (* the program that is updated *)
    proc,      \* where its process is, and the version of its code
    handler,   \* the call of Apply that holds artifactMu
    handoff,   \* the job whose hand-off this process has accepted
    at,        \* where the replacement for a job is: in the helper, or in the process itself
    parents,   \* the helpers whose parent process still runs
    (* the controller *)
    ctl,       \* whether the controller of a node runs
    jobs,      \* jobs so far; the last one is the only one that can be active
    target, status,
    retracting, \* the jobs recorded as succeeded whose goroutine is about to record a failure
    runner,    \* where runSystemUpdateJob is for the last job, or ("repoll") its resumption
    requests,  \* calls of ApplySelfUpdate on their way to the node
    (* bounds and history *)
    crashes,
    fault      \* something went wrong since the last hand-off was accepted

files == <<exe, bak, cand, marker, aged>>
disk == <<files, staged>>
program == <<proc, handler, handoff, at, parents>>
session == <<handler, handoff, parents, requests, runner>>
rows == <<jobs, target, status, retracting>>
vars == <<component, mode, disk, program, ctl, rows, runner, requests, crashes, fault>>

Job == 1..MaxJobs
Version == 0..MaxVersion
NoVersion == -1
NoHandler == [pc |-> "none", job |-> 0]

TypeOK ==
    /\ component \in Components /\ mode \in Modes
    /\ exe \in Version \cup {NoVersion}
    /\ bak \in [Job -> Version \cup {NoVersion}]
    /\ cand \subseteq Job /\ aged \subseteq Job /\ staged \subseteq Job /\ parents \subseteq Job
    /\ marker \in [Job -> {"none", "torn", "valid"}]
    /\ proc \in [pc : {"down", "booting", "up", "replacing"}, version : Version]
    /\ handler \in [pc : {"none", "write", "ready"}, job : 0..MaxJobs]
    /\ handoff \in 0..MaxJobs
    /\ at \in [Job -> {"none", "start", "wait", "replace", "install", "launch", "started",
                       "restore", "putBack", "relaunch"}]
    /\ ctl \in BOOLEAN
    /\ jobs \in 0..MaxJobs
    /\ target \in [Job -> Version]
    /\ status \in [Job -> {"none", "running", "restarting", "succeeded", "failed"}]
    /\ retracting \subseteq Job
    /\ runner \in {"none", "stage", "drain", "calling", "poll", "repoll"}
    /\ requests \subseteq Job
    /\ crashes \in 0..MaxCrashes /\ fault \in BOOLEAN

Init ==
    /\ component \in Components
    /\ mode \in Modes
    /\ exe = 0 /\ bak = [n \in Job |-> NoVersion]
    /\ cand = {} /\ marker = [n \in Job |-> "none"] /\ aged = {} /\ staged = {}
    /\ proc = [pc |-> "up", version |-> 0]
    /\ handler = NoHandler /\ handoff = 0
    /\ at = [n \in Job |-> "none"] /\ parents = {}
    /\ ctl = TRUE
    /\ jobs = 0 /\ target = [n \in Job |-> 0] /\ status = [n \in Job |-> "none"]
    /\ retracting = {} /\ runner = "none" /\ requests = {}
    /\ crashes = 0 /\ fault = FALSE

Active(n) == status[n] \in {"running", "restarting"}
ControllerUp == IF component = "controller" THEN proc.pc = "up" ELSE ctl
InProcess == mode = "inProcess"

--------------------------------------------------------------------------------
(* reconcileArtifactsPreserving, called when the program starts, before      *)
(* staging and before applying: it settles what earlier hand-offs have left. *)

Newest(S, k) == {n \in S : Cardinality({m \in S : m > n}) < k}

(* A hand-off nobody works on any more: it is old, its version is installed, *)
(* or it was to be done by a process that has ended.                         *)
Orphaned(n) ==
    /\ marker[n] = "valid"
    /\ n \in aged \/ exe = target[n] \/ (InProcess /\ handoff # n)

Pending ==
    {n \in Job : /\ marker[n] # "none"
                 /\ ~(Orphaned(n) /\ (exe # NoVersion \/ bak[n] # NoVersion))
                 /\ ~(marker[n] = "torn" /\ n \in aged)}

(* Mistake: an orphaned hand-off is always undone.                           *)
RestoredAlways ==
    LET backups == {n \in Job : bak[n] # NoVersion}
        orphans == {n \in backups : Orphaned(n)}
    IN IF orphans # {} THEN Newest(orphans, 1)
       ELSE IF exe = NoVersion /\ Pending = {} THEN Newest(backups, 1) ELSE {}

(* A missing executable is restored from the backup of the orphaned hand-off;*)
(* when nothing is pending, from the newest one there is.                    *)
Restored ==
    LET backups == {n \in Job : bak[n] # NoVersion}
        orphans == {n \in backups : Orphaned(n)}
    IN IF exe # NoVersion THEN {}
       ELSE IF orphans # {} THEN Newest(orphans, 1)
       ELSE IF Pending = {} THEN Newest(backups, 1) ELSE {}

ReconciledExe == IF Restored = {} THEN exe ELSE bak[CHOOSE n \in Restored : TRUE]

KeptBackups ==
    LET left == {n \in Job : bak[n] # NoVersion} \ Restored
    IN IF Pending = {} THEN Newest(left, 1) ELSE left

KeptStages(preserve, retain) ==
    (staged \cap (Pending \cup {preserve}))
      \cup Newest({n \in staged \ (Pending \cup {preserve}) : target[n] # ReconciledExe}, retain)

Reconcile ==
    /\ exe' = ReconciledExe
    /\ bak' = [n \in Job |-> IF n \in KeptBackups THEN bak[n] ELSE NoVersion]
    /\ marker' = [n \in Job |-> IF n \in Pending THEN marker[n] ELSE "none"]
    /\ aged' = aged \cap Pending

--------------------------------------------------------------------------------
(* The jobs.  ReportJob is recordSystemUpdateProgress with a final status.   *)

ReportJob(result) ==
    /\ status' = [status EXCEPT ![jobs] = result]
    /\ runner' = "none"

(* StartSystemUpdate, for the latest release.  The unique index admits one   *)
(* active job for the target.                                                *)
StartJob ==
    /\ ControllerUp /\ proc.pc = "up"
    /\ jobs < MaxJobs
    /\ \A n \in Job : ~Active(n)
    /\ \E v \in Version :
         /\ v > proc.version
         /\ \A n \in 1..jobs : v >= target[n]
         /\ target' = [target EXCEPT ![jobs + 1] = v]
    /\ jobs' = jobs + 1
    /\ status' = [status EXCEPT ![jobs + 1] = "running"]
    /\ runner' = "stage"
    /\ UNCHANGED <<component, mode, disk, program, ctl, retracting, requests, crashes, fault>>

(* Download and Stage.  A node may have staged the artifact and its answer   *)
(* be lost.                                                                  *)
StageArtifact ==
    /\ runner = "stage"
    /\ \/ /\ proc.pc = "up" /\ handler.pc = "none"
          /\ Reconcile
          /\ cand' = cand \cap Pending
          /\ \/ /\ Pending = {}
                /\ staged' = KeptStages(0, 1) \cup {jobs}
                /\ runner' = "drain" /\ UNCHANGED status
             \/ /\ staged' = KeptStages(0, 1)
                /\ ReportJob("failed")
             \/ /\ Pending = {} /\ component = "node"
                /\ staged' = KeptStages(0, 1) \cup {jobs}
                /\ ReportJob("failed")
       \/ ReportJob("failed") /\ UNCHANGED disk
    /\ UNCHANGED <<component, mode, program, ctl, jobs, target, retracting, requests, crashes, fault>>

(* The game servers are stopped, and Apply is called.                        *)
CallApply ==
    /\ runner = "drain"
    /\ \/ /\ status' = [status EXCEPT ![jobs] = "restarting"]
          /\ runner' = "calling"
          /\ requests' = IF component = "node" /\ proc.pc = "up" THEN requests \cup {jobs} ELSE requests
       \/ ReportJob("failed") /\ UNCHANGED requests
    /\ UNCHANGED <<component, mode, disk, program, ctl, jobs, target, retracting, crashes, fault>>

(* The node has accepted, its answer is ambiguous, or the call times out.    *)
AwaitNode ==
    /\ runner = "calling" /\ component = "node"
    /\ runner' = "poll"
    /\ UNCHANGED <<component, mode, disk, program, ctl, rows, requests, crashes, fault>>

LoseRequest ==
    /\ \E n \in requests : requests' = requests \ {n}
    /\ UNCHANGED <<component, mode, disk, program, ctl, rows, runner, crashes, fault>>

(* pollNodeTargetVersion.  The row is written first and its event after it;  *)
(* if the event fails, runSystemUpdateJob takes that for a failed update.    *)
PollVersion ==
    /\ runner \in {"poll", "repoll"}
    /\ proc.pc = "up" /\ proc.version >= target[jobs]
    /\ ReportJob("succeeded")
    /\ \/ UNCHANGED retracting
       \/ runner = "poll" /\ retracting' = retracting \cup {jobs}
    /\ UNCHANGED <<component, mode, disk, program, ctl, jobs, target, requests, crashes, fault>>

(* The end of runSystemUpdateJob.  Another job may have begun.               *)
Retract(n) ==
    /\ n \in retracting
    /\ status' = [status EXCEPT ![n] = "failed"]
    /\ retracting' = retracting \ {n}
    /\ UNCHANGED <<component, mode, disk, program, ctl, jobs, target, runner, requests, crashes,
                   fault>>

(* Mistake: there is no deadline while the node does not answer.             *)
PollTimesOutIfUp ==
    /\ runner \in {"poll", "repoll"}
    /\ proc.pc = "up"
    /\ ReportJob("failed")
    /\ UNCHANGED <<component, mode, disk, program, ctl, jobs, target, retracting, requests, crashes,
                   fault>>

PollTimesOut ==
    /\ runner \in {"poll", "repoll"}
    /\ ReportJob("failed")
    /\ UNCHANGED <<component, mode, disk, program, ctl, jobs, target, retracting, requests, crashes,
                   fault>>

(* Mistake: every job is judged by the version that runs now.                *)
ResumeByVersion ==
    /\ status' = [n \in Job |->
         IF n > jobs \/ (component = "node" /\ Active(n)) THEN status[n]
         ELSE IF proc.version >= target[n] THEN "succeeded"
         ELSE "failed"]
    /\ runner' = IF component = "node" /\ \E n \in Job : Active(n) THEN "repoll" ELSE "none"

(* ResumeSystemUpdateJobs.                                                   *)
Resume ==
    /\ status' = [n \in Job |->
         IF ~Active(n) \/ (component = "node" /\ status[n] = "restarting") THEN status[n]
         ELSE IF status[n] = "restarting" /\ proc.version >= target[n] THEN "succeeded"
         ELSE "failed"]
    /\ runner' = IF component = "node" /\ \E n \in Job : status[n] = "restarting"
                 THEN "repoll" ELSE "none"

ControllerStarts ==
    /\ component = "node" /\ ~ctl
    /\ ctl' = TRUE
    /\ Resume
    /\ UNCHANGED <<component, mode, disk, program, jobs, target, retracting, requests, crashes, fault>>

ControllerEnds ==
    /\ component = "node" /\ ctl
    /\ crashes < MaxCrashes /\ crashes' = crashes + 1
    /\ ctl' = FALSE
    /\ runner' = "none" /\ retracting' = {}
    /\ UNCHANGED <<component, mode, disk, program, jobs, target, status, requests, fault>>

--------------------------------------------------------------------------------
(* Apply.                                                                    *)

(* An error is definite or ambiguous for the controller of a node.           *)
Refuse(n) ==
    /\ handler' = NoHandler
    /\ \/ ReportJob("failed") /\ runner = "calling" /\ n = jobs
       \/ UNCHANGED <<status, runner>> /\ component = "node"

Accept(n) ==
    /\ handler' = NoHandler
    /\ handoff' = n
    /\ fault' = FALSE
    /\ runner' = IF component = "controller" THEN "none" ELSE runner
    /\ UNCHANGED status

(* Mistake: a hand-off that is still pending is no reason to refuse.         *)
ApplyBesides(n) ==
    /\ proc.pc = "up" /\ handler.pc = "none"
    /\ IF component = "node" THEN n \in requests ELSE runner = "calling" /\ n = jobs
    /\ requests' = requests \ {n}
    /\ Reconcile
    /\ staged' = KeptStages(n, 2)
    /\ \/ /\ handoff = 0 /\ n \in staged
          /\ cand' = (cand \cap Pending) \cup {n}
          /\ handler' = [pc |-> "write", job |-> n]
          /\ UNCHANGED <<status, runner>>
       \/ /\ cand' = cand \cap Pending
          /\ Refuse(n)
    /\ UNCHANGED <<component, mode, proc, handoff, at, parents, ctl, jobs, target, retracting,
                   crashes, fault>>

(* Up to prepareInstallCandidate.                                            *)
Apply(n) ==
    /\ proc.pc = "up" /\ handler.pc = "none"
    /\ IF component = "node" THEN n \in requests ELSE runner = "calling" /\ n = jobs
    /\ requests' = requests \ {n}
    /\ Reconcile
    /\ staged' = KeptStages(n, 2)
    /\ \/ /\ Pending = {} /\ handoff = 0 /\ n \in staged
          /\ cand' = (cand \cap Pending) \cup {n}
          /\ handler' = [pc |-> "write", job |-> n]
          /\ UNCHANGED <<status, runner>>
       \/ /\ cand' = cand \cap Pending
          /\ Refuse(n)
    /\ UNCHANGED <<component, mode, proc, handoff, at, parents, ctl, jobs, target, retracting,
                   crashes, fault>>

(* removeHandoffArtifactsOnError, after the helper was killed if there is    *)
(* one.  What cannot be removed stays; left is what it may be of the marker. *)
AbandonHandoff(n, left) ==
    /\ cand' \in {cand, cand \ {n}}
    /\ \E m \in left : marker' = [marker EXCEPT ![n] = m]
    /\ UNCHANGED aged
    /\ at' = [at EXCEPT ![n] = "none"]
    /\ parents' = parents \ {n}
    /\ Refuse(n)
    /\ UNCHANGED <<handoff, fault>>

WriteMarker(n) ==
    /\ handler = [pc |-> "write", job |-> n]
    /\ \/ /\ marker' = [marker EXCEPT ![n] = "valid"]
          /\ IF InProcess
             THEN Accept(n) /\ UNCHANGED <<at, parents>>
             ELSE /\ at' = [at EXCEPT ![n] = "start"]
                  /\ parents' = parents \cup {n}
                  /\ handler' = [pc |-> "ready", job |-> n]
                  /\ UNCHANGED <<handoff, status, runner, fault>>
          /\ UNCHANGED <<cand, aged>>
       \/ AbandonHandoff(n, {"none", "torn", "valid"})
    /\ UNCHANGED <<component, mode, exe, bak, staged, proc, ctl, jobs, target, retracting,
                   requests, crashes>>

(* waitForHelperReady.                                                       *)
AwaitHelper(n) ==
    /\ handler = [pc |-> "ready", job |-> n]
    /\ \/ /\ at[n] = "wait"
          /\ Accept(n)
          /\ UNCHANGED <<cand, marker, aged, at, parents>>
       \/ AbandonHandoff(n, {"none", "valid"})
    /\ UNCHANGED <<component, mode, exe, bak, staged, proc, ctl, jobs, target, retracting,
                   requests, crashes>>

--------------------------------------------------------------------------------
(* The process.                                                              *)

(* What ends with the process, calls over its connections included.  A       *)
(* helper goes on.                                                           *)
ProcessGone ==
    /\ handler' = NoHandler /\ handoff' = 0 /\ parents' = {}
    /\ requests' = {}
    /\ runner' = IF component = "controller" THEN "none" ELSE runner

(* The graceful shutdown that an accepted hand-off asks for; in process,     *)
(* CompleteSelfUpdate follows.                                               *)
ShutDown(n) ==
    /\ proc.pc = "up" /\ handler.pc = "none" /\ handoff = n
    /\ IF InProcess
       THEN /\ proc' = [proc EXCEPT !.pc = "replacing"]
            /\ at' = [at EXCEPT ![n] = "replace"]
            /\ runner' = IF component = "controller" THEN "none" ELSE runner
            /\ requests' = {}
            /\ UNCHANGED <<handler, handoff, parents>>
       ELSE /\ proc' = [proc EXCEPT !.pc = "down"]
            /\ ProcessGone
            /\ UNCHANGED at
    /\ UNCHANGED <<component, mode, disk, ctl, rows, crashes, fault>>

(* A marker is not written in one step.                                      *)
Crash ==
    /\ proc.pc # "down"
    /\ crashes < MaxCrashes /\ crashes' = crashes + 1
    /\ proc' = [proc EXCEPT !.pc = "down"]
    /\ ProcessGone
    /\ at' = IF InProcess THEN [n \in Job |-> "none"] ELSE at
    /\ IF handler.pc = "write"
       THEN \E m \in {"none", "torn", "valid"} : marker' = [marker EXCEPT ![handler.job] = m]
       ELSE UNCHANGED marker
    /\ fault' = TRUE
    /\ UNCHANGED <<component, mode, exe, bak, cand, aged, staged, ctl, rows>>

(* An administrator, the machine's boot, or a service manager; while a       *)
(* helper is at work only the helper starts the program (README.md:186).     *)
HostStarts ==
    /\ proc.pc = "down" /\ exe # NoVersion
    /\ \A n \in Job : at[n] = "none"
    /\ proc' = [pc |-> "booting", version |-> exe]
    /\ UNCHANGED <<component, mode, disk, handler, handoff, at, parents, ctl, rows, runner,
                   requests, crashes, fault>>

(* NewManager, then ResumeSystemUpdateJobs in a controller.  A service is    *)
(* Running before, and the helper that waits for it asks four times a second.*)
Boot ==
    /\ proc.pc = "booting"
    /\ \A n \in Job : at[n] # "started"
    /\ proc' = [proc EXCEPT !.pc = "up"]
    /\ Reconcile
    /\ cand' = cand \cap Pending
    /\ staged' = KeptStages(0, 2)
    /\ IF component = "controller" THEN Resume ELSE UNCHANGED <<status, runner>>
    /\ UNCHANGED <<component, mode, handler, handoff, at, parents, ctl, jobs, target, retracting,
                   requests, crashes, fault>>

(* Sixteen minutes pass over a marker that neither a helper nor the process  *)
(* is at work on; a helper does not last that long.                          *)
MarkerAges(n) ==
    /\ marker[n] # "none" /\ n \notin aged
    /\ at[n] = "none" /\ handler.job # n /\ handoff # n
    /\ aged' = aged \cup {n}
    /\ UNCHANGED <<component, mode, exe, bak, cand, marker, staged, program, ctl, rows, runner,
                   requests, crashes, fault>>

--------------------------------------------------------------------------------
(* The replacement of the executable: runHelperWithDependencies in a helper, *)
(* replaceAndRestartCurrentProcess in the process itself.                    *)

Quiet == UNCHANGED <<component, mode, staged, ctl, rows, crashes>>

GoesTo(n, place) == at' = [at EXCEPT ![n] = place]

(* recoverPreviousExecutable and restartPreviousExecutable.                  *)
Recover(n) ==
    /\ GoesTo(n, "restore")
    /\ fault' = TRUE
    /\ UNCHANGED <<files, proc, session>>

(* The marker stays for reconcileArtifacts.                                  *)
GiveUp(n) ==
    /\ GoesTo(n, "none")
    /\ fault' = TRUE
    /\ IF InProcess
       THEN proc' = [proc EXCEPT !.pc = "down"] /\ ProcessGone
       ELSE UNCHANGED <<proc, session>>
    /\ UNCHANGED files

HelperStarts(n) ==
    /\ at[n] = "start"
    /\ \/ /\ marker[n] = "valid" /\ n \in cand
          /\ GoesTo(n, "wait")
          /\ UNCHANGED <<files, proc, session, fault>>
       \/ GiveUp(n)
    /\ Quiet

HelperWaits(n) ==
    /\ at[n] = "wait" /\ n \notin parents
    /\ GoesTo(n, "replace")
    /\ UNCHANGED <<files, proc, session, fault>>
    /\ Quiet

(* After 15 minutes; a controller ends within 14.                            *)
HelperTimesOut(n) ==
    /\ at[n] = "wait" /\ n \in parents
    /\ handoff = n /\ component = "node"
    /\ GiveUp(n)
    /\ Quiet

(* The checksum, then replaceExecutable.                                     *)
MoveAside(n) ==
    /\ at[n] = "replace"
    /\ \/ /\ n \in cand /\ exe # NoVersion /\ bak[n] = NoVersion
          /\ exe' = NoVersion
          /\ bak' = [bak EXCEPT ![n] = exe]
          /\ GoesTo(n, "install")
          /\ UNCHANGED <<cand, marker, aged, proc, session, fault>>
       \/ Recover(n)
    /\ Quiet

(* The new executable may turn out to be bad when it is in place.            *)
Install(n) ==
    /\ at[n] = "install"
    /\ \/ /\ n \in cand
          /\ exe' = target[n]
          /\ cand' = cand \ {n}
          /\ \/ GoesTo(n, "launch") /\ UNCHANGED fault
             \/ GoesTo(n, "restore") /\ fault' = TRUE
          /\ UNCHANGED <<bak, marker, aged, proc, session>>
       \/ Recover(n)
    /\ Quiet

RemoveMarker(n) ==
    /\ marker' = [marker EXCEPT ![n] = "none"]
    /\ aged' = aged \ {n}

StartExecutable == proc' = [pc |-> "booting", version |-> exe]

(* Mistake: the helper leaves the start to somebody else.                    *)
LaunchNothing(n) ==
    /\ at[n] = "launch"
    /\ GoesTo(n, "none")
    /\ RemoveMarker(n)
    /\ UNCHANGED <<exe, bak, cand, proc, session, fault>>
    /\ Quiet

(* A service manager is left to start the program.  A helper starts it and   *)
(* then removes the marker, unless it dies first; in process, that is left   *)
(* to the program that is started.  A service that may be running after an   *)
(* error is not rolled back.                                                 *)
Launch(n) ==
    /\ at[n] = "launch"
    /\ \/ /\ mode = "manager"
          /\ GoesTo(n, "none")
          /\ RemoveMarker(n)
          /\ UNCHANGED <<exe, bak, cand, proc, session, fault>>
       \/ /\ mode = "helper"
          /\ StartExecutable
          /\ GoesTo(n, "none")
          /\ RemoveMarker(n) \/ UNCHANGED <<marker, aged>>
          /\ UNCHANGED <<exe, bak, cand, session, fault>>
       \/ /\ mode = "service"
          /\ StartExecutable
          /\ GoesTo(n, "started")
          /\ UNCHANGED <<files, session, fault>>
       \/ /\ InProcess
          /\ StartExecutable
          /\ GoesTo(n, "none")
          /\ ProcessGone
          /\ UNCHANGED <<files, fault>>
       \/ mode # "manager" /\ Recover(n)
       \/ mode = "service" /\ GiveUp(n)
    /\ Quiet

(* waitForRestartedWindowsService.                                           *)
AwaitService(n) ==
    /\ at[n] = "started"
    /\ \/ /\ proc.pc # "down"
          /\ GoesTo(n, "none")
          /\ RemoveMarker(n) \/ UNCHANGED <<marker, aged>>
          /\ UNCHANGED <<exe, bak, cand, proc, session, fault>>
       \/ proc.pc = "down" /\ Recover(n)
       \/ GiveUp(n)
    /\ Quiet

(* Mistake: the replacement is removed whether there is a backup or not.     *)
RestoreBlindly(n) ==
    /\ at[n] = "restore"
    /\ IF exe # NoVersion
       THEN /\ exe' = NoVersion
            /\ GoesTo(n, "putBack")
       ELSE GoesTo(n, "putBack") /\ UNCHANGED exe
    /\ UNCHANGED <<bak, cand, marker, aged, proc, session, fault>>
    /\ Quiet

(* restorePreviousExecutable: the replacement is removed before the backup   *)
(* is renamed.                                                               *)
Restore(n) ==
    /\ at[n] = "restore"
    /\ \/ /\ bak[n] = NoVersion /\ exe # NoVersion
          /\ GoesTo(n, "relaunch")
          /\ UNCHANGED <<files, proc, session, fault>>
       \/ /\ bak[n] # NoVersion
          /\ exe' = NoVersion
          /\ GoesTo(n, "putBack")
          /\ UNCHANGED <<bak, cand, marker, aged, proc, session, fault>>
       \/ GiveUp(n)
    /\ Quiet

(* Mistake: the error of the rename is not looked at.                        *)
PutBackUnchecked(n) ==
    /\ at[n] = "putBack"
    /\ \/ /\ bak[n] # NoVersion
          /\ exe' = bak[n]
          /\ bak' = [bak EXCEPT ![n] = NoVersion]
       \/ UNCHANGED <<exe, bak>>
    /\ GoesTo(n, "relaunch")
    /\ UNCHANGED <<cand, marker, aged, proc, session, fault>>
    /\ Quiet

PutBack(n) ==
    /\ at[n] = "putBack"
    /\ \/ /\ bak[n] # NoVersion
          /\ exe' = bak[n]
          /\ bak' = [bak EXCEPT ![n] = NoVersion]
          /\ GoesTo(n, "relaunch")
          /\ UNCHANGED <<cand, marker, aged, proc, session, fault>>
       \/ GiveUp(n)
    /\ Quiet

Relaunch(n) ==
    /\ at[n] = "relaunch"
    /\ \/ /\ GoesTo(n, "none")
          /\ \/ /\ mode = "manager"
                /\ RemoveMarker(n)
                /\ UNCHANGED <<proc, session>>
             \/ /\ mode \in {"helper", "service"}
                /\ StartExecutable
                /\ RemoveMarker(n) \/ UNCHANGED <<marker, aged>>
                /\ UNCHANGED session
             \/ /\ InProcess
                /\ StartExecutable
                /\ RemoveMarker(n)
                /\ ProcessGone
          /\ UNCHANGED <<exe, bak, cand, fault>>
       \/ mode # "manager" /\ GiveUp(n)
    /\ Quiet

HelperCrash(n) ==
    /\ at[n] # "none" /\ ~InProcess
    /\ crashes < MaxCrashes /\ crashes' = crashes + 1
    /\ GoesTo(n, "none")
    /\ fault' = TRUE
    /\ UNCHANGED <<component, mode, disk, proc, handler, handoff, parents, ctl, rows, runner, requests>>

--------------------------------------------------------------------------------
Runner == StageArtifact \/ CallApply \/ AwaitNode \/ PollVersion \/ PollTimesOut

ApplySteps(n) == Apply(n) \/ WriteMarker(n) \/ AwaitHelper(n)

Replacement(n) ==
    \/ HelperStarts(n) \/ HelperWaits(n) \/ MoveAside(n) \/ Install(n) \/ Launch(n)
    \/ AwaitService(n) \/ Restore(n) \/ PutBack(n) \/ Relaunch(n)

Next ==
    \/ StartJob \/ Runner \/ LoseRequest \/ ControllerStarts \/ ControllerEnds
    \/ Crash \/ HostStarts \/ Boot
    \/ \E n \in Job : \/ ApplySteps(n) \/ ShutDown(n) \/ MarkerAges(n) \/ Retract(n)
                      \/ Replacement(n) \/ HelperTimesOut(n) \/ HelperCrash(n)

ManagerStarts == HostStarts /\ mode = "manager"

(* Goroutines and processes that can go on do, and a service manager is      *)
(* there when it was promised.                                               *)
Spec ==
    /\ Init /\ [][Next]_vars
    /\ WF_vars(Runner)
    /\ \A n \in Job : WF_vars(ApplySteps(n)) /\ WF_vars(ShutDown(n)) /\ WF_vars(Replacement(n))
    /\ WF_vars(Boot) /\ WF_vars(ManagerStarts)

--------------------------------------------------------------------------------
(* Properties.                                                               *)

(* The executable is never lost: whenever its path is empty, a backup is     *)
(* left that reconcileArtifacts would put back, be it the one of the pending *)
(* hand-off or, when no marker tells, the newest one.                        *)
ExecutableIsRecoverable ==
    exe = NoVersion =>
        \E n \in Job : bak[n] # NoVersion /\ (marker[n] = "valid" \/ \A m \in Job : marker[m] = "none")

(* Two replacements never work on the executable at the same time, and there *)
(* is never more than one marker: Apply, the helper and the process agree on *)
(* who may replace it.                                                       *)
OneHandoff ==
    \A n, m \in Job :
        n # m => ~(at[n] # "none" /\ at[m] # "none") /\ ~(marker[n] # "none" /\ marker[m] # "none")

(* An update that was reported as succeeded stays: the executable is of its  *)
(* version or a later one, or, while a later update is being installed, the  *)
(* backup is.                                                                *)
SuccessIsDurable ==
    \A n \in Job : status[n] = "succeeded" =>
        \/ exe >= target[n]
        \/ exe = NoVersion /\ \E m \in Job : bak[m] >= target[n]

(* A job that has ended stays as it is, whatever later jobs and the          *)
(* resumption after a restart of the controller do.  The exception is one    *)
(* recorded as succeeded whose event could not be written: its own goroutine *)
(* records a failure over it, unless the controller ends first               *)
(* (recordSystemUpdateProgress, runSystemUpdateJob).                         *)
FinishedJobsStay ==
    [][\A n \in Job :
         /\ status[n] = "failed" => status'[n] = "failed"
         /\ status[n] = "succeeded" =>
                \/ status'[n] = "succeeded"
                \/ n \in retracting /\ status'[n] = "failed"]_vars

(* A job does not stay active for as long as the controller runs: the update *)
(* of a node that never comes back ends too, and so does a job that was      *)
(* found active when the controller started.                                 *)
JobsEnd == \A n \in Job : (Active(n) /\ ControllerUp) ~> ~(Active(n) /\ ControllerUp)

(* A hand-off that was accepted ends with the program running its version,   *)
(* if nothing goes wrong in between.                                         *)
AcceptedUpdatesArrive ==
    \A n \in Job : (handoff = n /\ ~fault)
                     ~> (fault \/ (proc.pc = "up" /\ proc.version >= target[n]))

====
