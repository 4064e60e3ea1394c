---- MODULE SystemUpdateProofs ----
(* Theorems about SystemUpdate: who is at work on the executable, what it    *)
(* and its backup hold, and that a job's update only ever goes forward.      *)
EXTENDS SystemUpdate, TLAPS

(* What a process can be doing.  When it runs, the executable on disk is the *)
(* one it was started from.                                                  *)
ProcInv ==
    /\ handler.pc # "none" => handler.job \in Job /\ proc.pc = "up" /\ handoff = 0
    /\ handoff # 0 => proc.pc \in {"up", "replacing"}
    /\ proc.pc = "replacing" => InProcess
    /\ proc.pc \in {"booting", "up"} => exe = proc.version
    /\ requests # {} => proc.pc = "up"

(* A hand-off is only prepared when nothing is left of an earlier one.       *)
WriteInv ==
    handler.pc = "write" =>
        \A n \in Job : marker[n] = "none" /\ at[n] = "none" /\ n \notin parents

(* The process has a hand-off for job n, accepted or about to be.            *)
Held(n) == handoff = n \/ (handler.pc = "ready" /\ handler.job = n)

(* Then nobody else has one.                                                 *)
SoleInv ==
    /\ \A n \in Job : Held(n) \/ at[n] # "none" => marker[n] # "torn"
    /\ \A n, m \in Job :
           (Held(n) \/ at[n] # "none") /\ n # m => marker[m] = "none" /\ at[m] = "none"

OneMarker == \A n, m \in Job : n # m => marker[n] = "none" \/ marker[m] = "none"

(* A helper waits for the process that has the hand-off.                     *)
ParentInv ==
    \A n \in parents : ~InProcess /\ Held(n) /\ at[n] \in {"none", "start", "wait"}

(* Which replacement may exist beside which process.                         *)
BesideInv ==
    /\ handler.pc = "ready" => ~InProcess
    /\ \A n \in Job : at[n] # "none" /\ InProcess =>
           /\ proc.pc = "replacing" /\ handoff = n
           /\ at[n] \notin {"start", "wait", "started"}
    /\ \A n \in Job : at[n] # "none" /\ ~InProcess =>
           \/ proc.pc = "down"
           \/ proc.pc = "up" /\ n \in parents
           \/ proc.pc = "booting" /\ at[n] = "started"

HandoffInv == WriteInv /\ SoleInv /\ OneMarker /\ ParentInv /\ BesideInv

(* Where the executable and its backup are at each point of a replacement.   *)
PlaceInv ==
    \A n \in Job :
        /\ at[n] \in {"start", "wait", "replace", "started", "relaunch"} => exe # NoVersion
        /\ at[n] \in {"install", "putBack"} => exe = NoVersion /\ bak[n] # NoVersion
        /\ at[n] = "launch" => exe # NoVersion /\ bak[n] # NoVersion
        /\ at[n] = "restore" /\ exe = NoVersion => bak[n] # NoVersion

RecoveryInv == PlaceInv /\ ExecutableIsRecoverable

(* At most the last job is active, and it is when a goroutine works on it.   *)
ActiveInv ==
    /\ runner # "none" => jobs \in Job /\ Active(jobs)
    /\ \A n \in Job : status[n] # "none" => n <= jobs
    /\ \A n \in Job : Active(n) => n = jobs
    /\ \A n \in retracting : status[n] = "succeeded"

(* No job aims below an earlier one.                                         *)
TargetInv == \A n, m \in Job : n <= m /\ m <= jobs => target[n] <= target[m]

JobInv == ActiveInv /\ TargetInv

(* The job can still be applied, or its replacement has not begun.           *)
Waiting(n) ==
    \/ n \in requests
    \/ handler.pc # "none" /\ handler.job = n
    \/ handoff = n /\ proc.pc = "up"
    \/ at[n] \in {"start", "wait", "replace"}

(* The job has not been handed to the program yet.                           *)
Fresh(n) ==
    \/ n > jobs
    \/ n = jobs /\ runner \in {"stage", "drain"}
    \/ n = jobs /\ runner = "calling" /\ component = "controller" /\ handler.pc = "none"

(* The last job's version is the highest there is.                           *)
Newer(v) == IF jobs = 0 THEN v <= 0 ELSE v <= target[jobs]
LatestInv == Newer(exe) /\ \A n \in Job : Newer(bak[n])

(* A job that waits does not aim below the version that is there.            *)
WaitingInv == \A n \in Job : Waiting(n) => exe <= target[n]

(* A job is handed over once.                                                *)
OnceInv == \A n \in Job : Waiting(n) \/ at[n] # "none" => n <= jobs /\ ~Fresh(n)

(* A job has a backup only when its replacement has begun.                   *)
FreshInv == \A n \in Job : Waiting(n) \/ Fresh(n) => bak[n] = NoVersion

(* What a replacement could put back is not below a reported success.        *)
BackupInv ==
    \A n \in Job : at[n] # "none" /\ bak[n] # NoVersion =>
        /\ bak[n] <= target[n]
        /\ \A m \in Job : status[m] = "succeeded" => target[m] <= bak[n]

VersionInv == LatestInv /\ WaitingInv /\ OnceInv /\ FreshInv /\ BackupInv /\ SuccessIsDurable

IInv == TypeOK /\ ProcInv /\ HandoffInv /\ RecoveryInv /\ JobInv /\ VersionInv

(* The fields of the records.                                                *)
LEMMA FieldTypes ==
    ASSUME TypeOK
    PROVE  /\ proc.pc \in {"down", "booting", "up", "replacing"} /\ proc.version \in Version
           /\ handler.pc \in {"none", "write", "ready"} /\ handler.job \in 0..MaxJobs
           /\ 0 \notin Job
           /\ NoHandler.pc = "none" /\ NoHandler.job = 0
           /\ \A pc : /\ [proc EXCEPT !.pc = pc].pc = pc
                     /\ [proc EXCEPT !.pc = pc].version = proc.version
<1>1. /\ proc.pc \in {"down", "booting", "up", "replacing"} /\ proc.version \in Version
      /\ handler.pc \in {"none", "write", "ready"} /\ handler.job \in 0..MaxJobs
      /\ \A pc : [proc EXCEPT !.pc = pc].pc = pc /\ [proc EXCEPT !.pc = pc].version = proc.version
    BY DEF TypeOK
<1>2. 0 \notin Job
    BY SystemUpdateAssumption DEF Job
<1>3. NoHandler.pc = "none" /\ NoHandler.job = 0
    BY DEF NoHandler
<1> QED BY <1>1, <1>2, <1>3

(* A running program that settles what is left finds its executable there,   *)
(* and only removes backups and markers.                                     *)
LEMMA ReconcileMoves ==
    ASSUME TypeOK, ProcInv, proc.pc \in {"booting", "up"}, Reconcile
    PROVE  /\ exe' = exe /\ exe \in Version /\ exe = proc.version
           /\ bak' \in [Job -> Version \cup {NoVersion}]
           /\ marker' \in [Job -> {"none", "torn", "valid"}]
           /\ aged' \subseteq Job
           /\ \A n \in Job : bak'[n] \in {bak[n], NoVersion} /\ marker'[n] \in {marker[n], "none"}
           /\ Pending = {} => \A n \in Job : marker'[n] = "none"
<1>1. exe = proc.version /\ exe \in Version
    BY FieldTypes DEF ProcInv
<1>2. exe # NoVersion
    BY <1>1, SystemUpdateAssumption DEF Version, NoVersion
<1>3. Restored = {}
    BY <1>2 DEF Restored
<1>4. exe' = exe
    BY <1>3 DEF Reconcile, ReconciledExe
<1>5. /\ bak' \in [Job -> Version \cup {NoVersion}]
      /\ \A n \in Job : bak'[n] \in {bak[n], NoVersion}
    BY DEF Reconcile, TypeOK
<1>6. /\ marker' \in [Job -> {"none", "torn", "valid"}]
      /\ \A n \in Job : marker'[n] \in {marker[n], "none"}
      /\ Pending = {} => \A n \in Job : marker'[n] = "none"
    BY DEF Reconcile, TypeOK
<1>7. aged' \subseteq Job
    BY DEF Reconcile, TypeOK
<1> QED BY <1>1, <1>4, <1>5, <1>6, <1>7

(* SoleInv and OneMarker can only be broken by a new hand-off.               *)
LEMMA SoleShrinks ==
    ASSUME SoleInv, OneMarker,
           \A n \in Job : /\ marker'[n] \in {marker[n], "none"}
                          /\ at'[n] # "none" => at[n] # "none",
           \A n \in Job : Held(n)' => Held(n)
    PROVE  SoleInv' /\ OneMarker'
<1>1. OneMarker'
    BY DEF OneMarker
<1>2. SoleInv'
    BY DEF SoleInv
<1> QED BY <1>1, <1>2

(* The sets of TypeOK, by name.                                              *)
Places == {"none", "start", "wait", "replace", "install", "launch", "started", "restore",
           "putBack", "relaunch"}
Statuses == {"none", "running", "restarting", "succeeded", "failed"}
Processes == [pc : {"down", "booting", "up", "replacing"}, version : Version]
Handlers == [pc : {"none", "write", "ready"}, job : 0..MaxJobs]

(* What single changes keep their types.                                     *)
LEMMA ChangeTypes ==
    ASSUME TypeOK
    PROVE  /\ \A n \in Job, p \in Places : [at EXCEPT ![n] = p] \in [Job -> Places]
           /\ \A n, s \in Statuses : [status EXCEPT ![n] = s] \in [Job -> Statuses]
           /\ \A n, b \in Version \cup {NoVersion} :
                  [bak EXCEPT ![n] = b] \in [Job -> Version \cup {NoVersion}]
           /\ \A n, m \in {"none", "torn", "valid"} :
                  [marker EXCEPT ![n] = m] \in [Job -> {"none", "torn", "valid"}]
           /\ \A pc \in {"down", "booting", "up", "replacing"} :
                  /\ [proc EXCEPT !.pc = pc] \in Processes
                  /\ \A v \in Version : [pc |-> pc, version |-> v] \in Processes
           /\ NoHandler \in Handlers
           /\ "none" \in Places /\ "start" \in Places /\ "wait" \in Places /\ "replace" \in Places
           /\ "install" \in Places /\ "launch" \in Places /\ "started" \in Places
           /\ "restore" \in Places /\ "putBack" \in Places /\ "relaunch" \in Places
           /\ "running" \in Statuses /\ "restarting" \in Statuses
           /\ "succeeded" \in Statuses /\ "failed" \in Statuses
           /\ \A pc \in {"none", "write", "ready"}, n \in Job :
                  [pc |-> pc, job |-> n] \in Handlers
<1>1. \A n \in Job, p \in Places : [at EXCEPT ![n] = p] \in [Job -> Places]
    BY DEF TypeOK, Places
<1>2. \A n, s \in Statuses : [status EXCEPT ![n] = s] \in [Job -> Statuses]
    BY DEF TypeOK, Statuses
<1>3. \A n, b \in Version \cup {NoVersion} :
          [bak EXCEPT ![n] = b] \in [Job -> Version \cup {NoVersion}]
    BY DEF TypeOK
<1>4. \A n, m \in {"none", "torn", "valid"} :
          [marker EXCEPT ![n] = m] \in [Job -> {"none", "torn", "valid"}]
    BY DEF TypeOK
<1>5. \A pc \in {"down", "booting", "up", "replacing"} :
          /\ [proc EXCEPT !.pc = pc] \in Processes
          /\ \A v \in Version : [pc |-> pc, version |-> v] \in Processes
    BY DEF TypeOK, Processes
<1>6. NoHandler \in Handlers
    BY SystemUpdateAssumption DEF NoHandler, Handlers
<1>7. \A pc \in {"none", "write", "ready"}, n \in Job : [pc |-> pc, job |-> n] \in Handlers
    BY SystemUpdateAssumption DEF Handlers, Job
<1> QED BY <1>1, <1>2, <1>3, <1>4, <1>5, <1>6, <1>7 DEF Places, Statuses

(* TypeOK in four parts.                                                     *)
DiskTyped ==
    /\ exe \in Version \cup {NoVersion}
    /\ bak \in [Job -> Version \cup {NoVersion}]
    /\ marker \in [Job -> {"none", "torn", "valid"}]
    /\ cand \subseteq Job /\ aged \subseteq Job /\ staged \subseteq Job

ProgramTyped ==
    /\ proc \in Processes /\ handler \in Handlers
    /\ handoff \in 0..MaxJobs
    /\ at \in [Job -> Places]
    /\ parents \subseteq Job

RowsTyped ==
    /\ jobs \in 0..MaxJobs
    /\ target \in [Job -> Version]
    /\ status \in [Job -> Statuses]
    /\ runner \in {"none", "stage", "drain", "calling", "poll", "repoll"}
    /\ requests \subseteq Job /\ retracting \subseteq Job

RestTyped ==
    /\ component \in Components /\ mode \in Modes /\ ctl \in BOOLEAN
    /\ crashes \in 0..MaxCrashes /\ fault \in BOOLEAN

Typed == DiskTyped /\ ProgramTyped /\ RowsTyped /\ RestTyped

LEMMA TypeParts == TypeOK <=> Typed
BY DEF TypeOK, Typed, DiskTyped, ProgramTyped, RowsTyped, RestTyped, Places, Statuses,
    Processes, Handlers

LEMMA StagesAreKept ==
    \A preserve, retain : KeptStages(preserve, retain) \subseteq staged
BY DEF KeptStages, Newest

(* The end of a job and its resumption keep the types of its row.            *)
LEMMA ReportTypes ==
    ASSUME TypeOK
    PROVE  \A result \in {"succeeded", "failed"} :
               ReportJob(result) => status' \in [Job -> Statuses] /\ runner' = "none"
<1>1. TypeOK => status \in [Job -> Statuses]
    BY DEF TypeOK, Statuses
<1>2. {"succeeded", "failed"} \subseteq Statuses
    BY DEF Statuses
<1> QED BY <1>1, <1>2 DEF ReportJob

LEMMA ResumeTypes ==
    ASSUME TypeOK, Resume
    PROVE  status' \in [Job -> Statuses] /\ runner' \in {"none", "repoll"}
<1>1. \A n \in Job : status[n] \in Statuses
    BY DEF TypeOK, Statuses
<1>2. "succeeded" \in Statuses /\ "failed" \in Statuses
    BY DEF Statuses
<1>3. status' \in [Job -> Statuses]
    BY <1>1, <1>2 DEF Resume
<1> QED BY <1>3 DEF Resume

(* A program that gives up keeps the types.                                  *)
LEMMA GiveUpTypes ==
    ASSUME TypeOK, NEW n \in Job, GiveUp(n)
    PROVE  ProgramTyped'
<1>0. ProgramTyped
    BY TypeParts DEF Typed
<1>1. proc' \in Processes
    BY <1>0, ChangeTypes DEF GiveUp, ProgramTyped
<1>2. at' \in [Job -> Places]
    BY <1>0, ChangeTypes DEF GiveUp, GoesTo, ProgramTyped
<1>3. handler' \in Handlers /\ handoff' \in 0..MaxJobs /\ parents' \subseteq Job
    BY <1>0, ChangeTypes, SystemUpdateAssumption DEF GiveUp, ProcessGone, session, ProgramTyped
<1> QED BY <1>1, <1>2, <1>3 DEF ProgramTyped

(* Every step keeps the types.                                               *)
LEMMA PartsAreKept ==
    ASSUME IInv, Next
    PROVE  Typed'
<1>0. TypeOK /\ DiskTyped /\ ProgramTyped /\ RowsTyped /\ RestTyped
    BY TypeParts DEF IInv, Typed
<1>a. ProcInv /\ PlaceInv /\ ActiveInv
    BY DEF IInv, RecoveryInv, JobInv
<1> USE <1>0, FieldTypes, SystemUpdateAssumption, ChangeTypes, StagesAreKept
    DEF files, disk, program, session, rows, Typed, NoVersion
<1>1. CASE StartJob
  <2>1. DiskTyped'
      BY <1>1 DEF DiskTyped, StartJob
  <2>2. ProgramTyped'
      BY <1>1 DEF ProgramTyped, StartJob
  <2>3. RowsTyped'
      <3>1. jobs' \in 0..MaxJobs
          BY <1>1 DEF RowsTyped, StartJob
      <3> PICK v \in Version : target' = [target EXCEPT ![jobs + 1] = v]
          BY <1>1 DEF StartJob
      <3>2. target' \in [Job -> Version]
          BY DEF RowsTyped
      <3>3. /\ status' \in [Job -> Statuses] /\ runner' = "stage"
            /\ UNCHANGED <<requests, retracting>>
          BY <1>1 DEF RowsTyped, StartJob
      <3> QED BY <3>1, <3>2, <3>3 DEF RowsTyped
  <2>4. RestTyped'
      BY <1>1 DEF RestTyped, StartJob
  <2> QED BY <2>1, <2>2, <2>3, <2>4
<1>2. CASE StageArtifact
  <2>1. DiskTyped'
      <3>1. CASE UNCHANGED disk
          BY <3>1 DEF DiskTyped
      <3>2. CASE ~UNCHANGED disk
        <4>1. jobs \in Job
            BY <1>2, <1>a DEF ActiveInv, StageArtifact
        <4>2. /\ Reconcile /\ proc.pc = "up"
              /\ cand' \subseteq cand /\ staged' \subseteq staged \cup {jobs}
            BY <1>2, <3>2 DEF StageArtifact
        <4> QED BY <4>1, <4>2, <1>a, ReconcileMoves DEF DiskTyped
      <3> QED BY <3>1, <3>2
  <2>2. ProgramTyped'
      BY <1>2, <1>a, ReconcileMoves DEF ProgramTyped, StageArtifact, ReportJob
  <2>3. RowsTyped'
      <3>1. /\ status' \in [Job -> Statuses]
            /\ runner' \in {"none", "stage", "drain", "calling", "poll", "repoll"}
          BY <1>2, ReportTypes DEF RowsTyped, StageArtifact
      <3>2. /\ UNCHANGED <<jobs, target, retracting>>
            /\ requests' \subseteq Job
          BY <1>2 DEF RowsTyped, StageArtifact
      <3> QED BY <3>1, <3>2 DEF RowsTyped
  <2>4. RestTyped'
      BY <1>2, <1>a, ReconcileMoves DEF RestTyped, StageArtifact, ReportJob
  <2> QED BY <2>1, <2>2, <2>3, <2>4
<1>3. CASE CallApply
  <2>1. DiskTyped'
      BY <1>3 DEF DiskTyped, CallApply, ReportJob
  <2>2. ProgramTyped'
      BY <1>3 DEF ProgramTyped, CallApply, ReportJob
  <2>3. RowsTyped'
      <3>1. CASE ReportJob("failed") /\ UNCHANGED requests
          BY <1>3, <3>1, ReportTypes DEF RowsTyped, CallApply
      <3>2. CASE /\ status' = [status EXCEPT ![jobs] = "restarting"]
                 /\ runner' = "calling"
                 /\ requests' \subseteq requests \cup {jobs}
        <4>1. status' \in [Job -> Statuses] /\ requests' \subseteq Job
            BY <1>3, <3>2, <1>a DEF ActiveInv, RowsTyped, CallApply
        <4> QED BY <1>3, <3>2, <4>1 DEF RowsTyped, CallApply
      <3> QED BY <1>3, <3>1, <3>2 DEF CallApply
  <2>4. RestTyped'
      BY <1>3 DEF RestTyped, CallApply, ReportJob
  <2> QED BY <2>1, <2>2, <2>3, <2>4
<1>4. CASE AwaitNode
    BY <1>4 DEF AwaitNode, DiskTyped, ProgramTyped, RowsTyped, RestTyped
<1>5. CASE PollVersion
  <2>1. DiskTyped' /\ ProgramTyped' /\ RestTyped'
      BY <1>5 DEF PollVersion, DiskTyped, ProgramTyped, RestTyped
  <2>2. /\ status' \in [Job -> Statuses]
        /\ runner' \in {"none", "stage", "drain", "calling", "poll", "repoll"}
      BY <1>5, ReportTypes DEF RowsTyped, PollVersion
  <2>3. UNCHANGED <<jobs, target, requests>> /\ retracting' \subseteq Job
    <3>1. jobs \in Job
        BY <1>5, <1>a DEF ActiveInv, PollVersion
    <3> QED BY <1>5, <3>1 DEF RowsTyped, PollVersion
  <2> QED BY <2>1, <2>2, <2>3 DEF RowsTyped
<1>6. CASE PollTimesOut
    BY <1>6 DEF PollTimesOut, ReportJob, DiskTyped, ProgramTyped, RowsTyped, RestTyped
<1>7. CASE LoseRequest
    BY <1>7 DEF LoseRequest, DiskTyped, ProgramTyped, RowsTyped, RestTyped
<1>8. CASE ControllerStarts
    BY <1>8 DEF ControllerStarts, Resume, DiskTyped, ProgramTyped, RowsTyped, RestTyped
<1>9. CASE ControllerEnds
  <2>1. DiskTyped'
      BY <1>9 DEF DiskTyped, ControllerEnds
  <2>2. ProgramTyped'
      BY <1>9 DEF ProgramTyped, ControllerEnds
  <2>3. RowsTyped'
      BY <1>9 DEF RowsTyped, ControllerEnds
  <2>4. RestTyped'
      <3>1. crashes' \in 0..MaxCrashes
          BY <1>9 DEF RestTyped, ControllerEnds
      <3>2. ctl' = FALSE /\ UNCHANGED <<component, mode, fault>>
          BY <1>9 DEF ControllerEnds
      <3> QED BY <3>1, <3>2 DEF RestTyped
  <2> QED BY <2>1, <2>2, <2>3, <2>4
<1>10. CASE Crash
  <2>1. DiskTyped'
      BY <1>10 DEF DiskTyped, Crash, ProcessGone
  <2>2. ProgramTyped'
      BY <1>10 DEF ProgramTyped, Crash, ProcessGone
  <2>3. RowsTyped'
      BY <1>10 DEF RowsTyped, Crash, ProcessGone
  <2>4. RestTyped'
      BY <1>10 DEF RestTyped, Crash, ProcessGone
  <2> QED BY <2>1, <2>2, <2>3, <2>4
<1>11. CASE HostStarts
  <2>1. DiskTyped'
      BY <1>11 DEF DiskTyped, HostStarts
  <2>2. ProgramTyped'
      <3>1. exe \in Version /\ proc' = [pc |-> "booting", version |-> exe]
          BY <1>11 DEF HostStarts, DiskTyped
      <3>2. proc' \in Processes
          BY <3>1
      <3> QED BY <1>11, <3>2 DEF ProgramTyped, HostStarts
  <2>3. RowsTyped'
      BY <1>11 DEF RowsTyped, HostStarts
  <2>4. RestTyped'
      BY <1>11 DEF RestTyped, HostStarts
  <2> QED BY <2>1, <2>2, <2>3, <2>4
<1>12. CASE Boot
  <2>1. DiskTyped'
      BY <1>12, <1>a, ReconcileMoves DEF DiskTyped, Boot, Resume
  <2>2. ProgramTyped'
      BY <1>12, <1>a, ReconcileMoves DEF ProgramTyped, Boot, Resume
  <2>3. RowsTyped'
      <3>1. /\ status' \in [Job -> Statuses]
            /\ runner' \in {"none", "stage", "drain", "calling", "poll", "repoll"}
          BY <1>12, ResumeTypes DEF RowsTyped, Boot
      <3>2. /\ UNCHANGED <<jobs, target, retracting>>
            /\ requests' \subseteq Job
          BY <1>12 DEF RowsTyped, Boot
      <3> QED BY <3>1, <3>2 DEF RowsTyped
  <2>4. RestTyped'
      BY <1>12, <1>a, ReconcileMoves DEF RestTyped, Boot, Resume
  <2> QED BY <2>1, <2>2, <2>3, <2>4
<1>13. ASSUME NEW n \in Job, Apply(n) PROVE Typed'
  <2>1. DiskTyped'
      BY <1>13, <1>a, ReconcileMoves DEF DiskTyped, Apply, Refuse, ReportJob
  <2>2. ProgramTyped'
      BY <1>13, <1>a, ReconcileMoves DEF ProgramTyped, Apply, Refuse, ReportJob
  <2>3. RowsTyped'
      <3>1. /\ status' \in [Job -> Statuses]
            /\ runner' \in {"none", "stage", "drain", "calling", "poll", "repoll"}
          BY <1>13, ReportTypes DEF RowsTyped, Apply, Refuse
      <3>2. /\ UNCHANGED <<jobs, target, retracting>>
            /\ requests' \subseteq Job
          BY <1>13 DEF RowsTyped, Apply
      <3> QED BY <3>1, <3>2 DEF RowsTyped
  <2>4. RestTyped'
      BY <1>13, <1>a, ReconcileMoves DEF RestTyped, Apply, Refuse, ReportJob
  <2> QED BY <2>1, <2>2, <2>3, <2>4
<1>14. ASSUME NEW n \in Job, WriteMarker(n) PROVE Typed'
  <2>1. DiskTyped'
      BY <1>14 DEF DiskTyped, WriteMarker, Accept, AbandonHandoff, Refuse, ReportJob
  <2>2. ProgramTyped'
      BY <1>14 DEF ProgramTyped, WriteMarker, Accept, AbandonHandoff, Refuse, ReportJob
  <2>3. RowsTyped'
      <3>1. /\ status' \in [Job -> Statuses]
            /\ runner' \in {"none", "stage", "drain", "calling", "poll", "repoll"}
          BY <1>14, ReportTypes DEF RowsTyped, WriteMarker, AbandonHandoff, Accept, Refuse
      <3>2. /\ UNCHANGED <<jobs, target, retracting>>
            /\ requests' \subseteq Job
          BY <1>14 DEF RowsTyped, WriteMarker
      <3> QED BY <3>1, <3>2 DEF RowsTyped
  <2>4. RestTyped'
      BY <1>14 DEF RestTyped, WriteMarker, Accept, AbandonHandoff, Refuse, ReportJob
  <2> QED BY <2>1, <2>2, <2>3, <2>4
<1>15. ASSUME NEW n \in Job, AwaitHelper(n) PROVE Typed'
  <2>1. DiskTyped'
      BY <1>15 DEF DiskTyped, AwaitHelper, Accept, AbandonHandoff, Refuse, ReportJob
  <2>2. ProgramTyped'
      BY <1>15 DEF ProgramTyped, AwaitHelper, Accept, AbandonHandoff, Refuse, ReportJob
  <2>3. RowsTyped'
      <3>1. /\ status' \in [Job -> Statuses]
            /\ runner' \in {"none", "stage", "drain", "calling", "poll", "repoll"}
          BY <1>15, ReportTypes DEF RowsTyped, AwaitHelper, AbandonHandoff, Accept, Refuse
      <3>2. /\ UNCHANGED <<jobs, target, retracting>>
            /\ requests' \subseteq Job
          BY <1>15 DEF RowsTyped, AwaitHelper
      <3> QED BY <3>1, <3>2 DEF RowsTyped
  <2>4. RestTyped'
      BY <1>15 DEF RestTyped, AwaitHelper, Accept, AbandonHandoff, Refuse, ReportJob
  <2> QED BY <2>1, <2>2, <2>3, <2>4
<1>16. ASSUME NEW n \in Job, ShutDown(n) PROVE Typed'
  <2>1. DiskTyped'
      BY <1>16 DEF DiskTyped, ShutDown, ProcessGone
  <2>2. ProgramTyped'
    <3>p. proc' \in Processes
        BY <1>16 DEF ProgramTyped, ShutDown
    <3>a. at' \in [Job -> Places]
        BY <1>16 DEF ProgramTyped, ShutDown
    <3>1. proc' \in Processes /\ at' \in [Job -> Places]
        BY <3>p, <3>a
    <3>2. handler' \in Handlers /\ handoff' \in 0..MaxJobs /\ parents' \subseteq Job
        BY <1>16 DEF ProgramTyped, ShutDown, ProcessGone
    <3> QED BY <3>1, <3>2 DEF ProgramTyped
  <2>3. RowsTyped'
      BY <1>16 DEF RowsTyped, ShutDown, ProcessGone
  <2>4. RestTyped'
      BY <1>16 DEF RestTyped, ShutDown, ProcessGone
  <2> QED BY <2>1, <2>2, <2>3, <2>4
<1>17. ASSUME NEW n \in Job, MarkerAges(n) PROVE Typed'
    BY <1>17 DEF MarkerAges, DiskTyped, ProgramTyped, RowsTyped, RestTyped
<1>18. ASSUME NEW n \in Job, HelperStarts(n) PROVE Typed'
  <2>1. DiskTyped'
      BY <1>18 DEF DiskTyped, HelperStarts, GiveUp, Quiet, GoesTo, ProcessGone
  <2>2. ProgramTyped'
    <3>1. CASE GiveUp(n)
        BY <3>1, GiveUpTypes
    <3>2. CASE GoesTo(n, "wait") /\ UNCHANGED <<proc, session>>
        BY <3>2 DEF ProgramTyped, GoesTo
    <3> QED BY <1>18, <3>1, <3>2 DEF HelperStarts
  <2>3. RowsTyped'
      BY <1>18 DEF RowsTyped, HelperStarts, GiveUp, Quiet, GoesTo, ProcessGone
  <2>4. RestTyped'
      BY <1>18 DEF RestTyped, HelperStarts, GiveUp, Quiet, GoesTo, ProcessGone
  <2> QED BY <2>1, <2>2, <2>3, <2>4
<1>19. ASSUME NEW n \in Job, HelperWaits(n) PROVE Typed'
    BY <1>19 DEF HelperWaits, Quiet, GoesTo, DiskTyped, ProgramTyped, RowsTyped, RestTyped
<1>20. ASSUME NEW n \in Job, MoveAside(n) PROVE Typed'
  <2>1. DiskTyped'
      BY <1>20 DEF DiskTyped, MoveAside, Recover, Quiet, GoesTo
  <2>2. ProgramTyped'
      BY <1>20 DEF ProgramTyped, MoveAside, Recover, Quiet, GoesTo
  <2>3. RowsTyped'
      BY <1>20 DEF RowsTyped, MoveAside, Recover, Quiet, GoesTo
  <2>4. RestTyped'
      BY <1>20 DEF RestTyped, MoveAside, Recover, Quiet, GoesTo
  <2> QED BY <2>1, <2>2, <2>3, <2>4
<1>21. ASSUME NEW n \in Job, Install(n) PROVE Typed'
  <2>1. DiskTyped'
      <3>1. target[n] \in Version
          BY DEF RowsTyped
      <3>2. exe' \in Version \cup {NoVersion} /\ cand' \subseteq Job
          BY <1>21, <3>1 DEF DiskTyped, Install, Recover
      <3> QED BY <1>21, <3>2 DEF DiskTyped, Install, Recover, Quiet
  <2>2. ProgramTyped'
      BY <1>21 DEF ProgramTyped, Install, Recover, Quiet, GoesTo
  <2>3. RowsTyped'
      BY <1>21 DEF RowsTyped, Install, Recover, Quiet, GoesTo
  <2>4. RestTyped'
      BY <1>21 DEF RestTyped, Install, Recover, Quiet, GoesTo
  <2> QED BY <2>1, <2>2, <2>3, <2>4
<1>22. ASSUME NEW n \in Job, Launch(n) PROVE Typed'
  <2>1. DiskTyped'
      BY <1>22 DEF DiskTyped, Launch, Recover, GiveUp, StartExecutable, RemoveMarker, Quiet,
          GoesTo, ProcessGone
  <2>2. ProgramTyped'
      <3>1. exe \in Version
          BY <1>22, <1>a DEF PlaceInv, DiskTyped, Launch
      <3>2. StartExecutable => proc' \in Processes
          BY <3>1 DEF StartExecutable
      <3>3. proc' \in Processes
          BY <1>22, <3>2 DEF Launch, Recover, GiveUp, RemoveMarker, Quiet, GoesTo, ProcessGone,
              ProgramTyped
      <3>4. at' \in [Job -> Places]
          BY <1>22 DEF Launch, Recover, GiveUp, RemoveMarker, Quiet, GoesTo, ProcessGone,
              ProgramTyped
      <3>5. handler' \in Handlers /\ handoff' \in 0..MaxJobs /\ parents' \subseteq Job
          BY <1>22 DEF Launch, Recover, GiveUp, RemoveMarker, Quiet, GoesTo, ProcessGone,
              ProgramTyped
      <3> QED BY <3>3, <3>4, <3>5 DEF ProgramTyped
  <2>3. RowsTyped'
      BY <1>22 DEF RowsTyped, Launch, Recover, GiveUp, StartExecutable, RemoveMarker, Quiet,
          GoesTo, ProcessGone
  <2>4. RestTyped'
      BY <1>22 DEF RestTyped, Launch, Recover, GiveUp, StartExecutable, RemoveMarker, Quiet,
          GoesTo, ProcessGone
  <2> QED BY <2>1, <2>2, <2>3, <2>4
<1>23. ASSUME NEW n \in Job, AwaitService(n) PROVE Typed'
  <2>1. DiskTyped'
      BY <1>23 DEF DiskTyped, AwaitService, Recover, GiveUp, RemoveMarker, Quiet, GoesTo,
          ProcessGone
  <2>2. ProgramTyped'
      BY <1>23 DEF ProgramTyped, AwaitService, Recover, GiveUp, RemoveMarker, Quiet, GoesTo,
          ProcessGone
  <2>3. RowsTyped'
      BY <1>23 DEF RowsTyped, AwaitService, Recover, GiveUp, RemoveMarker, Quiet, GoesTo,
          ProcessGone
  <2>4. RestTyped'
      BY <1>23 DEF RestTyped, AwaitService, Recover, GiveUp, RemoveMarker, Quiet, GoesTo,
          ProcessGone
  <2> QED BY <2>1, <2>2, <2>3, <2>4
<1>24. ASSUME NEW n \in Job, Restore(n) PROVE Typed'
  <2>1. DiskTyped'
      BY <1>24 DEF DiskTyped, Restore, GiveUp, Quiet, GoesTo, ProcessGone
  <2>2. ProgramTyped'
    <3>1. CASE GiveUp(n)
        BY <3>1, GiveUpTypes
    <3>2. CASE /\ GoesTo(n, "relaunch") \/ GoesTo(n, "putBack")
               /\ UNCHANGED <<proc, session>>
        BY <3>2 DEF ProgramTyped, GoesTo
    <3> QED BY <1>24, <3>1, <3>2 DEF Restore
  <2>3. RowsTyped'
      BY <1>24 DEF RowsTyped, Restore, GiveUp, Quiet, GoesTo, ProcessGone
  <2>4. RestTyped'
      BY <1>24 DEF RestTyped, Restore, GiveUp, Quiet, GoesTo, ProcessGone
  <2> QED BY <2>1, <2>2, <2>3, <2>4
<1>25. ASSUME NEW n \in Job, PutBack(n) PROVE Typed'
  <2>1. DiskTyped'
      BY <1>25 DEF DiskTyped, PutBack, GiveUp, Quiet, GoesTo, ProcessGone
  <2>2. ProgramTyped'
      BY <1>25 DEF ProgramTyped, PutBack, GiveUp, Quiet, GoesTo, ProcessGone
  <2>3. RowsTyped'
      BY <1>25 DEF RowsTyped, PutBack, GiveUp, Quiet, GoesTo, ProcessGone
  <2>4. RestTyped'
      BY <1>25 DEF RestTyped, PutBack, GiveUp, Quiet, GoesTo, ProcessGone
  <2> QED BY <2>1, <2>2, <2>3, <2>4
<1>26. ASSUME NEW n \in Job, Relaunch(n) PROVE Typed'
  <2>1. DiskTyped'
      BY <1>26 DEF DiskTyped, Relaunch, GiveUp, StartExecutable, RemoveMarker, Quiet, GoesTo,
          ProcessGone
  <2>2. ProgramTyped'
      <3>1. exe \in Version
          BY <1>26, <1>a DEF PlaceInv, DiskTyped, Relaunch
      <3>2. StartExecutable => proc' \in Processes
          BY <3>1 DEF StartExecutable
      <3>3. proc' \in Processes
          BY <1>26, <3>2 DEF Relaunch, GiveUp, RemoveMarker, Quiet, GoesTo, ProcessGone,
              ProgramTyped
      <3>4. at' \in [Job -> Places]
          BY <1>26 DEF Relaunch, GiveUp, RemoveMarker, Quiet, GoesTo, ProcessGone, ProgramTyped
      <3>5. handler' \in Handlers /\ handoff' \in 0..MaxJobs /\ parents' \subseteq Job
          BY <1>26 DEF Relaunch, GiveUp, RemoveMarker, Quiet, GoesTo, ProcessGone, ProgramTyped
      <3> QED BY <3>3, <3>4, <3>5 DEF ProgramTyped
  <2>3. RowsTyped'
      BY <1>26 DEF RowsTyped, Relaunch, GiveUp, StartExecutable, RemoveMarker, Quiet, GoesTo,
          ProcessGone
  <2>4. RestTyped'
      BY <1>26 DEF RestTyped, Relaunch, GiveUp, StartExecutable, RemoveMarker, Quiet, GoesTo,
          ProcessGone
  <2> QED BY <2>1, <2>2, <2>3, <2>4
<1>27. ASSUME NEW n \in Job, HelperTimesOut(n) PROVE Typed'
  <2>1. DiskTyped'
      BY <1>27 DEF DiskTyped, HelperTimesOut, GiveUp, Quiet, GoesTo, ProcessGone
  <2>2. ProgramTyped'
      BY <1>27 DEF ProgramTyped, HelperTimesOut, GiveUp, Quiet, GoesTo, ProcessGone
  <2>3. RowsTyped'
      BY <1>27 DEF RowsTyped, HelperTimesOut, GiveUp, Quiet, GoesTo, ProcessGone
  <2>4. RestTyped'
      BY <1>27 DEF RestTyped, HelperTimesOut, GiveUp, Quiet, GoesTo, ProcessGone
  <2> QED BY <2>1, <2>2, <2>3, <2>4
<1>28. ASSUME NEW n \in Job, HelperCrash(n) PROVE Typed'
  <2>1. DiskTyped'
      BY <1>28 DEF DiskTyped, HelperCrash, GoesTo
  <2>2. ProgramTyped'
      BY <1>28 DEF ProgramTyped, HelperCrash, GoesTo
  <2>3. RowsTyped'
      BY <1>28 DEF RowsTyped, HelperCrash, GoesTo
  <2>4. RestTyped'
      BY <1>28 DEF RestTyped, HelperCrash, GoesTo
  <2> QED BY <2>1, <2>2, <2>3, <2>4
<1>29. ASSUME NEW n \in Job, Retract(n) PROVE Typed'
  <2>1. DiskTyped' /\ ProgramTyped' /\ RestTyped'
      BY <1>29 DEF DiskTyped, ProgramTyped, RestTyped, Retract
  <2>2. RowsTyped'
      BY <1>29 DEF RowsTyped, Retract, Statuses
  <2> QED BY <2>1, <2>2
<1> QED BY <1>1, <1>2, <1>3, <1>4, <1>5, <1>6, <1>7, <1>8, <1>9, <1>10,
           <1>11, <1>12, <1>13, <1>14, <1>15, <1>16, <1>17, <1>18, <1>19, <1>20,
           <1>21, <1>22, <1>23, <1>24, <1>25, <1>26, <1>27, <1>28, <1>29
    DEF Next, Runner, ApplySteps, Replacement

(* Every step keeps the types.                                               *)
LEMMA TypesAreKept ==
    ASSUME IInv, Next
    PROVE  TypeOK'
<1>1. Typed'
    BY PartsAreKept
<1> QED BY <1>1, TypeParts DEF TypeOK, Typed, DiskTyped, ProgramTyped, RowsTyped, RestTyped,
    Places,
                             Statuses, Processes, Handlers

(* Every step keeps ProcInv.                                                 *)
LEMMA ProcIsKept ==
    ASSUME IInv, Next
    PROVE  ProcInv'
<1> USE FieldTypes, SystemUpdateAssumption
    DEF IInv, TypeOK, ProcInv, files, disk, program, session, rows, InProcess, Active,
        HandoffInv, WriteInv, SoleInv, OneMarker, ParentInv, BesideInv, Held, RecoveryInv
<1>1. CASE StartJob
    BY <1>1 DEF StartJob
<1>2. CASE StageArtifact
    BY <1>2, ReconcileMoves DEF StageArtifact, ReportJob
<1>3. CASE CallApply
    BY <1>3 DEF CallApply, ReportJob
<1>4. CASE AwaitNode
    BY <1>4 DEF AwaitNode
<1>5. CASE PollVersion
    BY <1>5 DEF PollVersion, ReportJob
<1>6. CASE PollTimesOut
    BY <1>6 DEF PollTimesOut, ReportJob
<1>7. CASE LoseRequest
    BY <1>7 DEF LoseRequest
<1>8. CASE ControllerStarts
    BY <1>8 DEF ControllerStarts, Resume
<1>9. CASE ControllerEnds
    BY <1>9 DEF ControllerEnds
<1>10. CASE Crash
    BY <1>10 DEF Crash, ProcessGone
<1>11. CASE HostStarts
    BY <1>11 DEF HostStarts
<1>12. CASE Boot
    BY <1>12, ReconcileMoves DEF Boot, Resume
<1>13. ASSUME NEW n \in Job, Apply(n) PROVE ProcInv'
    BY <1>13, ReconcileMoves DEF Apply, Refuse, ReportJob
<1>14. ASSUME NEW n \in Job, WriteMarker(n) PROVE ProcInv'
    BY <1>14 DEF WriteMarker, Accept, AbandonHandoff, Refuse, ReportJob
<1>15. ASSUME NEW n \in Job, AwaitHelper(n) PROVE ProcInv'
    BY <1>15 DEF AwaitHelper, Accept, AbandonHandoff, Refuse, ReportJob
<1>16. ASSUME NEW n \in Job, ShutDown(n) PROVE ProcInv'
    BY <1>16 DEF ShutDown, ProcessGone
<1>17. ASSUME NEW n \in Job, MarkerAges(n) PROVE ProcInv'
    BY <1>17 DEF MarkerAges
<1>18. ASSUME NEW n \in Job, HelperStarts(n) PROVE ProcInv'
    BY <1>18 DEF HelperStarts, GiveUp, Quiet, GoesTo, ProcessGone
<1>19. ASSUME NEW n \in Job, HelperWaits(n) PROVE ProcInv'
    BY <1>19 DEF HelperWaits, Quiet, GoesTo
<1>20. ASSUME NEW n \in Job, MoveAside(n) PROVE ProcInv'
    BY <1>20 DEF MoveAside, Recover, Quiet, GoesTo
<1>21. ASSUME NEW n \in Job, Install(n) PROVE ProcInv'
    BY <1>21 DEF Install, Recover, Quiet, GoesTo
<1>22. ASSUME NEW n \in Job, Launch(n) PROVE ProcInv'
    BY <1>22 DEF Launch, Recover, GiveUp, StartExecutable, RemoveMarker, Quiet, GoesTo,
        ProcessGone
<1>23. ASSUME NEW n \in Job, AwaitService(n) PROVE ProcInv'
    BY <1>23 DEF AwaitService, Recover, GiveUp, RemoveMarker, Quiet, GoesTo, ProcessGone
<1>24. ASSUME NEW n \in Job, Restore(n) PROVE ProcInv'
    BY <1>24 DEF Restore, GiveUp, Quiet, GoesTo, ProcessGone
<1>25. ASSUME NEW n \in Job, PutBack(n) PROVE ProcInv'
    BY <1>25 DEF PutBack, GiveUp, Quiet, GoesTo, ProcessGone
<1>26. ASSUME NEW n \in Job, Relaunch(n) PROVE ProcInv'
    BY <1>26 DEF Relaunch, GiveUp, StartExecutable, RemoveMarker, Quiet, GoesTo, ProcessGone
<1>27. ASSUME NEW n \in Job, HelperTimesOut(n) PROVE ProcInv'
    BY <1>27 DEF HelperTimesOut, GiveUp, Quiet, GoesTo, ProcessGone
<1>28. ASSUME NEW n \in Job, HelperCrash(n) PROVE ProcInv'
    BY <1>28 DEF HelperCrash, GoesTo
<1>29. ASSUME NEW n \in Job, Retract(n) PROVE ProcInv'
    BY <1>29 DEF Retract
<1> QED BY <1>1, <1>2, <1>3, <1>4, <1>5, <1>6, <1>7, <1>8, <1>9, <1>10,
           <1>11, <1>12, <1>13, <1>14, <1>15, <1>16, <1>17, <1>18, <1>19, <1>20,
           <1>21, <1>22, <1>23, <1>24, <1>25, <1>26, <1>27, <1>28, <1>29
    DEF Next, Runner, ApplySteps, Replacement

(* Every step keeps HandoffInv.                                              *)
LEMMA HandoffsAreKept ==
    ASSUME IInv, Next
    PROVE  HandoffInv'
<1> USE FieldTypes, SystemUpdateAssumption
    DEF IInv, TypeOK, ProcInv, files, disk, program, session, rows, InProcess, Active,
        HandoffInv, WriteInv, SoleInv, OneMarker, ParentInv, BesideInv, Held
<1>1. CASE StartJob
    BY <1>1 DEF StartJob, WriteInv, SoleInv, OneMarker, ParentInv, BesideInv
<1>2. CASE StageArtifact
    BY <1>2, ReconcileMoves DEF StageArtifact, ReportJob, WriteInv, SoleInv, OneMarker,
        ParentInv, BesideInv
<1>3. CASE CallApply
    BY <1>3 DEF CallApply, ReportJob, WriteInv, SoleInv, OneMarker, ParentInv, BesideInv
<1>4. CASE AwaitNode
    BY <1>4 DEF AwaitNode, WriteInv, SoleInv, OneMarker, ParentInv, BesideInv
<1>5. CASE PollVersion
    BY <1>5 DEF PollVersion, ReportJob, WriteInv, SoleInv, OneMarker, ParentInv, BesideInv
<1>6. CASE PollTimesOut
    BY <1>6 DEF PollTimesOut, ReportJob, WriteInv, SoleInv, OneMarker, ParentInv, BesideInv
<1>7. CASE LoseRequest
    BY <1>7 DEF LoseRequest, WriteInv, SoleInv, OneMarker, ParentInv, BesideInv
<1>8. CASE ControllerStarts
    BY <1>8 DEF ControllerStarts, Resume, WriteInv, SoleInv, OneMarker, ParentInv, BesideInv
<1>9. CASE ControllerEnds
    BY <1>9 DEF ControllerEnds, WriteInv, SoleInv, OneMarker, ParentInv, BesideInv
<1>10. CASE Crash
  <2>1. WriteInv'
      BY <1>10 DEF WriteInv, Crash, ProcessGone
  <2>2. SoleInv'
      <3>1. \A m \in Job : ~Held(m)'
          BY <1>10 DEF Crash, ProcessGone
      <3>2. CASE handler.pc = "write"
        <4>1. \A m \in Job : at'[m] = "none"
            BY <1>10, <3>2 DEF Crash
        <4> QED BY <3>1, <4>1
      <3>3. CASE handler.pc # "write"
        <4>1. \A m \in Job : marker'[m] = marker[m] /\ (at'[m] # "none" => at[m] # "none")
            BY <1>10, <3>3 DEF Crash
        <4> QED BY <3>1, <4>1, SoleShrinks DEF HandoffInv
      <3> QED BY <3>2, <3>3
  <2>3. OneMarker'
      BY <1>10 DEF OneMarker, Crash, ProcessGone
  <2>4. ParentInv'
      BY <1>10 DEF ParentInv, Crash, ProcessGone
  <2>5. BesideInv'
      BY <1>10 DEF BesideInv, Crash, ProcessGone
  <2> QED BY <2>1, <2>2, <2>3, <2>4, <2>5
<1>11. CASE HostStarts
    BY <1>11 DEF HostStarts, WriteInv, SoleInv, OneMarker, ParentInv, BesideInv
<1>12. CASE Boot
    BY <1>12, ReconcileMoves DEF Boot, Resume, WriteInv, SoleInv, OneMarker, ParentInv,
        BesideInv
<1>13. ASSUME NEW n \in Job, Apply(n) PROVE HandoffInv'
  <2>1. WriteInv'
      <3>1. \A m \in Job : handoff = 0 => at[m] = "none" /\ m \notin parents
          BY <1>13 DEF Apply
      <3>2. handler'.pc = "write" => handoff = 0 /\ Pending = {}
          BY <1>13 DEF Apply, Refuse
      <3>3. UNCHANGED <<at, parents>>
          BY <1>13 DEF Apply
      <3>4. Pending = {} => \A m \in Job : marker'[m] = "none"
          BY <1>13, ReconcileMoves DEF Apply
      <3> QED BY <3>1, <3>2, <3>3, <3>4
  <2>2. SoleInv'
      BY <1>13, ReconcileMoves DEF SoleInv, Apply, Refuse, ReportJob
  <2>3. OneMarker'
      BY <1>13, ReconcileMoves DEF OneMarker, Apply, Refuse, ReportJob
  <2>4. ParentInv'
      BY <1>13, ReconcileMoves DEF ParentInv, Apply, Refuse, ReportJob
  <2>5. BesideInv'
      BY <1>13, ReconcileMoves DEF BesideInv, Apply, Refuse, ReportJob
  <2> QED BY <2>1, <2>2, <2>3, <2>4, <2>5
<1>14. ASSUME NEW n \in Job, WriteMarker(n) PROVE HandoffInv'
  <2>1. WriteInv'
      BY <1>14 DEF WriteInv, WriteMarker, Accept, AbandonHandoff, Refuse, ReportJob
  <2>2. SoleInv'
      <3>1. \A m \in Job \ {n} : marker'[m] = "none" /\ at'[m] = "none"
          BY <1>14 DEF WriteMarker, AbandonHandoff
      <3>2. marker'[n] = "torn" => ~Held(n)' /\ at'[n] = "none"
          BY <1>14 DEF WriteMarker, Accept, AbandonHandoff, Refuse, NoHandler
      <3>3. \A m \in Job : Held(m)' => m = n
          BY <1>14 DEF WriteMarker, Accept, AbandonHandoff, Refuse
      <3> QED BY <3>1, <3>2, <3>3
  <2>3. OneMarker'
      BY <1>14 DEF OneMarker, WriteMarker, Accept, AbandonHandoff, Refuse, ReportJob
  <2>4. ParentInv'
      BY <1>14 DEF ParentInv, WriteMarker, Accept, AbandonHandoff, Refuse, ReportJob
  <2>5. BesideInv'
      BY <1>14 DEF BesideInv, WriteMarker, Accept, AbandonHandoff, Refuse, ReportJob
  <2> QED BY <2>1, <2>2, <2>3, <2>4, <2>5
<1>15. ASSUME NEW n \in Job, AwaitHelper(n) PROVE HandoffInv'
  <2>1. WriteInv'
      BY <1>15 DEF WriteInv, AwaitHelper, Accept, AbandonHandoff, Refuse, ReportJob
  <2>2. SoleInv'
      BY <1>15 DEF SoleInv, AwaitHelper, Accept, AbandonHandoff, Refuse, ReportJob
  <2>3. OneMarker'
      BY <1>15 DEF OneMarker, AwaitHelper, Accept, AbandonHandoff, Refuse, ReportJob
  <2>4. ParentInv'
      BY <1>15 DEF ParentInv, AwaitHelper, Accept, AbandonHandoff, Refuse, ReportJob
  <2>5. BesideInv'
      BY <1>15 DEF BesideInv, AwaitHelper, Accept, AbandonHandoff, Refuse, ReportJob
  <2> QED BY <2>1, <2>2, <2>3, <2>4, <2>5
<1>16. ASSUME NEW n \in Job, ShutDown(n) PROVE HandoffInv'
  <2>1. WriteInv'
      BY <1>16 DEF WriteInv, ShutDown, ProcessGone
  <2>2. SoleInv'
      <3>1. marker' = marker /\ \A m \in Job : at'[m] = at[m] \/ m = n
          BY <1>16 DEF ShutDown
      <3>2. Held(n) /\ \A m \in Job : Held(m)' => Held(m)
          BY <1>16 DEF ShutDown, ProcessGone
      <3> QED BY <3>1, <3>2
  <2>3. OneMarker'
      BY <1>16 DEF OneMarker, ShutDown, ProcessGone
  <2>4. ParentInv'
      BY <1>16 DEF ParentInv, ShutDown, ProcessGone
  <2>5. BesideInv'
      BY <1>16 DEF BesideInv, ShutDown, ProcessGone
  <2> QED BY <2>1, <2>2, <2>3, <2>4, <2>5
<1>17. ASSUME NEW n \in Job, MarkerAges(n) PROVE HandoffInv'
    BY <1>17 DEF MarkerAges, WriteInv, SoleInv, OneMarker, ParentInv, BesideInv
<1>18. ASSUME NEW n \in Job, HelperStarts(n) PROVE HandoffInv'
    BY <1>18 DEF HelperStarts, GiveUp, Quiet, GoesTo, ProcessGone, WriteInv, SoleInv,
        OneMarker, ParentInv, BesideInv
<1>19. ASSUME NEW n \in Job, HelperWaits(n) PROVE HandoffInv'
    BY <1>19 DEF HelperWaits, Quiet, GoesTo, WriteInv, SoleInv, OneMarker, ParentInv, BesideInv
<1>20. ASSUME NEW n \in Job, MoveAside(n) PROVE HandoffInv'
    BY <1>20 DEF MoveAside, Recover, Quiet, GoesTo, WriteInv, SoleInv, OneMarker, ParentInv,
        BesideInv
<1>21. ASSUME NEW n \in Job, Install(n) PROVE HandoffInv'
    BY <1>21 DEF Install, Recover, Quiet, GoesTo, WriteInv, SoleInv, OneMarker, ParentInv,
        BesideInv
<1>22. ASSUME NEW n \in Job, Launch(n) PROVE HandoffInv'
  <2>1. WriteInv'
      BY <1>22 DEF WriteInv, Launch, Recover, GiveUp, StartExecutable, RemoveMarker, Quiet,
          GoesTo, ProcessGone
  <2>2. SoleInv'
      <3>1. \A m \in Job :
                marker'[m] \in {marker[m], "none"} /\ (at'[m] # "none" => at[m] # "none")
          BY <1>22 DEF Launch, Recover, GiveUp, StartExecutable, RemoveMarker, Quiet, GoesTo,
              ProcessGone
      <3>2. \A m \in Job : Held(m)' => Held(m)
          BY <1>22 DEF Launch, Recover, GiveUp, StartExecutable, RemoveMarker, Quiet, GoesTo,
              ProcessGone
      <3> QED BY <3>1, <3>2, SoleShrinks DEF HandoffInv
  <2>3. OneMarker'
      BY <1>22 DEF OneMarker, Launch, Recover, GiveUp, StartExecutable, RemoveMarker, Quiet,
          GoesTo, ProcessGone
  <2>4. ParentInv'
      BY <1>22 DEF ParentInv, Launch, Recover, GiveUp, StartExecutable, RemoveMarker, Quiet,
          GoesTo, ProcessGone
  <2>5. BesideInv'
      BY <1>22 DEF BesideInv, Launch, Recover, GiveUp, StartExecutable, RemoveMarker, Quiet,
          GoesTo, ProcessGone
  <2> QED BY <2>1, <2>2, <2>3, <2>4, <2>5
<1>23. ASSUME NEW n \in Job, AwaitService(n) PROVE HandoffInv'
    BY <1>23 DEF AwaitService, Recover, GiveUp, RemoveMarker, Quiet, GoesTo, ProcessGone,
        WriteInv, SoleInv, OneMarker, ParentInv, BesideInv
<1>24. ASSUME NEW n \in Job, Restore(n) PROVE HandoffInv'
  <2>1. WriteInv'
      BY <1>24 DEF WriteInv, Restore, GiveUp, Quiet, GoesTo, ProcessGone
  <2>2. SoleInv'
      <3>1. \A m \in Job :
                marker'[m] \in {marker[m], "none"} /\ (at'[m] # "none" => at[m] # "none")
          BY <1>24 DEF Restore, GiveUp, Quiet, GoesTo, ProcessGone
      <3>2. \A m \in Job : Held(m)' => Held(m)
          BY <1>24 DEF Restore, GiveUp, Quiet, GoesTo, ProcessGone
      <3> QED BY <3>1, <3>2, SoleShrinks DEF HandoffInv
  <2>3. OneMarker'
      BY <1>24 DEF OneMarker, Restore, GiveUp, Quiet, GoesTo, ProcessGone
  <2>4. ParentInv'
      BY <1>24 DEF ParentInv, Restore, GiveUp, Quiet, GoesTo, ProcessGone
  <2>5. BesideInv'
      BY <1>24 DEF BesideInv, Restore, GiveUp, Quiet, GoesTo, ProcessGone
  <2> QED BY <2>1, <2>2, <2>3, <2>4, <2>5
<1>25. ASSUME NEW n \in Job, PutBack(n) PROVE HandoffInv'
  <2>1. WriteInv'
      BY <1>25 DEF WriteInv, PutBack, GiveUp, Quiet, GoesTo, ProcessGone
  <2>2. SoleInv'
      <3>1. \A m \in Job :
                marker'[m] \in {marker[m], "none"} /\ (at'[m] # "none" => at[m] # "none")
          BY <1>25 DEF PutBack, GiveUp, Quiet, GoesTo, ProcessGone
      <3>2. \A m \in Job : Held(m)' => Held(m)
          BY <1>25 DEF PutBack, GiveUp, Quiet, GoesTo, ProcessGone
      <3> QED BY <3>1, <3>2, SoleShrinks DEF HandoffInv
  <2>3. OneMarker'
      BY <1>25 DEF OneMarker, PutBack, GiveUp, Quiet, GoesTo, ProcessGone
  <2>4. ParentInv'
      BY <1>25 DEF ParentInv, PutBack, GiveUp, Quiet, GoesTo, ProcessGone
  <2>5. BesideInv'
      BY <1>25 DEF BesideInv, PutBack, GiveUp, Quiet, GoesTo, ProcessGone
  <2> QED BY <2>1, <2>2, <2>3, <2>4, <2>5
<1>26. ASSUME NEW n \in Job, Relaunch(n) PROVE HandoffInv'
  <2>1. WriteInv'
      BY <1>26 DEF WriteInv, Relaunch, GiveUp, StartExecutable, RemoveMarker, Quiet, GoesTo,
          ProcessGone
  <2>2. SoleInv'
      <3>1. \A m \in Job :
                marker'[m] \in {marker[m], "none"} /\ (at'[m] # "none" => at[m] # "none")
          BY <1>26 DEF Relaunch, GiveUp, StartExecutable, RemoveMarker, Quiet, GoesTo,
              ProcessGone
      <3>2. \A m \in Job : Held(m)' => Held(m)
          BY <1>26 DEF Relaunch, GiveUp, StartExecutable, RemoveMarker, Quiet, GoesTo,
              ProcessGone
      <3> QED BY <3>1, <3>2, SoleShrinks DEF HandoffInv
  <2>3. OneMarker'
      BY <1>26 DEF OneMarker, Relaunch, GiveUp, StartExecutable, RemoveMarker, Quiet, GoesTo,
          ProcessGone
  <2>4. ParentInv'
      BY <1>26 DEF ParentInv, Relaunch, GiveUp, StartExecutable, RemoveMarker, Quiet, GoesTo,
          ProcessGone
  <2>5. BesideInv'
      BY <1>26 DEF BesideInv, Relaunch, GiveUp, StartExecutable, RemoveMarker, Quiet, GoesTo,
          ProcessGone
  <2> QED BY <2>1, <2>2, <2>3, <2>4, <2>5
<1>27. ASSUME NEW n \in Job, HelperTimesOut(n) PROVE HandoffInv'
    BY <1>27 DEF HelperTimesOut, GiveUp, Quiet, GoesTo, ProcessGone, WriteInv, SoleInv,
        OneMarker, ParentInv, BesideInv
<1>28. ASSUME NEW n \in Job, HelperCrash(n) PROVE HandoffInv'
  <2>1. WriteInv'
      BY <1>28 DEF WriteInv, HelperCrash, GoesTo
  <2>2. SoleInv'
      BY <1>28 DEF SoleInv, HelperCrash, GoesTo
  <2>3. OneMarker'
      BY <1>28 DEF OneMarker, HelperCrash, GoesTo
  <2>4. ParentInv'
      BY <1>28 DEF ParentInv, HelperCrash, GoesTo
  <2>5. BesideInv'
      BY <1>28 DEF BesideInv, HelperCrash, GoesTo
  <2> QED BY <2>1, <2>2, <2>3, <2>4, <2>5
<1>29. ASSUME NEW n \in Job, Retract(n) PROVE HandoffInv'
    BY <1>29 DEF Retract, WriteInv, SoleInv, OneMarker, ParentInv, BesideInv
<1> QED BY <1>1, <1>2, <1>3, <1>4, <1>5, <1>6, <1>7, <1>8, <1>9, <1>10,
           <1>11, <1>12, <1>13, <1>14, <1>15, <1>16, <1>17, <1>18, <1>19, <1>20,
           <1>21, <1>22, <1>23, <1>24, <1>25, <1>26, <1>27, <1>28, <1>29
    DEF Next, Runner, ApplySteps, Replacement

(* Every step keeps RecoveryInv.                                             *)
LEMMA RecoveryIsKept ==
    ASSUME IInv, Next
    PROVE  RecoveryInv'
<1> USE FieldTypes, SystemUpdateAssumption
    DEF IInv, TypeOK, ProcInv, files, disk, program, session, rows, InProcess, Active,
        HandoffInv, WriteInv, SoleInv, OneMarker, ParentInv, BesideInv, Held, RecoveryInv,
        PlaceInv, ExecutableIsRecoverable
<1>1. CASE StartJob
    BY <1>1 DEF StartJob, PlaceInv, ExecutableIsRecoverable
<1>2. CASE StageArtifact
  <2>1. PlaceInv'
      BY <1>2, ReconcileMoves DEF PlaceInv, StageArtifact, ReportJob
  <2>2. ExecutableIsRecoverable'
      <3>1. CASE UNCHANGED disk
          BY <3>1
      <3>2. CASE ~UNCHANGED disk
        <4>1. exe' \in Version
            BY <1>2, <3>2, ReconcileMoves DEF StageArtifact
        <4> QED BY <4>1 DEF Version, NoVersion
      <3> QED BY <3>1, <3>2
  <2> QED BY <2>1, <2>2
<1>3. CASE CallApply
    BY <1>3 DEF CallApply, ReportJob, PlaceInv, ExecutableIsRecoverable
<1>4. CASE AwaitNode
    BY <1>4 DEF AwaitNode, PlaceInv, ExecutableIsRecoverable
<1>5. CASE PollVersion
    BY <1>5 DEF PollVersion, ReportJob, PlaceInv, ExecutableIsRecoverable
<1>6. CASE PollTimesOut
    BY <1>6 DEF PollTimesOut, ReportJob, PlaceInv, ExecutableIsRecoverable
<1>7. CASE LoseRequest
    BY <1>7 DEF LoseRequest, PlaceInv, ExecutableIsRecoverable
<1>8. CASE ControllerStarts
    BY <1>8 DEF ControllerStarts, Resume, PlaceInv, ExecutableIsRecoverable
<1>9. CASE ControllerEnds
    BY <1>9 DEF ControllerEnds, PlaceInv, ExecutableIsRecoverable
<1>10. CASE Crash
  <2>1. PlaceInv'
      BY <1>10 DEF PlaceInv, Crash, ProcessGone
  <2>2. ExecutableIsRecoverable'
      <3>1. CASE proc.pc \in {"booting", "up"}
          BY <1>10, <3>1 DEF Crash, Version, NoVersion
      <3>2. CASE proc.pc \notin {"booting", "up"}
          BY <1>10, <3>2 DEF Crash
      <3> QED BY <3>1, <3>2
  <2> QED BY <2>1, <2>2
<1>11. CASE HostStarts
    BY <1>11 DEF HostStarts, PlaceInv, ExecutableIsRecoverable
<1>12. CASE Boot
  <2>1. PlaceInv'
      BY <1>12, ReconcileMoves DEF PlaceInv, Boot, Resume
  <2>2. ExecutableIsRecoverable'
      <3>1. exe' \in Version
          BY <1>12, ReconcileMoves DEF Boot
      <3> QED BY <3>1 DEF Version, NoVersion
  <2> QED BY <2>1, <2>2
<1>13. ASSUME NEW n \in Job, Apply(n) PROVE RecoveryInv'
  <2>1. PlaceInv'
      BY <1>13, ReconcileMoves DEF PlaceInv, Apply, Refuse, ReportJob
  <2>2. ExecutableIsRecoverable'
      <3>1. exe' \in Version
          BY <1>13, ReconcileMoves DEF Apply
      <3> QED BY <3>1 DEF Version, NoVersion
  <2> QED BY <2>1, <2>2
<1>14. ASSUME NEW n \in Job, WriteMarker(n) PROVE RecoveryInv'
  <2>1. PlaceInv'
      <3>1. exe \in Version /\ UNCHANGED <<exe, bak>>
          BY <1>14 DEF WriteMarker
      <3>2. \A m \in Job : at'[m] \in {"none", "start"}
          BY <1>14 DEF WriteMarker, AbandonHandoff
      <3> QED BY <3>1, <3>2 DEF Version, NoVersion
  <2>2. ExecutableIsRecoverable'
      <3>1. exe' \in Version
          BY <1>14 DEF WriteMarker
      <3> QED BY <3>1 DEF Version, NoVersion
  <2> QED BY <2>1, <2>2
<1>15. ASSUME NEW n \in Job, AwaitHelper(n) PROVE RecoveryInv'
  <2>1. exe \in Version /\ UNCHANGED <<exe, bak>>
      BY <1>15 DEF AwaitHelper
  <2>2. \A m \in Job : at'[m] \in {"none", at[m]}
      BY <1>15 DEF AwaitHelper, AbandonHandoff
  <2>3. PlaceInv'
      BY <2>1, <2>2 DEF PlaceInv
  <2>4. ExecutableIsRecoverable'
      BY <2>1 DEF ExecutableIsRecoverable, Version, NoVersion
  <2> QED BY <2>3, <2>4
<1>16. ASSUME NEW n \in Job, ShutDown(n) PROVE RecoveryInv'
  <2>1. PlaceInv'
      <3>1. exe \in Version /\ UNCHANGED <<exe, bak>>
          BY <1>16 DEF ShutDown
      <3>2. \A m \in Job : at'[m] = at[m] \/ at'[m] = "replace"
          BY <1>16 DEF ShutDown
      <3> QED BY <3>1, <3>2 DEF Version, NoVersion
  <2>2. ExecutableIsRecoverable'
      BY <1>16 DEF ExecutableIsRecoverable, ShutDown, ProcessGone
  <2> QED BY <2>1, <2>2
<1>17. ASSUME NEW n \in Job, MarkerAges(n) PROVE RecoveryInv'
    BY <1>17 DEF MarkerAges, PlaceInv, ExecutableIsRecoverable
<1>18. ASSUME NEW n \in Job, HelperStarts(n) PROVE RecoveryInv'
    BY <1>18 DEF HelperStarts, GiveUp, Quiet, GoesTo, ProcessGone, PlaceInv,
        ExecutableIsRecoverable
<1>19. ASSUME NEW n \in Job, HelperWaits(n) PROVE RecoveryInv'
    BY <1>19 DEF HelperWaits, Quiet, GoesTo, PlaceInv, ExecutableIsRecoverable
<1>20. ASSUME NEW n \in Job, MoveAside(n) PROVE RecoveryInv'
    BY <1>20 DEF MoveAside, Recover, Quiet, GoesTo, PlaceInv, ExecutableIsRecoverable
<1>21. ASSUME NEW n \in Job, Install(n) PROVE RecoveryInv'
  <2>1. PlaceInv'
      <3>1. \A m \in Job \ {n} : at'[m] = "none"
          BY <1>21 DEF Install, Recover, GoesTo
      <3>2. exe' # NoVersion \/ at'[n] = "restore"
          BY <1>21 DEF Install, Recover, GoesTo, Version, NoVersion
      <3>3. at'[n] \in {"launch", "restore"} /\ bak'[n] # NoVersion
          BY <1>21 DEF Install, Recover, GoesTo
      <3> QED BY <3>1, <3>2, <3>3
  <2>2. ExecutableIsRecoverable'
      BY <1>21 DEF ExecutableIsRecoverable, Install, Recover, Quiet, GoesTo
  <2> QED BY <2>1, <2>2
<1>22. ASSUME NEW n \in Job, Launch(n) PROVE RecoveryInv'
    BY <1>22 DEF Launch, Recover, GiveUp, StartExecutable, RemoveMarker, Quiet, GoesTo,
        ProcessGone, PlaceInv, ExecutableIsRecoverable
<1>23. ASSUME NEW n \in Job, AwaitService(n) PROVE RecoveryInv'
    BY <1>23 DEF AwaitService, Recover, GiveUp, RemoveMarker, Quiet, GoesTo, ProcessGone,
        PlaceInv, ExecutableIsRecoverable
<1>24. ASSUME NEW n \in Job, Restore(n) PROVE RecoveryInv'
    BY <1>24 DEF Restore, GiveUp, Quiet, GoesTo, ProcessGone, PlaceInv, ExecutableIsRecoverable
<1>25. ASSUME NEW n \in Job, PutBack(n) PROVE RecoveryInv'
    BY <1>25 DEF PutBack, GiveUp, Quiet, GoesTo, ProcessGone, PlaceInv, ExecutableIsRecoverable
<1>26. ASSUME NEW n \in Job, Relaunch(n) PROVE RecoveryInv'
    BY <1>26 DEF Relaunch, GiveUp, StartExecutable, RemoveMarker, Quiet, GoesTo, ProcessGone,
        PlaceInv, ExecutableIsRecoverable
<1>27. ASSUME NEW n \in Job, HelperTimesOut(n) PROVE RecoveryInv'
    BY <1>27 DEF HelperTimesOut, GiveUp, Quiet, GoesTo, ProcessGone, PlaceInv,
        ExecutableIsRecoverable
<1>28. ASSUME NEW n \in Job, HelperCrash(n) PROVE RecoveryInv'
  <2>1. PlaceInv'
      BY <1>28 DEF PlaceInv, HelperCrash, GoesTo
  <2>2. ExecutableIsRecoverable'
      BY <1>28 DEF ExecutableIsRecoverable, HelperCrash, GoesTo
  <2> QED BY <2>1, <2>2
<1>29. ASSUME NEW n \in Job, Retract(n) PROVE RecoveryInv'
    BY <1>29 DEF Retract, PlaceInv, ExecutableIsRecoverable
<1> QED BY <1>1, <1>2, <1>3, <1>4, <1>5, <1>6, <1>7, <1>8, <1>9, <1>10,
           <1>11, <1>12, <1>13, <1>14, <1>15, <1>16, <1>17, <1>18, <1>19, <1>20,
           <1>21, <1>22, <1>23, <1>24, <1>25, <1>26, <1>27, <1>28, <1>29
    DEF Next, Runner, ApplySteps, Replacement

(* Every step keeps JobInv.                                                  *)
LEMMA JobsAreKept ==
    ASSUME IInv, Next
    PROVE  JobInv'
<1> USE FieldTypes, SystemUpdateAssumption
    DEF IInv, TypeOK, ProcInv, files, disk, program, session, rows, InProcess, Active, JobInv,
        ActiveInv, TargetInv
<1>1. CASE StartJob
  <2>1. ActiveInv'
      <3>1. jobs + 1 \in Job /\ jobs' = jobs + 1 /\ status'[jobs + 1] = "running"
          BY <1>1 DEF StartJob, Job
      <3>2. \A m \in Job : ~Active(m) /\ (m # jobs + 1 => status'[m] = status[m])
          BY <1>1 DEF StartJob
      <3>3. \A m \in Job : m <= jobs => m <= jobs + 1
          BY DEF Job
      <3>4. \A m \in retracting' : status'[m] = "succeeded"
          BY <1>1, <3>2 DEF StartJob
      <3> QED BY <3>1, <3>2, <3>3, <3>4 DEF ActiveInv
  <2>2. TargetInv'
      <3> PICK v \in Version : /\ v > proc.version
                               /\ \A m \in 1..jobs : v >= target[m]
                               /\ target' = [target EXCEPT ![jobs + 1] = v]
          BY <1>1 DEF StartJob
      <3>1. jobs + 1 \in Job /\ jobs' = jobs + 1 /\ target'[jobs + 1] = v
          BY <1>1 DEF StartJob, Job

      <3>2. \A m \in Job : m # jobs + 1 => target'[m] = target[m]
          BY <1>1 DEF StartJob
      <3>3. \A m \in Job : m <= jobs + 1 => m <= jobs \/ m = jobs + 1
          BY DEF Job
      <3>4. \A m \in Job : m <= jobs => target[m] <= v /\ m # jobs + 1
          BY DEF Job
      <3>5. \A k, m \in Job : k <= m /\ m <= jobs => k <= jobs
          BY DEF Job
      <3>6. ASSUME NEW k \in Job, NEW m \in Job, k <= m, m <= jobs + 1
            PROVE  target'[k] <= target'[m]
        <4>1. CASE m <= jobs
            BY <3>2, <3>4, <3>5, <3>6, <4>1 DEF TargetInv
        <4>2. CASE m = jobs + 1 /\ k = m
            BY <3>1, <4>2 DEF Version
        <4>3. CASE m = jobs + 1 /\ k # m
          <5>1. k <= jobs
              BY <3>6, <4>3 DEF Job
          <5> QED BY <3>1, <3>2, <3>4, <4>3, <5>1
        <4> QED BY <3>3, <3>6, <4>1, <4>2, <4>3
      <3> QED BY <3>1, <3>6 DEF TargetInv
  <2> QED BY <2>1, <2>2
<1>2. CASE StageArtifact
    BY <1>2, ReconcileMoves DEF StageArtifact, ReportJob, ActiveInv, TargetInv
<1>3. CASE CallApply
  <2>1. ActiveInv'
      BY <1>3 DEF ActiveInv, CallApply, ReportJob
  <2>2. TargetInv'
      BY <1>3 DEF TargetInv, CallApply, ReportJob
  <2> QED BY <2>1, <2>2
<1>4. CASE AwaitNode
    BY <1>4 DEF AwaitNode, ActiveInv, TargetInv
<1>5. CASE PollVersion
    BY <1>5 DEF PollVersion, ReportJob, ActiveInv, TargetInv
<1>6. CASE PollTimesOut
    BY <1>6 DEF PollTimesOut, ReportJob, ActiveInv, TargetInv
<1>7. CASE LoseRequest
    BY <1>7 DEF LoseRequest, ActiveInv, TargetInv
<1>8. CASE ControllerStarts
    BY <1>8 DEF ControllerStarts, Resume, ActiveInv, TargetInv
<1>9. CASE ControllerEnds
    BY <1>9 DEF ControllerEnds, ActiveInv, TargetInv
<1>10. CASE Crash
    BY <1>10 DEF Crash, ProcessGone, ActiveInv, TargetInv
<1>11. CASE HostStarts
    BY <1>11 DEF HostStarts, ActiveInv, TargetInv
<1>12. CASE Boot
    BY <1>12, ReconcileMoves DEF Boot, Resume, ActiveInv, TargetInv
<1>13. ASSUME NEW n \in Job, Apply(n) PROVE JobInv'
    BY <1>13, ReconcileMoves DEF Apply, Refuse, ReportJob, ActiveInv, TargetInv
<1>14. ASSUME NEW n \in Job, WriteMarker(n) PROVE JobInv'
    BY <1>14 DEF WriteMarker, Accept, AbandonHandoff, Refuse, ReportJob, ActiveInv, TargetInv
<1>15. ASSUME NEW n \in Job, AwaitHelper(n) PROVE JobInv'
    BY <1>15 DEF AwaitHelper, Accept, AbandonHandoff, Refuse, ReportJob, ActiveInv, TargetInv
<1>16. ASSUME NEW n \in Job, ShutDown(n) PROVE JobInv'
    BY <1>16 DEF ShutDown, ProcessGone, ActiveInv, TargetInv
<1>17. ASSUME NEW n \in Job, MarkerAges(n) PROVE JobInv'
    BY <1>17 DEF MarkerAges, ActiveInv, TargetInv
<1>18. ASSUME NEW n \in Job, HelperStarts(n) PROVE JobInv'
    BY <1>18 DEF HelperStarts, GiveUp, Quiet, GoesTo, ProcessGone, ActiveInv, TargetInv
<1>19. ASSUME NEW n \in Job, HelperWaits(n) PROVE JobInv'
    BY <1>19 DEF HelperWaits, Quiet, GoesTo, ActiveInv, TargetInv
<1>20. ASSUME NEW n \in Job, MoveAside(n) PROVE JobInv'
    BY <1>20 DEF MoveAside, Recover, Quiet, GoesTo, ActiveInv, TargetInv
<1>21. ASSUME NEW n \in Job, Install(n) PROVE JobInv'
    BY <1>21 DEF Install, Recover, Quiet, GoesTo, ActiveInv, TargetInv
<1>22. ASSUME NEW n \in Job, Launch(n) PROVE JobInv'
    BY <1>22 DEF Launch, Recover, GiveUp, StartExecutable, RemoveMarker, Quiet, GoesTo,
        ProcessGone, ActiveInv, TargetInv
<1>23. ASSUME NEW n \in Job, AwaitService(n) PROVE JobInv'
    BY <1>23 DEF AwaitService, Recover, GiveUp, RemoveMarker, Quiet, GoesTo, ProcessGone,
        ActiveInv, TargetInv
<1>24. ASSUME NEW n \in Job, Restore(n) PROVE JobInv'
    BY <1>24 DEF Restore, GiveUp, Quiet, GoesTo, ProcessGone, ActiveInv, TargetInv
<1>25. ASSUME NEW n \in Job, PutBack(n) PROVE JobInv'
    BY <1>25 DEF PutBack, GiveUp, Quiet, GoesTo, ProcessGone, ActiveInv, TargetInv
<1>26. ASSUME NEW n \in Job, Relaunch(n) PROVE JobInv'
    BY <1>26 DEF Relaunch, GiveUp, StartExecutable, RemoveMarker, Quiet, GoesTo, ProcessGone,
        ActiveInv, TargetInv
<1>27. ASSUME NEW n \in Job, HelperTimesOut(n) PROVE JobInv'
    BY <1>27 DEF HelperTimesOut, GiveUp, Quiet, GoesTo, ProcessGone, ActiveInv, TargetInv
<1>28. ASSUME NEW n \in Job, HelperCrash(n) PROVE JobInv'
    BY <1>28 DEF HelperCrash, GoesTo, ActiveInv, TargetInv
<1>29. ASSUME NEW n \in Job, Retract(n) PROVE JobInv'
    BY <1>29 DEF Retract, ActiveInv, TargetInv
<1> QED BY <1>1, <1>2, <1>3, <1>4, <1>5, <1>6, <1>7, <1>8, <1>9, <1>10,
           <1>11, <1>12, <1>13, <1>14, <1>15, <1>16, <1>17, <1>18, <1>19, <1>20,
           <1>21, <1>22, <1>23, <1>24, <1>25, <1>26, <1>27, <1>28, <1>29
    DEF Next, Runner, ApplySteps, Replacement

(* What is not newer than the last job's aim is not newer than the next one's.*)
LEMMA NewerNone ==
    ASSUME jobs \in 0..MaxJobs, target \in [Job -> Version]
    PROVE  Newer(NoVersion)
<1>1. CASE jobs = 0
    BY <1>1 DEF Newer, NoVersion
<1>2. CASE jobs # 0
  <2>1. jobs \in Job /\ target[jobs] \in Version
      BY <1>2, SystemUpdateAssumption DEF Job
  <2> QED BY <1>2, <2>1, SystemUpdateAssumption DEF Newer, NoVersion, Version
<1> QED BY <1>1, <1>2

LEMMA NewerBound ==
    ASSUME jobs \in 0..MaxJobs, NEW v \in Version, \A m \in 1..jobs : v >= target[m],
           target \in [Job -> Version], NEW x \in Version \cup {NoVersion}, Newer(x)
    PROVE  x <= v
<1>1. v \in Int /\ v >= 0 /\ x \in Int /\ jobs \in Nat
    BY SystemUpdateAssumption DEF Version, NoVersion
<1>2. CASE jobs = 0
    BY <1>1, <1>2 DEF Newer
<1>3. CASE jobs # 0
  <2>1. jobs \in 1..jobs /\ jobs \in Job
      BY <1>1, <1>3, SystemUpdateAssumption DEF Job
  <2>2. v >= target[jobs] /\ target[jobs] \in Int
      BY <2>1, SystemUpdateAssumption DEF Version
  <2> QED BY <1>1, <1>3, <2>2 DEF Newer
<1> QED BY <1>2, <1>3

(* Every step keeps VersionInv.                                              *)
LEMMA VersionsAreKept ==
    ASSUME IInv, Next
    PROVE  VersionInv'
<1> USE FieldTypes, SystemUpdateAssumption
    DEF IInv, TypeOK, ProcInv, files, disk, program, session, rows, InProcess, Active,
        HandoffInv, WriteInv, SoleInv, OneMarker, ParentInv, BesideInv, Held, JobInv,
        ActiveInv, TargetInv, VersionInv, RecoveryInv, PlaceInv, Waiting, Fresh, Newer,
        LatestInv, WaitingInv, OnceInv, FreshInv, BackupInv, SuccessIsDurable
<1>1. CASE StartJob
  <2>1. LatestInv'
      <3> PICK v \in Version : /\ v > proc.version
                               /\ \A m \in 1..jobs : v >= target[m]
                               /\ target' = [target EXCEPT ![jobs + 1] = v]
          BY <1>1 DEF StartJob
      <3>1. jobs + 1 \in Job /\ jobs' = jobs + 1 /\ target'[jobs + 1] = v
          BY <1>1 DEF StartJob, Job

      <3>2. \A x \in Version \cup {NoVersion} : Newer(x) => x <= v
        <4>1. jobs \in 0..MaxJobs /\ target \in [Job -> Version]
            OBVIOUS
        <4> HIDE DEF Newer
        <4> QED BY <4>1, NewerBound, Zenon
      <3> QED BY <1>1, <3>1, <3>2 DEF StartJob
  <2>2. WaitingInv'
      <3> PICK v \in Version : /\ v > proc.version
                               /\ \A m \in 1..jobs : v >= target[m]
                               /\ target' = [target EXCEPT ![jobs + 1] = v]
          BY <1>1 DEF StartJob
      <3>1. jobs + 1 \in Job /\ jobs' = jobs + 1 /\ target'[jobs + 1] = v
          BY <1>1 DEF StartJob, Job

      <3>2. \A m \in Job : Waiting(m)' => Waiting(m) /\ m # jobs + 1
          BY <1>1 DEF StartJob, OnceInv, Job
      <3> QED BY <1>1, <3>1, <3>2 DEF StartJob
  <2>3. OnceInv'
      <3>1. \A m \in Job : Waiting(m)' => Waiting(m)
          BY <1>1 DEF StartJob
      <3>2. \A m \in Job : m <= jobs => ~Fresh(m)'
        <4>1. jobs' = jobs + 1 /\ jobs \in Nat
            BY <1>1 DEF StartJob
        <4>2. \A m \in Job : m <= jobs => ~(m > jobs') /\ m # jobs'
            BY <4>1 DEF Job
        <4> QED BY <4>2 DEF Fresh
      <3>3. \A m \in Job : m <= jobs => m <= jobs'
          BY <1>1 DEF StartJob, Job
      <3> QED BY <1>1, <3>1, <3>2, <3>3 DEF OnceInv, StartJob
  <2>4. FreshInv'
      <3>1. \A m \in Job : Waiting(m)' => Waiting(m)
          BY <1>1 DEF StartJob
      <3>2. \A m \in Job : Fresh(m)' => Fresh(m)
          BY <1>1 DEF StartJob, Job
      <3> QED BY <1>1, <3>1, <3>2 DEF StartJob
  <2>5. BackupInv'
      BY <1>1 DEF BackupInv, StartJob
  <2>6. SuccessIsDurable'
      BY <1>1 DEF SuccessIsDurable, StartJob
  <2> QED BY <2>1, <2>2, <2>3, <2>4, <2>5, <2>6
<1>2. CASE StageArtifact
  <2>1. LatestInv'
      BY <1>2, ReconcileMoves DEF LatestInv, StageArtifact, ReportJob
  <2>2. WaitingInv'
      BY <1>2, ReconcileMoves DEF WaitingInv, StageArtifact, ReportJob
  <2>3. OnceInv'
      BY <1>2, ReconcileMoves DEF OnceInv, StageArtifact, ReportJob
  <2>4. FreshInv'
      BY <1>2, ReconcileMoves DEF FreshInv, StageArtifact, ReportJob
  <2>5. BackupInv'
      BY <1>2, ReconcileMoves DEF BackupInv, StageArtifact, ReportJob
  <2>6. SuccessIsDurable'
      <3>1. \A m \in Job : status'[m] = "succeeded" => status[m] = "succeeded"
          BY <1>2 DEF StageArtifact, ReportJob
      <3>2. (exe' = exe /\ exe # NoVersion) \/ UNCHANGED disk
          BY <1>2, ReconcileMoves DEF StageArtifact, Version, NoVersion
      <3>3. target' = target
          BY <1>2 DEF StageArtifact
      <3> QED BY <3>1, <3>2, <3>3
  <2> QED BY <2>1, <2>2, <2>3, <2>4, <2>5, <2>6
<1>3. CASE CallApply
  <2>1. LatestInv'
      BY <1>3 DEF LatestInv, CallApply, ReportJob
  <2>2. WaitingInv'
      <3>1. jobs \in Job /\ exe <= target[jobs]
          BY <1>3 DEF CallApply, Job
      <3>2. \A m \in Job : Waiting(m)' => Waiting(m) \/ m = jobs
          BY <1>3 DEF CallApply
      <3> QED BY <1>3, <3>1, <3>2 DEF CallApply
  <2>3. OnceInv'
      BY <1>3 DEF OnceInv, CallApply, ReportJob
  <2>4. FreshInv'
      BY <1>3 DEF FreshInv, CallApply, ReportJob
  <2>5. BackupInv'
      <3>1. \A m \in Job : status'[m] = "succeeded" => status[m] = "succeeded"
          BY <1>3 DEF CallApply, ReportJob
      <3> QED BY <1>3, <3>1 DEF CallApply
  <2>6. SuccessIsDurable'
      <3>1. \A m \in Job : status'[m] = "succeeded" => status[m] = "succeeded"
          BY <1>3 DEF CallApply, ReportJob
      <3>2. (exe' = exe /\ exe # NoVersion) \/ UNCHANGED disk
          BY <1>3 DEF CallApply, Version, NoVersion
      <3>3. target' = target
          BY <1>3 DEF CallApply
      <3> QED BY <3>1, <3>2, <3>3
  <2> QED BY <2>1, <2>2, <2>3, <2>4, <2>5, <2>6
<1>4. CASE AwaitNode
    BY <1>4 DEF AwaitNode, LatestInv, WaitingInv, OnceInv, FreshInv, BackupInv, SuccessIsDurable
<1>5. CASE PollVersion
    BY <1>5 DEF PollVersion, ReportJob, LatestInv, WaitingInv, OnceInv, FreshInv, BackupInv,
        SuccessIsDurable
<1>6. CASE PollTimesOut
    BY <1>6 DEF PollTimesOut, ReportJob, LatestInv, WaitingInv, OnceInv, FreshInv, BackupInv,
        SuccessIsDurable
<1>7. CASE LoseRequest
    BY <1>7 DEF LoseRequest, LatestInv, WaitingInv, OnceInv, FreshInv, BackupInv,
        SuccessIsDurable
<1>8. CASE ControllerStarts
    BY <1>8 DEF ControllerStarts, Resume, LatestInv, WaitingInv, OnceInv, FreshInv, BackupInv,
        SuccessIsDurable
<1>9. CASE ControllerEnds
    BY <1>9 DEF ControllerEnds, LatestInv, WaitingInv, OnceInv, FreshInv, BackupInv,
        SuccessIsDurable
<1>10. CASE Crash
    BY <1>10 DEF Crash, ProcessGone, LatestInv, WaitingInv, OnceInv, FreshInv, BackupInv,
        SuccessIsDurable
<1>11. CASE HostStarts
    BY <1>11 DEF HostStarts, LatestInv, WaitingInv, OnceInv, FreshInv, BackupInv,
        SuccessIsDurable
<1>12. CASE Boot
  <2>1. LatestInv'
      <3>1. exe' = exe /\ \A m \in Job : bak'[m] \in {bak[m], NoVersion}
          BY <1>12, ReconcileMoves DEF Boot
      <3>2. UNCHANGED <<jobs, target>>
          BY <1>12 DEF Boot
      <3>3. Newer(NoVersion)
          BY NewerNone
      <3> QED BY <3>1, <3>2, <3>3
  <2>2. WaitingInv'
      <3>1. \A m \in Job : ~Waiting(m)'
        <4>1. handler'.pc = "none" /\ handoff' = 0 /\ requests' = {}
            BY <1>12 DEF Boot
        <4>2. \A m \in Job : at'[m] = "none"
            BY <1>12 DEF Boot
        <4> QED BY <4>1, <4>2 DEF Job
      <3> QED BY <3>1
  <2>3. OnceInv'
      <3>1. \A m \in Job : ~Waiting(m)'
        <4>1. handler'.pc = "none" /\ handoff' = 0 /\ requests' = {}
            BY <1>12 DEF Boot
        <4>2. \A m \in Job : at'[m] = "none"
            BY <1>12 DEF Boot
        <4> QED BY <4>1, <4>2 DEF Job

      <3>2. \A m \in Job : at'[m] = "none"
          BY <1>12 DEF Boot
      <3> QED BY <3>1, <3>2 DEF OnceInv
  <2>4. FreshInv'
      <3>1. \A m \in Job : ~Waiting(m)'
        <4>1. handler'.pc = "none" /\ handoff' = 0 /\ requests' = {}
            BY <1>12 DEF Boot
        <4>2. \A m \in Job : at'[m] = "none"
            BY <1>12 DEF Boot
        <4> QED BY <4>1, <4>2 DEF Job

      <3>2. \A m \in Job : Fresh(m)' => Fresh(m)
          BY <1>12 DEF Boot, Resume
      <3>3. \A m \in Job : bak'[m] \in {bak[m], NoVersion}
          BY <1>12, ReconcileMoves DEF Boot
      <3> QED BY <3>1, <3>2, <3>3
  <2>5. BackupInv'
      BY <1>12, ReconcileMoves DEF BackupInv, Boot, Resume
  <2>6. SuccessIsDurable'
      <3>1. exe' = exe /\ exe = proc.version /\ exe # NoVersion
          BY <1>12, ReconcileMoves DEF Boot, Version, NoVersion
      <3>2. \A m \in Job : status'[m] = "succeeded" =>
                status[m] = "succeeded" \/ proc.version >= target[m]
          BY <1>12 DEF Boot, Resume
      <3>3. target' = target
          BY <1>12 DEF Boot
      <3> QED BY <3>1, <3>2, <3>3
  <2> QED BY <2>1, <2>2, <2>3, <2>4, <2>5, <2>6
<1>13. ASSUME NEW n \in Job, Apply(n) PROVE VersionInv'
  <2>1. LatestInv'
      <3>1. exe' = exe /\ \A m \in Job : bak'[m] \in {bak[m], NoVersion}
          BY <1>13, ReconcileMoves DEF Apply
      <3>2. UNCHANGED <<jobs, target>>
          BY <1>13 DEF Apply
      <3>3. Newer(NoVersion)
          BY NewerNone
      <3> QED BY <3>1, <3>2, <3>3
  <2>2. WaitingInv'
      BY <1>13, ReconcileMoves DEF WaitingInv, Apply, Refuse, ReportJob
  <2>3. OnceInv'
      BY <1>13, ReconcileMoves DEF OnceInv, Apply, Refuse, ReportJob
  <2>4. FreshInv'
      BY <1>13, ReconcileMoves DEF FreshInv, Apply, Refuse, ReportJob
  <2>5. BackupInv'
      BY <1>13, ReconcileMoves DEF BackupInv, Apply, Refuse, ReportJob
  <2>6. SuccessIsDurable'
      <3>1. \A m \in Job : status'[m] = "succeeded" => status[m] = "succeeded"
          BY <1>13 DEF Apply, Refuse, ReportJob
      <3>2. (exe' = exe /\ exe # NoVersion) \/ UNCHANGED disk
          BY <1>13, ReconcileMoves DEF Apply, Version, NoVersion
      <3>3. target' = target
          BY <1>13 DEF Apply
      <3> QED BY <3>1, <3>2, <3>3
  <2> QED BY <2>1, <2>2, <2>3, <2>4, <2>5, <2>6
<1>14. ASSUME NEW n \in Job, WriteMarker(n) PROVE VersionInv'
    BY <1>14 DEF WriteMarker, Accept, AbandonHandoff, Refuse, ReportJob, LatestInv, WaitingInv,
        OnceInv, FreshInv, BackupInv, SuccessIsDurable
<1>15. ASSUME NEW n \in Job, AwaitHelper(n) PROVE VersionInv'
    BY <1>15 DEF AwaitHelper, Accept, AbandonHandoff, Refuse, ReportJob, LatestInv, WaitingInv,
        OnceInv, FreshInv, BackupInv, SuccessIsDurable
<1>16. ASSUME NEW n \in Job, ShutDown(n) PROVE VersionInv'
    BY <1>16 DEF ShutDown, ProcessGone, LatestInv, WaitingInv, OnceInv, FreshInv, BackupInv,
        SuccessIsDurable
<1>17. ASSUME NEW n \in Job, MarkerAges(n) PROVE VersionInv'
    BY <1>17 DEF MarkerAges, LatestInv, WaitingInv, OnceInv, FreshInv, BackupInv,
        SuccessIsDurable
<1>18. ASSUME NEW n \in Job, HelperStarts(n) PROVE VersionInv'
    BY <1>18 DEF HelperStarts, GiveUp, Quiet, GoesTo, ProcessGone, LatestInv, WaitingInv,
        OnceInv, FreshInv, BackupInv, SuccessIsDurable
<1>19. ASSUME NEW n \in Job, HelperWaits(n) PROVE VersionInv'
    BY <1>19 DEF HelperWaits, Quiet, GoesTo, LatestInv, WaitingInv, OnceInv, FreshInv,
        BackupInv, SuccessIsDurable
<1>20. ASSUME NEW n \in Job, MoveAside(n) PROVE VersionInv'
  <2>1. LatestInv'
      BY <1>20 DEF LatestInv, MoveAside, Recover, Quiet, GoesTo
  <2>2. WaitingInv'
      BY <1>20 DEF WaitingInv, MoveAside, Recover, Quiet, GoesTo
  <2>3. OnceInv'
      BY <1>20 DEF OnceInv, MoveAside, Recover, Quiet, GoesTo
  <2>4. FreshInv'
      <3>1. CASE Recover(n)
          BY <1>20, <3>1 DEF MoveAside, Recover, Quiet, GoesTo
      <3>2. CASE ~Recover(n)
        <4>1. ~Waiting(n)' /\ ~Fresh(n)'
            BY <1>20, <3>2 DEF MoveAside, Quiet, GoesTo, OnceInv
        <4>2. \A m \in Job \ {n} :
                  bak'[m] = bak[m] /\ (Waiting(m)' => Waiting(m)) /\ (Fresh(m)' => Fresh(m))
            BY <1>20, <3>2 DEF MoveAside, Quiet, GoesTo
        <4> QED BY <4>1, <4>2
      <3> QED BY <3>1, <3>2
  <2>5. BackupInv'
      BY <1>20 DEF BackupInv, MoveAside, Recover, Quiet, GoesTo
  <2>6. SuccessIsDurable'
      BY <1>20 DEF SuccessIsDurable, MoveAside, Recover, Quiet, GoesTo
  <2> QED BY <2>1, <2>2, <2>3, <2>4, <2>5, <2>6
<1>21. ASSUME NEW n \in Job, Install(n) PROVE VersionInv'
  <2>1. LatestInv'
      <3>1. n <= jobs /\ jobs \in Job
          BY <1>21 DEF Install, OnceInv, Job
      <3>2. target[n] <= target[jobs]
          BY <3>1 DEF Job
      <3>3. exe' = exe \/ exe' = target[n]
          BY <1>21 DEF Install, Recover
      <3>4. UNCHANGED <<bak, jobs, target>>
          BY <1>21 DEF Install, Recover, Quiet
      <3> QED BY <3>1, <3>2, <3>3, <3>4 DEF Job
  <2>2. WaitingInv'
      BY <1>21 DEF WaitingInv, Install, Recover, Quiet, GoesTo
  <2>3. OnceInv'
      BY <1>21 DEF OnceInv, Install, Recover, Quiet, GoesTo
  <2>4. FreshInv'
      BY <1>21 DEF FreshInv, Install, Recover, Quiet, GoesTo
  <2>5. BackupInv'
      BY <1>21 DEF BackupInv, Install, Recover, Quiet, GoesTo
  <2>6. SuccessIsDurable'
      <3>1. bak[n] # NoVersion
          BY <1>21 DEF Install
      <3>2. \A m \in Job : status[m] = "succeeded" =>
                target[m] <= bak[n] /\ target[m] <= target[n]
          BY <1>21, <3>1 DEF Install, Version, NoVersion
      <3>3. exe' = exe \/ exe' = target[n]
          BY <1>21 DEF Install, Recover
      <3>4. UNCHANGED <<bak, status, target>>
          BY <1>21 DEF Install, Recover, Quiet
      <3> QED BY <3>2, <3>3, <3>4 DEF Version, NoVersion
  <2> QED BY <2>1, <2>2, <2>3, <2>4, <2>5, <2>6
<1>22. ASSUME NEW n \in Job, Launch(n) PROVE VersionInv'
    BY <1>22 DEF Launch, Recover, GiveUp, StartExecutable, RemoveMarker, Quiet, GoesTo,
        ProcessGone, LatestInv, WaitingInv, OnceInv, FreshInv, BackupInv, SuccessIsDurable
<1>23. ASSUME NEW n \in Job, AwaitService(n) PROVE VersionInv'
    BY <1>23 DEF AwaitService, Recover, GiveUp, RemoveMarker, Quiet, GoesTo, ProcessGone,
        LatestInv, WaitingInv, OnceInv, FreshInv, BackupInv, SuccessIsDurable
<1>24. ASSUME NEW n \in Job, Restore(n) PROVE VersionInv'
  <2>1. LatestInv'
      <3>1. exe' \in {exe, NoVersion} /\ UNCHANGED <<bak, jobs, target>>
          BY <1>24 DEF Restore, GiveUp, Quiet
      <3>2. Newer(NoVersion)
          BY NewerNone
      <3> QED BY <3>1, <3>2
  <2>2. WaitingInv'
      BY <1>24 DEF WaitingInv, Restore, GiveUp, Quiet, GoesTo, ProcessGone
  <2>3. OnceInv'
      BY <1>24 DEF OnceInv, Restore, GiveUp, Quiet, GoesTo, ProcessGone
  <2>4. FreshInv'
      BY <1>24 DEF FreshInv, Restore, GiveUp, Quiet, GoesTo, ProcessGone
  <2>5. BackupInv'
      BY <1>24 DEF BackupInv, Restore, GiveUp, Quiet, GoesTo, ProcessGone
  <2>6. SuccessIsDurable'
      BY <1>24 DEF SuccessIsDurable, Restore, GiveUp, Quiet, GoesTo, ProcessGone
  <2> QED BY <2>1, <2>2, <2>3, <2>4, <2>5, <2>6
<1>25. ASSUME NEW n \in Job, PutBack(n) PROVE VersionInv'
    BY <1>25 DEF PutBack, GiveUp, Quiet, GoesTo, ProcessGone, LatestInv, WaitingInv, OnceInv,
        FreshInv, BackupInv, SuccessIsDurable
<1>26. ASSUME NEW n \in Job, Relaunch(n) PROVE VersionInv'
    BY <1>26 DEF Relaunch, GiveUp, StartExecutable, RemoveMarker, Quiet, GoesTo, ProcessGone,
        LatestInv, WaitingInv, OnceInv, FreshInv, BackupInv, SuccessIsDurable
<1>27. ASSUME NEW n \in Job, HelperTimesOut(n) PROVE VersionInv'
    BY <1>27 DEF HelperTimesOut, GiveUp, Quiet, GoesTo, ProcessGone, LatestInv, WaitingInv,
        OnceInv, FreshInv, BackupInv, SuccessIsDurable
<1>28. ASSUME NEW n \in Job, HelperCrash(n) PROVE VersionInv'
  <2>1. LatestInv'
      BY <1>28 DEF LatestInv, HelperCrash, GoesTo
  <2>2. WaitingInv'
      BY <1>28 DEF WaitingInv, HelperCrash, GoesTo
  <2>3. OnceInv'
      BY <1>28 DEF OnceInv, HelperCrash, GoesTo
  <2>4. FreshInv'
      BY <1>28 DEF FreshInv, HelperCrash, GoesTo
  <2>5. BackupInv'
      BY <1>28 DEF BackupInv, HelperCrash, GoesTo
  <2>6. SuccessIsDurable'
      BY <1>28 DEF SuccessIsDurable, HelperCrash, GoesTo
  <2> QED BY <2>1, <2>2, <2>3, <2>4, <2>5, <2>6
<1>29. ASSUME NEW n \in Job, Retract(n) PROVE VersionInv'
  <2>1. /\ LatestInv' /\ WaitingInv' /\ OnceInv' /\ FreshInv'
      BY <1>29 DEF Retract, LatestInv, WaitingInv, OnceInv, FreshInv
  <2>2. \A m \in Job : status'[m] = "succeeded" => status[m] = "succeeded"
      BY <1>29 DEF Retract
  <2>3. BackupInv' /\ SuccessIsDurable'
      BY <1>29, <2>2 DEF Retract, BackupInv, SuccessIsDurable
  <2> QED BY <2>1, <2>3
<1> QED BY <1>1, <1>2, <1>3, <1>4, <1>5, <1>6, <1>7, <1>8, <1>9, <1>10,
           <1>11, <1>12, <1>13, <1>14, <1>15, <1>16, <1>17, <1>18, <1>19, <1>20,
           <1>21, <1>22, <1>23, <1>24, <1>25, <1>26, <1>27, <1>28, <1>29
    DEF Next, Runner, ApplySteps, Replacement

(* What FinishedJobsStay says of a step.                                     *)
Finished ==
    \A n \in Job :
        /\ status[n] = "failed" => status'[n] = "failed"
        /\ status[n] = "succeeded" =>
               \/ status'[n] = "succeeded"
               \/ n \in retracting /\ status'[n] = "failed"

(* A job that has ended is left alone by all but the goroutine that retracts *)
(* the success it has just recorded.                                         *)
LEMMA FinishedStay ==
    ASSUME IInv, Next
    PROVE  Finished
<1> USE FieldTypes, SystemUpdateAssumption
    DEF IInv, TypeOK, ProcInv, files, disk, program, session, rows, InProcess, Active, JobInv,
        ActiveInv, Finished
<1>1. CASE StartJob
    BY <1>1 DEF StartJob
<1>2. CASE StageArtifact
    BY <1>2, ReconcileMoves DEF StageArtifact, ReportJob
<1>3. CASE CallApply
    BY <1>3 DEF CallApply, ReportJob
<1>4. CASE AwaitNode
    BY <1>4 DEF AwaitNode
<1>5. CASE PollVersion
    BY <1>5 DEF PollVersion, ReportJob
<1>6. CASE PollTimesOut
    BY <1>6 DEF PollTimesOut, ReportJob
<1>7. CASE LoseRequest
    BY <1>7 DEF LoseRequest
<1>8. CASE ControllerStarts
    BY <1>8 DEF ControllerStarts, Resume
<1>9. CASE ControllerEnds
    BY <1>9 DEF ControllerEnds
<1>10. CASE Crash
    BY <1>10 DEF Crash, ProcessGone
<1>11. CASE HostStarts
    BY <1>11 DEF HostStarts
<1>12. CASE Boot
    BY <1>12, ReconcileMoves DEF Boot, Resume
<1>13. ASSUME NEW n \in Job, Apply(n) PROVE Finished
    BY <1>13, ReconcileMoves DEF Apply, Refuse, ReportJob
<1>14. ASSUME NEW n \in Job, WriteMarker(n) PROVE Finished
    BY <1>14 DEF WriteMarker, Accept, AbandonHandoff, Refuse, ReportJob
<1>15. ASSUME NEW n \in Job, AwaitHelper(n) PROVE Finished
    BY <1>15 DEF AwaitHelper, Accept, AbandonHandoff, Refuse, ReportJob
<1>16. ASSUME NEW n \in Job, ShutDown(n) PROVE Finished
    BY <1>16 DEF ShutDown, ProcessGone
<1>17. ASSUME NEW n \in Job, MarkerAges(n) PROVE Finished
    BY <1>17 DEF MarkerAges
<1>18. ASSUME NEW n \in Job, HelperStarts(n) PROVE Finished
    BY <1>18 DEF HelperStarts, GiveUp, Quiet, GoesTo, ProcessGone
<1>19. ASSUME NEW n \in Job, HelperWaits(n) PROVE Finished
    BY <1>19 DEF HelperWaits, Quiet, GoesTo
<1>20. ASSUME NEW n \in Job, MoveAside(n) PROVE Finished
    BY <1>20 DEF MoveAside, Recover, Quiet, GoesTo
<1>21. ASSUME NEW n \in Job, Install(n) PROVE Finished
    BY <1>21 DEF Install, Recover, Quiet, GoesTo
<1>22. ASSUME NEW n \in Job, Launch(n) PROVE Finished
    BY <1>22 DEF Launch, Recover, GiveUp, StartExecutable, RemoveMarker, Quiet, GoesTo,
        ProcessGone
<1>23. ASSUME NEW n \in Job, AwaitService(n) PROVE Finished
    BY <1>23 DEF AwaitService, Recover, GiveUp, RemoveMarker, Quiet, GoesTo, ProcessGone
<1>24. ASSUME NEW n \in Job, Restore(n) PROVE Finished
    BY <1>24 DEF Restore, GiveUp, Quiet, GoesTo, ProcessGone
<1>25. ASSUME NEW n \in Job, PutBack(n) PROVE Finished
    BY <1>25 DEF PutBack, GiveUp, Quiet, GoesTo, ProcessGone
<1>26. ASSUME NEW n \in Job, Relaunch(n) PROVE Finished
    BY <1>26 DEF Relaunch, GiveUp, StartExecutable, RemoveMarker, Quiet, GoesTo, ProcessGone
<1>27. ASSUME NEW n \in Job, HelperTimesOut(n) PROVE Finished
    BY <1>27 DEF HelperTimesOut, GiveUp, Quiet, GoesTo, ProcessGone
<1>28. ASSUME NEW n \in Job, HelperCrash(n) PROVE Finished
    BY <1>28 DEF HelperCrash, GoesTo
<1>29. ASSUME NEW n \in Job, Retract(n) PROVE Finished
    BY <1>29 DEF Retract
<1> QED BY <1>1, <1>2, <1>3, <1>4, <1>5, <1>6, <1>7, <1>8, <1>9, <1>10,
           <1>11, <1>12, <1>13, <1>14, <1>15, <1>16, <1>17, <1>18, <1>19, <1>20,
           <1>21, <1>22, <1>23, <1>24, <1>25, <1>26, <1>27, <1>28, <1>29
    DEF Next, Runner, ApplySteps, Replacement

(* How far a job is on its way: from the controller's row to the program,    *)
(* through Apply, the hand-off and the replacement; zero when it is over.    *)
PlaceLeft(n) ==
    CASE at[n] = "start" -> 10
      [] at[n] = "wait" -> 9
      [] at[n] = "replace" -> 7
      [] at[n] = "install" -> 6
      [] at[n] = "launch" -> 5
      [] at[n] = "started" -> 4
      [] at[n] = "restore" -> 3
      [] at[n] = "putBack" -> 2
      [] at[n] = "relaunch" -> 1
      [] OTHER -> IF InProcess /\ handoff = n /\ proc.pc = "up" THEN 8 ELSE 0

PhasesLeft(n) ==
    IF n > jobs THEN 15
    ELSE IF n = jobs /\ runner = "stage" THEN 14
    ELSE IF n = jobs /\ runner = "drain" THEN 13
    ELSE IF \/ n \in requests
            \/ n = jobs /\ runner = "calling" /\ component = "controller" /\ handler.pc = "none"
         THEN 12
    ELSE IF handler.pc = "write" /\ handler.job = n THEN 11
    ELSE PlaceLeft(n)

HoldLeft(n) ==
    IF handler.pc = "ready" /\ handler.job = n THEN 2
    ELSE IF handoff = n /\ proc.pc = "up" THEN 1
    ELSE 0

Ahead(n) == 3 * PhasesLeft(n) + HoldLeft(n)

(* A way has at most 47 steps.                                               *)
LEMMA AheadTypes ==
    ASSUME NEW n \in Job
    PROVE  /\ PlaceLeft(n) \in 0..10
           /\ PhasesLeft(n) \in 0..15
           /\ HoldLeft(n) \in 0..2
           /\ Ahead(n) \in 0..47
<1>1. PlaceLeft(n) \in 0..10
    BY DEF PlaceLeft
<1>2. PhasesLeft(n) \in 0..15
    BY <1>1 DEF PhasesLeft
<1>3. HoldLeft(n) \in 0..2
    BY DEF HoldLeft
<1> QED BY <1>1, <1>2, <1>3 DEF Ahead

(* A job's way is shorter when a phase of it is over.                        *)
LEMMA FewerPhases ==
    ASSUME NEW p \in 0..15, NEW q \in 0..15, NEW g \in 0..2, NEW h \in 0..2,
           q < p \/ (q <= p /\ h <= g)
    PROVE  /\ 3 * q + h <= 3 * p + g
           /\ q < p \/ h < g => 3 * q + h < 3 * p + g
<1>1. CASE q < p
    BY <1>1
<1>2. CASE q <= p /\ h <= g
    BY <1>2
<1> QED BY <1>1, <1>2

(* A request that is on its way has not been taken up yet.                   *)
RequestInv ==
    \A n \in requests :
        /\ handler.pc # "none" => handler.job # n
        /\ handoff # n
        /\ at[n] = "none"

(* Every step keeps RequestInv.                                              *)
LEMMA RequestsAreKept ==
    ASSUME IInv, RequestInv, Next
    PROVE  RequestInv'
<1> USE FieldTypes, SystemUpdateAssumption
    DEF IInv, TypeOK, ProcInv, files, disk, program, session, rows, InProcess
<1>1. CASE StartJob
    BY <1>1 DEF StartJob, RequestInv
<1>2. CASE StageArtifact
    BY <1>2 DEF StageArtifact, ReportJob, RequestInv
<1>3. CASE CallApply
  <2>1. jobs \in Job /\ Fresh(jobs)
      BY <1>3 DEF CallApply, JobInv, ActiveInv, Fresh
  <2>2. ~Waiting(jobs) /\ at[jobs] = "none"
      BY <2>1 DEF VersionInv, OnceInv
  <2>3. /\ requests' = requests \/ (requests' = requests \cup {jobs} /\ proc.pc = "up")
        /\ UNCHANGED <<handler, handoff, at>>
      BY <1>3 DEF CallApply
  <2> QED BY <2>2, <2>3 DEF RequestInv, Waiting
<1>4. CASE AwaitNode
    BY <1>4 DEF AwaitNode, RequestInv
<1>5. CASE PollVersion
    BY <1>5 DEF PollVersion, ReportJob, RequestInv
<1>6. CASE PollTimesOut
    BY <1>6 DEF PollTimesOut, ReportJob, RequestInv
<1>7. CASE LoseRequest
    BY <1>7 DEF LoseRequest, RequestInv
<1>8. CASE ControllerStarts
    BY <1>8 DEF ControllerStarts, Resume, RequestInv
<1>9. CASE ControllerEnds
    BY <1>9 DEF ControllerEnds, RequestInv
<1>10. CASE Crash
    BY <1>10 DEF Crash, ProcessGone, RequestInv
<1>11. CASE HostStarts
    BY <1>11 DEF HostStarts, RequestInv
<1>12. CASE Boot
    BY <1>12 DEF Boot, Resume, RequestInv
<1>13. ASSUME NEW n \in Job, Apply(n) PROVE RequestInv'
    BY <1>13 DEF Apply, Refuse, ReportJob, RequestInv
<1>14. ASSUME NEW n \in Job, WriteMarker(n) PROVE RequestInv'
    BY <1>14 DEF WriteMarker, Accept, AbandonHandoff, Refuse, ReportJob, RequestInv,
        HandoffInv, BesideInv, WriteInv, VersionInv, OnceInv, Fresh, Waiting
<1>15. ASSUME NEW n \in Job, AwaitHelper(n) PROVE RequestInv'
    BY <1>15 DEF AwaitHelper, Accept, AbandonHandoff, Refuse, ReportJob, RequestInv
<1>16. ASSUME NEW n \in Job, ShutDown(n) PROVE RequestInv'
    BY <1>16 DEF ShutDown, ProcessGone, RequestInv, HandoffInv, BesideInv, WriteInv,
        VersionInv, OnceInv, Fresh, Waiting
<1>17. ASSUME NEW n \in Job, MarkerAges(n) PROVE RequestInv'
    BY <1>17 DEF MarkerAges, RequestInv
<1>18. ASSUME NEW n \in Job, HelperStarts(n) PROVE RequestInv'
    BY <1>18 DEF HelperStarts, GiveUp, Quiet, GoesTo, ProcessGone, RequestInv
<1>19. ASSUME NEW n \in Job, HelperWaits(n) PROVE RequestInv'
    BY <1>19 DEF HelperWaits, Quiet, GoesTo, RequestInv
<1>20. ASSUME NEW n \in Job, MoveAside(n) PROVE RequestInv'
    BY <1>20 DEF MoveAside, Recover, Quiet, GoesTo, RequestInv
<1>21. ASSUME NEW n \in Job, Install(n) PROVE RequestInv'
    BY <1>21 DEF Install, Recover, Quiet, GoesTo, RequestInv
<1>22. ASSUME NEW n \in Job, Launch(n) PROVE RequestInv'
    BY <1>22 DEF Launch, Recover, GiveUp, StartExecutable, RemoveMarker, Quiet, GoesTo,
        ProcessGone, RequestInv, HandoffInv, BesideInv, WriteInv, VersionInv, OnceInv, Fresh,
        Waiting
<1>23. ASSUME NEW n \in Job, AwaitService(n) PROVE RequestInv'
    BY <1>23 DEF AwaitService, Recover, GiveUp, RemoveMarker, Quiet, GoesTo, ProcessGone,
        RequestInv
<1>24. ASSUME NEW n \in Job, Restore(n) PROVE RequestInv'
    BY <1>24 DEF Restore, GiveUp, Quiet, GoesTo, ProcessGone, RequestInv
<1>25. ASSUME NEW n \in Job, PutBack(n) PROVE RequestInv'
    BY <1>25 DEF PutBack, GiveUp, Quiet, GoesTo, ProcessGone, RequestInv
<1>26. ASSUME NEW n \in Job, Relaunch(n) PROVE RequestInv'
    BY <1>26 DEF Relaunch, GiveUp, StartExecutable, RemoveMarker, Quiet, GoesTo,
        ProcessGone, RequestInv
<1>27. ASSUME NEW n \in Job, HelperTimesOut(n) PROVE RequestInv'
    BY <1>27 DEF HelperTimesOut, GiveUp, Quiet, GoesTo, ProcessGone, RequestInv
<1>28. ASSUME NEW n \in Job, HelperCrash(n) PROVE RequestInv'
    BY <1>28 DEF HelperCrash, GoesTo, RequestInv
<1>29. ASSUME NEW n \in Job, Retract(n) PROVE RequestInv'
    BY <1>29 DEF Retract, RequestInv
<1> QED BY <1>1, <1>2, <1>3, <1>4, <1>5, <1>6, <1>7, <1>8, <1>9, <1>10,
           <1>11, <1>12, <1>13, <1>14, <1>15, <1>16, <1>17, <1>18, <1>19, <1>20,
           <1>21, <1>22, <1>23, <1>24, <1>25, <1>26, <1>27, <1>28, <1>29
    DEF Next, Runner, ApplySteps, Replacement

(* A step leaves a job's phase, or ends it.                                  *)
Closer(m) ==
    \/ PhasesLeft(m)' < PhasesLeft(m)
    \/ PhasesLeft(m)' = PhasesLeft(m) /\ HoldLeft(m)' <= HoldLeft(m)

(* Every step does so for every job.                                         *)
LEMMA WaysGoForward ==
    ASSUME IInv, RequestInv, Next
    PROVE  \A m \in Job : Closer(m)
<1> USE FieldTypes, SystemUpdateAssumption
    DEF IInv, TypeOK, ProcInv, files, disk, program, session, rows, InProcess
<1>1. CASE StartJob
  <2>1. runner = "none" /\ runner' = "stage" /\ jobs' = jobs + 1 /\ jobs \in 0..MaxJobs
      BY <1>1 DEF StartJob, JobInv, ActiveInv
  <2>2. UNCHANGED <<component, mode, at, handoff, handler, proc, requests>>
      BY <1>1 DEF StartJob
  <2>3. ASSUME NEW m \in Job, m > jobs PROVE Closer(m)
      BY <2>1, <2>2, <2>3, AheadTypes DEF Closer, PhasesLeft, HoldLeft, Job
  <2>4. ASSUME NEW m \in Job, ~(m > jobs) PROVE Closer(m)
      BY <2>1, <2>2, <2>4 DEF Closer, PhasesLeft, PlaceLeft, HoldLeft, Job
  <2> QED BY <2>3, <2>4
<1>2. CASE StageArtifact
    BY <1>2 DEF StageArtifact, ReportJob, Closer, PhasesLeft, PlaceLeft, HoldLeft,
        HandoffInv, WriteInv, SoleInv, BesideInv, Held, VersionInv, OnceInv, Fresh, Waiting,
        JobInv, ActiveInv
<1>3. CASE CallApply
    BY <1>3 DEF CallApply, ReportJob, Closer, PhasesLeft, PlaceLeft, HoldLeft, HandoffInv,
        WriteInv, SoleInv, BesideInv, Held, VersionInv, OnceInv, Fresh, Waiting, JobInv,
        ActiveInv
<1>4. CASE AwaitNode
    BY <1>4 DEF AwaitNode, Closer, PhasesLeft, PlaceLeft, HoldLeft, HandoffInv, WriteInv,
        SoleInv, BesideInv, Held, VersionInv, OnceInv, Fresh, Waiting, JobInv, ActiveInv
<1>5. CASE PollVersion
    BY <1>5 DEF PollVersion, ReportJob, Closer, PhasesLeft, PlaceLeft, HoldLeft,
        HandoffInv, WriteInv, SoleInv, BesideInv, Held, VersionInv, OnceInv, Fresh, Waiting,
        JobInv, ActiveInv
<1>6. CASE PollTimesOut
    BY <1>6 DEF PollTimesOut, ReportJob, Closer, PhasesLeft, PlaceLeft, HoldLeft,
        HandoffInv, WriteInv, SoleInv, BesideInv, Held, VersionInv, OnceInv, Fresh, Waiting,
        JobInv, ActiveInv
<1>7. CASE LoseRequest
    BY <1>7 DEF LoseRequest, Closer, PhasesLeft, PlaceLeft, HoldLeft, HandoffInv,
        WriteInv, SoleInv, BesideInv, Held, VersionInv, OnceInv, Fresh, Waiting, JobInv,
        ActiveInv
<1>8. CASE ControllerStarts
    BY <1>8 DEF ControllerStarts, Resume, Closer, PhasesLeft, PlaceLeft, HoldLeft,
        HandoffInv, WriteInv, SoleInv, BesideInv, Held, VersionInv, OnceInv, Fresh, Waiting,
        JobInv, ActiveInv
<1>9. CASE ControllerEnds
    BY <1>9 DEF ControllerEnds, Closer, PhasesLeft, PlaceLeft, HoldLeft, HandoffInv,
        WriteInv, SoleInv, BesideInv, Held, VersionInv, OnceInv, Fresh, Waiting, JobInv,
        ActiveInv
<1>10. CASE Crash
    BY <1>10 DEF Crash, ProcessGone, Closer, PhasesLeft, PlaceLeft, HoldLeft, HandoffInv,
        WriteInv, SoleInv, BesideInv, Held, VersionInv, OnceInv, Fresh, Waiting, JobInv,
        ActiveInv
<1>11. CASE HostStarts
    BY <1>11 DEF HostStarts, Closer, PhasesLeft, PlaceLeft, HoldLeft, HandoffInv,
        WriteInv, SoleInv, BesideInv, Held, VersionInv, OnceInv, Fresh, Waiting, JobInv,
        ActiveInv
<1>12. CASE Boot
    BY <1>12 DEF Boot, Resume, Closer, PhasesLeft, PlaceLeft, HoldLeft, HandoffInv,
        WriteInv, SoleInv, BesideInv, Held, VersionInv, OnceInv, Fresh, Waiting, JobInv,
        ActiveInv
<1>13. ASSUME NEW n \in Job, Apply(n) PROVE \A m \in Job : Closer(m)
  <2>1. /\ requests' = requests \ {n} /\ handler.pc = "none"
        /\ UNCHANGED <<component, mode, at, handoff, proc, jobs>>
        /\ IF component = "node" THEN n \in requests ELSE runner = "calling" /\ n = jobs
      BY <1>13 DEF Apply
  <2>2. \/ handler' = [pc |-> "write", job |-> n] /\ runner' = runner
        \/ handler'.pc = "none" /\ (runner' = "none" \/ (runner' = runner /\ component = "node"))
      BY <1>13 DEF Apply, Refuse, ReportJob
  <2>3. n <= jobs /\ ~(n = jobs /\ runner \in {"stage", "drain"})
      BY <2>1 DEF VersionInv, OnceInv, Waiting, Fresh, JobInv, ActiveInv
  <2>4. ASSUME NEW m \in Job, m # n PROVE Closer(m)
      BY <2>1, <2>2, <2>4 DEF Closer, PhasesLeft, PlaceLeft, HoldLeft
  <2>5. PlaceLeft(n)' \in 0..10 /\ PhasesLeft(n) = 12
      BY <2>1, <2>2, <2>3 DEF PhasesLeft, PlaceLeft, Job
  <2>6. PhasesLeft(n)' \in 0..11
      BY <2>1, <2>2, <2>3, <2>5 DEF PhasesLeft
  <2>7. Closer(n)
      BY <2>5, <2>6 DEF Closer
  <2> QED BY <2>4, <2>7
<1>14. ASSUME NEW n \in Job, WriteMarker(n) PROVE \A m \in Job : Closer(m)
  <2>1. /\ handler.pc = "write" /\ handler.job = n /\ proc.pc = "up" /\ handoff = 0
        /\ UNCHANGED <<component, mode, requests, proc, jobs>>
        /\ \A m \in Job : at[m] = "none"
        /\ \A m \in Job \ {n} : at'[m] = "none"
        /\ at'[n] \in {"none", "start"}
      BY <1>14 DEF WriteMarker, AbandonHandoff, HandoffInv, WriteInv
  <2>2. /\ handler'.pc # "write" /\ (handler'.pc = "ready" => handler'.job = n)
        /\ handoff' \in {0, n}
        /\ runner' # "none" => runner' = runner
      BY <1>14 DEF WriteMarker, AbandonHandoff, Accept, Refuse, ReportJob
  <2>3. handler'.pc = "none" /\ component = "controller" => runner' = "none"
      BY <1>14 DEF WriteMarker, AbandonHandoff, Accept, Refuse, ReportJob
  <2>4. n <= jobs /\ ~(n = jobs /\ runner \in {"stage", "drain"})
      BY <2>1 DEF VersionInv, OnceInv, Waiting, Fresh
  <2>5. ASSUME NEW m \in Job, m # n PROVE Closer(m)
      BY <2>1, <2>2, <2>3, <2>5 DEF Closer, PhasesLeft, PlaceLeft, HoldLeft
  <2>6. PlaceLeft(n)' \in 0..10
      BY DEF PlaceLeft
  <2>7. n \notin requests
      BY <2>1 DEF RequestInv
  <2>8. PhasesLeft(n) = 11
      BY <2>1, <2>4, <2>7 DEF PhasesLeft, Job
  <2>9. PhasesLeft(n)' \in 0..10
      BY <2>1, <2>2, <2>3, <2>4, <2>6, <2>7 DEF PhasesLeft, Job
  <2>10. Closer(n)
      BY <2>8, <2>9 DEF Closer
  <2> QED BY <2>5, <2>10
<1>15. ASSUME NEW n \in Job, AwaitHelper(n) PROVE \A m \in Job : Closer(m)
    BY <1>15 DEF AwaitHelper, Accept, AbandonHandoff, Refuse, ReportJob, Closer,
        PhasesLeft, PlaceLeft, HoldLeft, HandoffInv, WriteInv, SoleInv, BesideInv, Held,
        VersionInv, OnceInv, Fresh, Waiting, JobInv, ActiveInv
<1>16. ASSUME NEW n \in Job, ShutDown(n) PROVE \A m \in Job : Closer(m)
    BY <1>16 DEF ShutDown, ProcessGone, Closer, PhasesLeft, PlaceLeft, HoldLeft,
        HandoffInv, WriteInv, SoleInv, BesideInv, Held, VersionInv, OnceInv, Fresh, Waiting,
        JobInv, ActiveInv
<1>17. ASSUME NEW n \in Job, MarkerAges(n) PROVE \A m \in Job : Closer(m)
    BY <1>17 DEF MarkerAges, Closer, PhasesLeft, PlaceLeft, HoldLeft, HandoffInv,
        WriteInv, SoleInv, BesideInv, Held, VersionInv, OnceInv, Fresh, Waiting, JobInv,
        ActiveInv
<1>18. ASSUME NEW n \in Job, HelperStarts(n) PROVE \A m \in Job : Closer(m)
    BY <1>18 DEF HelperStarts, GiveUp, Quiet, GoesTo, ProcessGone, Closer, PhasesLeft,
        PlaceLeft, HoldLeft, HandoffInv, WriteInv, SoleInv, BesideInv, Held, VersionInv,
        OnceInv, Fresh, Waiting, JobInv, ActiveInv
<1>19. ASSUME NEW n \in Job, HelperWaits(n) PROVE \A m \in Job : Closer(m)
    BY <1>19 DEF HelperWaits, Quiet, GoesTo, Closer, PhasesLeft, PlaceLeft, HoldLeft,
        HandoffInv, WriteInv, SoleInv, BesideInv, Held, VersionInv, OnceInv, Fresh, Waiting,
        JobInv, ActiveInv
<1>20. ASSUME NEW n \in Job, MoveAside(n) PROVE \A m \in Job : Closer(m)
    BY <1>20 DEF MoveAside, Recover, Quiet, GoesTo, Closer, PhasesLeft, PlaceLeft,
        HoldLeft, HandoffInv, WriteInv, SoleInv, BesideInv, Held, VersionInv, OnceInv, Fresh,
        Waiting, JobInv, ActiveInv
<1>21. ASSUME NEW n \in Job, Install(n) PROVE \A m \in Job : Closer(m)
    BY <1>21 DEF Install, Recover, Quiet, GoesTo, Closer, PhasesLeft, PlaceLeft, HoldLeft,
        HandoffInv, WriteInv, SoleInv, BesideInv, Held, VersionInv, OnceInv, Fresh, Waiting,
        JobInv, ActiveInv
<1>22. ASSUME NEW n \in Job, Launch(n) PROVE \A m \in Job : Closer(m)
    BY <1>22 DEF Launch, Recover, GiveUp, StartExecutable, RemoveMarker, Quiet, GoesTo,
        ProcessGone, Closer, PhasesLeft, PlaceLeft, HoldLeft, HandoffInv, WriteInv, SoleInv,
        BesideInv, Held, VersionInv, OnceInv, Fresh, Waiting, JobInv, ActiveInv
<1>23. ASSUME NEW n \in Job, AwaitService(n) PROVE \A m \in Job : Closer(m)
    BY <1>23 DEF AwaitService, Recover, GiveUp, RemoveMarker, Quiet, GoesTo, ProcessGone,
        Closer, PhasesLeft, PlaceLeft, HoldLeft, HandoffInv, WriteInv, SoleInv, BesideInv,
        Held, VersionInv, OnceInv, Fresh, Waiting, JobInv, ActiveInv
<1>24. ASSUME NEW n \in Job, Restore(n) PROVE \A m \in Job : Closer(m)
    BY <1>24 DEF Restore, GiveUp, Quiet, GoesTo, ProcessGone, Closer, PhasesLeft,
        PlaceLeft, HoldLeft, HandoffInv, WriteInv, SoleInv, BesideInv, Held, VersionInv,
        OnceInv, Fresh, Waiting, JobInv, ActiveInv
<1>25. ASSUME NEW n \in Job, PutBack(n) PROVE \A m \in Job : Closer(m)
    BY <1>25 DEF PutBack, GiveUp, Quiet, GoesTo, ProcessGone, Closer, PhasesLeft,
        PlaceLeft, HoldLeft, HandoffInv, WriteInv, SoleInv, BesideInv, Held, VersionInv,
        OnceInv, Fresh, Waiting, JobInv, ActiveInv
<1>26. ASSUME NEW n \in Job, Relaunch(n) PROVE \A m \in Job : Closer(m)
    BY <1>26 DEF Relaunch, GiveUp, StartExecutable, RemoveMarker, Quiet, GoesTo,
        ProcessGone, Closer, PhasesLeft, PlaceLeft, HoldLeft, HandoffInv, WriteInv, SoleInv,
        BesideInv, Held, VersionInv, OnceInv, Fresh, Waiting, JobInv, ActiveInv
<1>27. ASSUME NEW n \in Job, HelperTimesOut(n) PROVE \A m \in Job : Closer(m)
    BY <1>27 DEF HelperTimesOut, GiveUp, Quiet, GoesTo, ProcessGone, Closer, PhasesLeft,
        PlaceLeft, HoldLeft, HandoffInv, WriteInv, SoleInv, BesideInv, Held, VersionInv,
        OnceInv, Fresh, Waiting, JobInv, ActiveInv
<1>28. ASSUME NEW n \in Job, HelperCrash(n) PROVE \A m \in Job : Closer(m)
    BY <1>28 DEF HelperCrash, GoesTo, Closer, PhasesLeft, PlaceLeft, HoldLeft, HandoffInv,
        WriteInv, SoleInv, BesideInv, Held, VersionInv, OnceInv, Fresh, Waiting, JobInv,
        ActiveInv
<1>29. ASSUME NEW n \in Job, Retract(n) PROVE \A m \in Job : Closer(m)
    BY <1>29 DEF Retract, Closer, PhasesLeft, PlaceLeft, HoldLeft
<1> QED BY <1>1, <1>2, <1>3, <1>4, <1>5, <1>6, <1>7, <1>8, <1>9, <1>10,
           <1>11, <1>12, <1>13, <1>14, <1>15, <1>16, <1>17, <1>18, <1>19, <1>20,
           <1>21, <1>22, <1>23, <1>24, <1>25, <1>26, <1>27, <1>28, <1>29
    DEF Next, Runner, ApplySteps, Replacement

(* What is done for the job itself ends a phase of it, or the program's hold *)
(* on it.                                                                    *)
Nearer(n) ==
    \/ PhasesLeft(n)' < PhasesLeft(n)
    \/ PhasesLeft(n)' = PhasesLeft(n) /\ HoldLeft(n)' < HoldLeft(n)

(* What the program, its helper and Apply do for a job.                      *)
ActsFor(n) == ApplySteps(n) \/ ShutDown(n) \/ Replacement(n) \/ HelperTimesOut(n)

(* No act for a job leaves everything as it is.                              *)
LEMMA ActsEndPhases ==
    ASSUME IInv, RequestInv, NEW n \in Job, ActsFor(n)
    PROVE  Nearer(n)
<1> USE FieldTypes, SystemUpdateAssumption
    DEF IInv, TypeOK, ProcInv, files, disk, program, session, rows, InProcess
<1>1. CASE Apply(n)
    BY <1>1 DEF Apply, Refuse, ReportJob, Nearer, PhasesLeft, PlaceLeft, HoldLeft,
        RequestInv, HandoffInv, WriteInv, SoleInv, BesideInv, Held, VersionInv, OnceInv,
        Fresh, Waiting, JobInv, ActiveInv
<1>2. CASE WriteMarker(n)
    BY <1>2 DEF WriteMarker, Accept, AbandonHandoff, Refuse, ReportJob, Nearer,
        PhasesLeft, PlaceLeft, HoldLeft, RequestInv, HandoffInv, WriteInv, SoleInv, BesideInv,
        Held, VersionInv, OnceInv, Fresh, Waiting, JobInv, ActiveInv
<1>3. CASE AwaitHelper(n)
    BY <1>3 DEF AwaitHelper, Accept, AbandonHandoff, Refuse, ReportJob, Nearer,
        PhasesLeft, PlaceLeft, HoldLeft, RequestInv, HandoffInv, WriteInv, SoleInv, BesideInv,
        Held, VersionInv, OnceInv, Fresh, Waiting, JobInv, ActiveInv
<1>4. CASE ShutDown(n)
    BY <1>4 DEF ShutDown, ProcessGone, Nearer, PhasesLeft, PlaceLeft, HoldLeft,
        RequestInv, HandoffInv, WriteInv, SoleInv, BesideInv, Held, VersionInv, OnceInv,
        Fresh, Waiting, JobInv, ActiveInv
<1>5. CASE HelperStarts(n)
    BY <1>5 DEF HelperStarts, GiveUp, Quiet, GoesTo, ProcessGone, Nearer, PhasesLeft,
        PlaceLeft, HoldLeft, RequestInv, HandoffInv, WriteInv, SoleInv, BesideInv, Held,
        VersionInv, OnceInv, Fresh, Waiting, JobInv, ActiveInv
<1>6. CASE HelperWaits(n)
    BY <1>6 DEF HelperWaits, Quiet, GoesTo, Nearer, PhasesLeft, PlaceLeft, HoldLeft,
        RequestInv, HandoffInv, WriteInv, SoleInv, BesideInv, Held, VersionInv, OnceInv,
        Fresh, Waiting, JobInv, ActiveInv
<1>7. CASE MoveAside(n)
    BY <1>7 DEF MoveAside, Recover, Quiet, GoesTo, Nearer, PhasesLeft, PlaceLeft,
        HoldLeft, RequestInv, HandoffInv, WriteInv, SoleInv, BesideInv, Held, VersionInv,
        OnceInv, Fresh, Waiting, JobInv, ActiveInv
<1>8. CASE Install(n)
    BY <1>8 DEF Install, Recover, Quiet, GoesTo, Nearer, PhasesLeft, PlaceLeft, HoldLeft,
        RequestInv, HandoffInv, WriteInv, SoleInv, BesideInv, Held, VersionInv, OnceInv,
        Fresh, Waiting, JobInv, ActiveInv
<1>9. CASE Launch(n)
    BY <1>9 DEF Launch, Recover, GiveUp, StartExecutable, RemoveMarker, Quiet, GoesTo,
        ProcessGone, Nearer, PhasesLeft, PlaceLeft, HoldLeft, RequestInv, HandoffInv,
        WriteInv, SoleInv, BesideInv, Held, VersionInv, OnceInv, Fresh, Waiting, JobInv,
        ActiveInv
<1>10. CASE AwaitService(n)
    BY <1>10 DEF AwaitService, Recover, GiveUp, RemoveMarker, Quiet, GoesTo, ProcessGone,
        Nearer, PhasesLeft, PlaceLeft, HoldLeft, RequestInv, HandoffInv, WriteInv, SoleInv,
        BesideInv, Held, VersionInv, OnceInv, Fresh, Waiting, JobInv, ActiveInv
<1>11. CASE Restore(n)
    BY <1>11 DEF Restore, GiveUp, Quiet, GoesTo, ProcessGone, Nearer, PhasesLeft,
        PlaceLeft, HoldLeft, RequestInv, HandoffInv, WriteInv, SoleInv, BesideInv, Held,
        VersionInv, OnceInv, Fresh, Waiting, JobInv, ActiveInv
<1>12. CASE PutBack(n)
    BY <1>12 DEF PutBack, GiveUp, Quiet, GoesTo, ProcessGone, Nearer, PhasesLeft,
        PlaceLeft, HoldLeft, RequestInv, HandoffInv, WriteInv, SoleInv, BesideInv, Held,
        VersionInv, OnceInv, Fresh, Waiting, JobInv, ActiveInv
<1>13. CASE Relaunch(n)
    BY <1>13 DEF Relaunch, GiveUp, StartExecutable, RemoveMarker, Quiet, GoesTo,
        ProcessGone, Nearer, PhasesLeft, PlaceLeft, HoldLeft, RequestInv, HandoffInv,
        WriteInv, SoleInv, BesideInv, Held, VersionInv, OnceInv, Fresh, Waiting, JobInv,
        ActiveInv
<1>14. CASE HelperTimesOut(n)
    BY <1>14 DEF HelperTimesOut, GiveUp, Quiet, GoesTo, ProcessGone, Nearer, PhasesLeft,
        PlaceLeft, HoldLeft, RequestInv, HandoffInv, WriteInv, SoleInv, BesideInv, Held,
        VersionInv, OnceInv, Fresh, Waiting, JobInv, ActiveInv
<1> QED BY <1>1, <1>2, <1>3, <1>4, <1>5, <1>6, <1>7,
           <1>8, <1>9, <1>10, <1>11, <1>12, <1>13, <1>14
    DEF ActsFor, ApplySteps, Replacement

(* What is left of a job's way never gets longer, and every act for the job  *)
(* makes it shorter.                                                         *)
Onwards ==
    \A n \in Job : Ahead(n)' <= Ahead(n) /\ (ActsFor(n) => Ahead(n)' < Ahead(n))

(* The lengths of the ways before and after a step.                          *)
LEMMA WaysShorten ==
    ASSUME IInv, RequestInv, Next
    PROVE  Onwards
<1> SUFFICES ASSUME NEW n \in Job
             PROVE  Ahead(n)' <= Ahead(n) /\ (ActsFor(n) => Ahead(n)' < Ahead(n))
    BY DEF Onwards
<1>1. PhasesLeft(n) \in 0..15 /\ HoldLeft(n) \in 0..2
    BY AheadTypes
<1>2. PhasesLeft(n)' \in 0..15 /\ HoldLeft(n)' \in 0..2
    BY DEF PhasesLeft, PlaceLeft, HoldLeft
<1>3. Closer(n)
    BY WaysGoForward
<1>4. ActsFor(n) => Nearer(n)
    BY ActsEndPhases
<1> QED BY <1>1, <1>2, <1>3, <1>4, FewerPhases DEF Ahead, Closer, Nearer

(* The invariant holds at first.                                             *)
LEMMA InitInv == Init => IInv
<1> SUFFICES ASSUME Init
             PROVE  IInv
    OBVIOUS
<1>t. 0 \in Version /\ 0 \in 0..MaxJobs /\ 0 \in 0..MaxCrashes /\ 0 \notin Job
    BY SystemUpdateAssumption DEF Version, Job
<1>1. DiskTyped
    BY <1>t DEF Init, DiskTyped
<1>2. ProgramTyped
    BY <1>t DEF Init, ProgramTyped, Processes, Handlers, NoHandler, Places
<1>3. RowsTyped /\ RestTyped
    BY <1>t DEF Init, RowsTyped, RestTyped, Statuses
<1>4. TypeOK
    BY <1>1, <1>2, <1>3, TypeParts DEF Typed
<1>5. ProcInv /\ HandoffInv
    BY <1>t DEF Init, ProcInv, HandoffInv, WriteInv, SoleInv, OneMarker, ParentInv, BesideInv,
        Held,
                NoHandler
<1>6. RecoveryInv
    BY DEF Init, RecoveryInv, PlaceInv, ExecutableIsRecoverable, NoVersion
<1>7. JobInv
    BY <1>t DEF Init, JobInv, ActiveInv, TargetInv, Active
<1>8. VersionInv
  <2>1. LatestInv /\ BackupInv /\ SuccessIsDurable
      BY DEF Init, LatestInv, BackupInv, SuccessIsDurable, Newer, NoVersion
  <2>2. WaitingInv /\ OnceInv
    <3>1. \A n \in Job : ~Waiting(n) /\ at[n] = "none"
        BY <1>t DEF Init, Waiting, NoHandler
    <3> QED BY <3>1 DEF WaitingInv, OnceInv
  <2>3. FreshInv
      BY DEF Init, FreshInv
  <2> QED BY <2>1, <2>2, <2>3 DEF VersionInv
<1> QED BY <1>4, <1>5, <1>6, <1>7, <1>8 DEF IInv

(* A step that changes nothing keeps it.                                     *)
LEMMA StutterInv == IInv /\ UNCHANGED vars => IInv'
<1> SUFFICES ASSUME IInv, UNCHANGED vars
             PROVE  IInv'
    OBVIOUS
<1> USE DEF vars, disk, files, program, rows
<1>1. TypeOK'
    BY DEF IInv, TypeOK
<1>2. ProcInv' /\ HandoffInv'
    BY DEF IInv, ProcInv, HandoffInv, WriteInv, SoleInv, OneMarker, ParentInv, BesideInv, Held,
        InProcess
<1>3. RecoveryInv'
    BY DEF IInv, RecoveryInv, PlaceInv, ExecutableIsRecoverable
<1>4. JobInv'
    BY DEF IInv, JobInv, ActiveInv, TargetInv, Active
<1>5. VersionInv'
    BY DEF IInv, VersionInv, LatestInv, WaitingInv, OnceInv, FreshInv, BackupInv,
        SuccessIsDurable,
           Newer, Waiting, Fresh
<1> QED BY <1>1, <1>2, <1>3, <1>4, <1>5 DEF IInv

(* The inductive invariant holds in every state, for any number of jobs,     *)
(* versions and crashes and in each way to restart.                          *)
THEOREM Invariant == Spec => []IInv
<1>1. IInv /\ [Next]_vars => IInv'
    BY TypesAreKept, ProcIsKept, HandoffsAreKept, RecoveryIsKept, JobsAreKept, VersionsAreKept,
       StutterInv DEF IInv
<1> QED BY InitInv, <1>1, PTL DEF Spec

(* Every variable keeps its type.                                            *)
THEOREM TypeCorrect == Spec => []TypeOK
<1>1. IInv => TypeOK
    BY DEF IInv
<1> QED BY Invariant, <1>1, PTL

(* Apply, the helpers and the process itself never replace the executable    *)
(* for two jobs at a time (manager.go, helper.go, restart-process.go).       *)
THEOREM HandoffsExclude == Spec => []OneHandoff
<1>1. IInv => OneHandoff
    BY DEF IInv, HandoffInv, SoleInv, OneMarker, OneHandoff
<1> QED BY Invariant, <1>1, PTL

(* Whatever ends or fails, a missing executable can be put back from a       *)
(* backup that reconcileArtifacts accepts.                                   *)
THEOREM ExecutableCanBeRecovered == Spec => []ExecutableIsRecoverable
<1>1. IInv => ExecutableIsRecoverable
    BY DEF IInv, RecoveryInv
<1> QED BY Invariant, <1>1, PTL

(* No rollback, late request, crash or later job takes back an update that   *)
(* was reported as succeeded (system-update.go, helper.go).                  *)
THEOREM SuccessesAreDurable == Spec => []SuccessIsDurable
<1>1. IInv => SuccessIsDurable
    BY DEF IInv, VersionInv
<1> QED BY Invariant, <1>1, PTL

(* No later job, resumption or crash changes the state of a job that has     *)
(* ended.  Only its own goroutine does, from succeeded to failed, when it    *)
(* could not write the event of the success (system-update.go:846-858, 400). *)
THEOREM FinishedJobsAreLeftAlone == Spec => FinishedJobsStay
<1>1. IInv /\ [Next]_vars => [Finished]_vars
    BY FinishedStay
<1>2. [][Finished]_vars => FinishedJobsStay
    BY PTL DEF Finished, FinishedJobsStay
<1> QED BY Invariant, <1>1, <1>2, PTL DEF Spec

(* A job's update goes forward: from the controller's row through the request*)
(* to the node, Apply, the hand-off and the replacement or its rollback no   *)
(* more than 47 steps are left, no step of any job, helper, process or       *)
(* controller, no crash and no restart sends it back, and everything that is *)
(* done for it brings it nearer to its end.  So a job is applied once and    *)
(* replaces the executable once, however late its request is and whatever    *)
(* ends in between (system-update.go, manager.go, helper.go).                *)
THEOREM UpdatesGoForward ==
    Spec => [](\A n \in Job : Ahead(n) \in 0..47) /\ [][Onwards]_vars
<1>1. Init => RequestInv
    BY DEF Init, RequestInv
<1>2. IInv /\ RequestInv /\ [Next]_vars => RequestInv'
  <2>1. IInv /\ RequestInv /\ Next => RequestInv'
      BY RequestsAreKept
  <2>2. RequestInv /\ UNCHANGED vars => RequestInv'
      BY DEF RequestInv, vars, disk, program, rows
  <2> QED BY <2>1, <2>2
<1>3. IInv /\ RequestInv /\ [Next]_vars => [Onwards]_vars
    BY WaysShorten
<1>4. \A n \in Job : Ahead(n) \in 0..47
    BY AheadTypes
<1>5. [](\A n \in Job : Ahead(n) \in 0..47)
    BY <1>4, PTL
<1> QED BY Invariant, <1>1, <1>2, <1>3, <1>5, PTL DEF Spec

====
