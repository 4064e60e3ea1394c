----------------------------- MODULE Scheduler -----------------------------
(***************************************************************************)
(* The scheduled tasks of one game server in the controller: the rows of   *)
(* the database, the jobs that gocron keeps for them, the scheduler's      *)
(* table from tasks to jobs, the calls that change them, and the           *)
(* executions, of which the restart is modelled.  A row and its job are    *)
(* changed in several steps of a call, without a lock around them; a       *)
(* restart stops the server, waits for OFFLINE and starts it, while others *)
(* stop and start the same server.                                         *)
(*                                                                         *)
(* Other task types, and a creator who has lost their rights, end an       *)
(* execution without touching any of this.  gocron is external: a job      *)
(* fires at any time, but not while its own previous run goes on           *)
(* (singleton mode), and a run goes on when its job is removed.            *)
(***************************************************************************)
CONSTANTS
    Tasks,      \* rows of scheduled_task, past and future
    Callers,    \* RPC calls at a time
    Schedules,  \* the crontabs and zones a task can have
    Jobs,       \* identities of jobs (the bound on jobs and executions at a time);
                \* one is used again when nothing is left of it
    None

ASSUME SchedulerAssumption ==
    None \notin Tasks \cup Callers \cup Schedules \cup Jobs

VARIABLES
    row,        \* scheduled_task: [state, enabled, cron]
    job,        \* the jobs of gocron: [task, cron], or NoJob
    table,      \* s.jobs: the job of a task, or None
    call,       \* the calls: [at, task, enabled, cron, job]
    exec,       \* the executions, by the job that fired: [at, task]
    server,     \* the server's process: [status, asked]; who asked it to stop
    failed,     \* scheduled_task_log: the tasks with an entry "failed" or "timed_out"
                \* of a restart since the server was last started
    unrecorded, \* history: since then a restart ended without success whose entry was
                \* not written, or has gone with its task
    disturbed   \* history: tasks with overlapping calls, a failed step, or a cascade

log == <<failed, unrecorded>>
vars == <<row, job, table, call, exec, server, log, disturbed>>

Rows == [state : {"unborn", "present", "deleted"}, enabled : BOOLEAN,
         cron : Schedules \cup {None}]
NoJob == [task |-> None, cron |-> None]
JobRecords == [task : Tasks, cron : Schedules] \cup {NoJob}

CallPoints == {"idle", "reading", "taking", "removing", "creating", "adding", "recording"}
Calls == [at : CallPoints, task : Tasks \cup {None}, enabled : BOOLEAN,
          cron : Schedules \cup {None}, job : Jobs \cup {None}]
NoCall == [at |-> "idle", task |-> None, enabled |-> FALSE, cron |-> None, job |-> None]

ExecPoints == {"idle", "fired", "checking", "confirmed", "stopping", "waiting", "starting"}
Execs == [at : ExecPoints, task : Tasks \cup {None}]
NoExec == [at |-> "idle", task |-> None]

(* BUSY is every status of a process that is not ONLINE: PRE_START,         *)
(* INSTALLING, UPDATING.  A user's stop counts before the scheduler's.      *)
Servers == [status : {"OFFLINE", "BUSY", "ONLINE"},
            asked : {"nobody", "schedule", "user"}]

Enabled(t) == row[t].state = "present" /\ row[t].enabled
CallsOn(t) == {c \in Callers : call[c].at # "idle" /\ call[c].task = t}
JobsOf(t) == {k \in Jobs : job[k] # NoJob /\ job[k].task = t}
Free(k) == job[k] = NoJob /\ exec[k] = NoExec

(* The executions that have the server stopped, or on its way to it.        *)
Restarting == {k \in Jobs : exec[k].at \in {"stopping", "waiting", "starting"}}

Init ==
    /\ row = [t \in Tasks |-> [state |-> "unborn", enabled |-> FALSE, cron |-> None]]
    /\ job = [k \in Jobs |-> NoJob]
    /\ table = [t \in Tasks |-> None]
    /\ call = [c \in Callers |-> NoCall]
    /\ exec = [k \in Jobs |-> NoExec]
    /\ server \in [status : {"OFFLINE", "ONLINE"}, asked : {"nobody"}]
    /\ failed = {} /\ unrecorded = FALSE
    /\ disturbed = {}

-----------------------------------------------------------------------------
(* The calls.  Each begins with its write to the database.                  *)

Others == <<exec, server, log>>

(* The log of a task is deleted with its row.                               *)
DeleteRow(t) ==
    /\ row' = [row EXCEPT ![t] = [state |-> "deleted", enabled |-> FALSE, cron |-> None]]
    /\ failed' = failed \ {t}
    /\ unrecorded' = (unrecorded \/ t \in failed)

Begin(c, t, new) ==
    /\ call[c].at = "idle"
    /\ call' = [call EXCEPT ![c] = new]
    /\ disturbed' = IF CallsOn(t) = {} THEN disturbed ELSE disturbed \cup {t}
    /\ UNCHANGED <<job, table, exec, server>>

CreateScheduledTask(c, t, enabled, cron) ==
    /\ row[t].state = "unborn"
    /\ row' = [row EXCEPT ![t] = [state |-> "present", enabled |-> enabled, cron |-> cron]]
    /\ UNCHANGED log
    /\ Begin(c, t, IF enabled THEN [at |-> "creating", task |-> t, enabled |-> TRUE,
                                    cron |-> cron, job |-> None]
                              ELSE NoCall)

UpdateScheduledTask(c, t, enabled, cron) ==
    /\ row[t].state = "present"
    /\ row' = [row EXCEPT ![t].enabled = enabled, ![t].cron = cron]
    /\ UNCHANGED log
    /\ Begin(c, t, [at |-> "reading", task |-> t, enabled |-> FALSE, cron |-> None,
                    job |-> None])

DeleteScheduledTask(c, t) ==
    /\ row[t].state = "present"
    /\ DeleteRow(t)
    /\ Begin(c, t, [at |-> "taking", task |-> t, enabled |-> FALSE, cron |-> None,
                    job |-> None])

(* db.UpdateScheduledTask returns the row it reads after its write.         *)
(* Mistake: the job of the old schedule is not removed.                     *)
ReadBackMistake(c) ==
    LET t == call[c].task IN
    /\ call[c].at = "reading"
    /\ row[t].state = "present"
    /\ call' = [call EXCEPT ![c] =
          IF row[t].enabled THEN [@ EXCEPT !.at = "adding", !.enabled = TRUE, !.cron = row[t].cron]
                            ELSE NoCall]
    /\ UNCHANGED <<row, job, table, disturbed, Others>>

ReadBack(c) ==
    LET t == call[c].task IN
    /\ call[c].at = "reading"
    /\ row[t].state = "present"
    /\ call' = [call EXCEPT ![c].at = "taking", ![c].enabled = row[t].enabled,
                            ![c].cron = row[t].cron]
    /\ UNCHANGED <<row, job, table, disturbed, Others>>

(* The row is gone, or cannot be read: the call fails, the job stays.       *)
ReadBackFails(c) ==
    /\ call[c].at = "reading"
    /\ call' = [call EXCEPT ![c] = NoCall]
    /\ disturbed' = disturbed \cup {call[c].task}
    /\ UNCHANGED <<row, job, table, Others>>

(* Where a call goes on when RemoveTask has returned.                       *)
Removed(c) ==
    IF call[c].enabled THEN [call[c] EXCEPT !.at = "adding", !.job = None] ELSE NoCall

(* RemoveTask under s.mu.  Mistake: a job is removed for no entry as well.  *)
TakeEntryMistake(c) ==
    LET t == call[c].task IN
    /\ call[c].at = "taking"
    /\ call' = [call EXCEPT ![c].at = "removing", ![c].job = table[t]]
    /\ table' = [table EXCEPT ![t] = None]
    /\ UNCHANGED <<row, job, disturbed, Others>>

TakeEntry(c) ==
    LET t == call[c].task IN
    /\ call[c].at = "taking"
    /\ call' = [call EXCEPT ![c] = IF table[t] = None THEN Removed(c)
                                   ELSE [@ EXCEPT !.at = "removing", !.job = table[t]]]
    /\ table' = [table EXCEPT ![t] = None]
    /\ UNCHANGED <<row, job, disturbed, Others>>

RemoveJob(c) ==
    /\ call[c].at = "removing"
    /\ job' = [job EXCEPT ![call[c].job] = NoJob]
    /\ call' = [call EXCEPT ![c] = Removed(c)]
    /\ UNCHANGED <<row, table, disturbed, Others>>

(* addJob: gocron's NewJob, then the entry under s.mu.                      *)
NewJob(c) ==
    /\ call[c].at \in {"creating", "adding"}
    /\ \E k \in Jobs :
          /\ Free(k)
          /\ job' = [job EXCEPT ![k] = [task |-> call[c].task, cron |-> call[c].cron]]
          /\ call' = [call EXCEPT ![c].at = "recording", ![c].job = k]
    /\ UNCHANGED <<row, table, disturbed, Others>>

RecordEntry(c) ==
    /\ call[c].at = "recording"
    /\ table' = [table EXCEPT ![call[c].task] = call[c].job]
    /\ call' = [call EXCEPT ![c] = NoCall]
    /\ UNCHANGED <<row, job, disturbed, Others>>

(* A new task is deleted again, unless that fails too; a changed one stays,  *)
(* and its caller is told.                                                  *)
NewJobFails(c) ==
    LET t == call[c].task IN
    /\ call' = [call EXCEPT ![c] = NoCall]
    /\ \/ /\ call[c].at = "creating"
          /\ DeleteRow(t)
          /\ UNCHANGED disturbed
       \/ /\ call[c].at \in {"creating", "adding"}
          /\ disturbed' = disturbed \cup {t}
          /\ UNCHANGED <<row, log>>
    /\ UNCHANGED <<job, table, exec, server>>

CallStep(c) ==
    \/ \E t \in Tasks :
          \/ \E enabled \in BOOLEAN, cron \in Schedules :
                \/ CreateScheduledTask(c, t, enabled, cron)
                \/ UpdateScheduledTask(c, t, enabled, cron)
          \/ DeleteScheduledTask(c, t)
    \/ ReadBack(c) \/ ReadBackFails(c) \/ TakeEntry(c) \/ RemoveJob(c)
    \/ NewJob(c) \/ RecordEntry(c) \/ NewJobFails(c)

(* Rows go with their game server, or with a user, without a call that      *)
(* knows them: the job stays, and finds no row.                             *)
RowCascades(t) ==
    /\ row[t].state = "present"
    /\ DeleteRow(t)
    /\ disturbed' = disturbed \cup {t}
    /\ UNCHANGED <<job, table, call, exec, server>>

(* The controller ends, with its calls, jobs and executions, and starts     *)
(* again: Start adds a job for each enabled row, and skips those gocron     *)
(* refuses.  Executions that the shutdown has told to end are TimesOut.     *)
ControllerRestarts ==
    /\ \E chosen \in [Tasks -> Jobs \cup {None}] :
          /\ \A t \in Tasks : chosen[t] # None => Enabled(t)
          /\ \A t, u \in Tasks : chosen[t] = chosen[u] /\ t # u => chosen[t] = None
          /\ table' = chosen
          /\ job' = [k \in Jobs |->
                IF \E t \in Tasks : chosen[t] = k
                THEN LET t == CHOOSE u \in Tasks : chosen[u] = k
                     IN  [task |-> t, cron |-> row[t].cron]
                ELSE NoJob]
          /\ disturbed' = {t \in Tasks : Enabled(t) /\ chosen[t] = None}
    /\ call' = [c \in Callers |-> NoCall]
    /\ exec' = [k \in Jobs |-> NoExec]
    /\ unrecorded' = (unrecorded \/ Restarting # {})
    /\ UNCHANGED <<row, server, failed>>

-----------------------------------------------------------------------------
(* The executions.                                                          *)

Store == <<row, job, table, call, disturbed>>

Fire(k) ==
    /\ job[k] # NoJob
    /\ exec[k] = NoExec
    /\ exec' = [exec EXCEPT ![k] = [at |-> "fired", task |-> job[k].task]]
    /\ UNCHANGED <<server, log, Store>>

Move(k, from, to) ==
    /\ exec[k].at = from
    /\ exec' = [exec EXCEPT ![k].at = to]
    /\ UNCHANGED Store

(* InsertScheduledTaskLog of a restart without success.  It may fail, and   *)
(* does when the task has been deleted meanwhile: the entry refers to it.   *)
Log(t) ==
    \/ row[t].state = "present" /\ failed' = failed \cup {t} /\ UNCHANGED unrecorded
    \/ unrecorded' = TRUE /\ UNCHANGED failed

(* executeTask returns; whether its entry was written changes nothing.      *)
End(k, from, success) ==
    /\ exec[k].at \in from
    /\ exec' = [exec EXCEPT ![k] = NoExec]
    /\ IF success THEN UNCHANGED log ELSE Log(exec[k].task)
    /\ UNCHANGED <<server, Store>>

(* The row is read when the job fires; whatever the job was made for.       *)
Load(k) ==
    \/ /\ Move(k, "fired", "checking")
       /\ Enabled(exec[k].task)
       /\ UNCHANGED <<server, log>>
    \/ End(k, {"fired"}, TRUE)

(* The creator may not, the server cannot be found, or is not ONLINE or not *)
(* known to be.                                                             *)
Refuse(k) == End(k, {"checking"}, TRUE)

Confirm(k) ==
    /\ server.status = "ONLINE"
    /\ Move(k, "checking", "confirmed")
    /\ UNCHANGED <<server, log>>

(* StopGameServer: the node signals whatever process there is now.          *)
StopReaches(k) ==
    /\ server.status # "OFFLINE"
    /\ server' = [server EXCEPT !.asked = IF @ = "user" THEN @ ELSE "schedule"]
    /\ Move(k, "confirmed", "stopping")
    /\ UNCHANGED log

StopFindsNothing(k) ==
    /\ server.status = "OFFLINE"
    /\ Move(k, "confirmed", "waiting")
    /\ UNCHANGED <<server, log>>

StopReturns(k) ==
    /\ Move(k, "stopping", "waiting")
    /\ UNCHANGED <<server, log>>

StopFails(k) == End(k, {"confirmed", "stopping"}, FALSE)

SeenOffline(k) ==
    /\ server.status = "OFFLINE"
    /\ Move(k, "waiting", "starting")
    /\ UNCHANGED <<server, log>>

(* Mistake: each poll makes a new deadline.                                 *)
TimesOutMistake(k) ==
    /\ exec[k].at = "waiting"
    /\ UNCHANGED vars

TimesOut(k) == End(k, {"waiting"}, FALSE)

Started == [status |-> "BUSY", asked |-> "nobody"]

Start ==
    /\ server.status = "OFFLINE"
    /\ server' = Started
    /\ failed' = {} /\ unrecorded' = FALSE

StartIssued(k) ==
    /\ exec[k].at = "starting"
    /\ Start
    /\ exec' = [exec EXCEPT ![k] = NoExec]
    /\ UNCHANGED Store

(* The start is refused, or nothing comes of it; or its answer is lost.     *)
(* Mistake: the log says success.                                           *)
StartFailsMistake(k) == End(k, {"starting"}, TRUE)

StartFails(k) == End(k, {"starting"}, FALSE)

StartAnswerLost(k) ==
    /\ exec[k].at = "starting"
    /\ server.status = "OFFLINE"
    /\ server' = Started
    /\ exec' = [exec EXCEPT ![k] = NoExec]
    /\ \/ row[exec[k].task].state = "present" /\ failed' = {exec[k].task} /\ unrecorded' = FALSE
       \/ failed' = {} /\ unrecorded' = TRUE
    /\ UNCHANGED Store

ExecutionStep(k) ==
    \/ Load(k) \/ Refuse(k) \/ Confirm(k)
    \/ StopReaches(k) \/ StopFindsNothing(k) \/ StopReturns(k) \/ StopFails(k)
    \/ SeenOffline(k) \/ TimesOut(k)
    \/ StartIssued(k) \/ StartFails(k) \/ StartAnswerLost(k)

-----------------------------------------------------------------------------
(* The server, and everybody else who starts, stops and updates it.         *)

(* A user starts the server, auto-restart does, or an update begins.        *)
UserStarts == Start /\ UNCHANGED <<exec, Store>>

GoesOnline ==
    /\ server.status = "BUSY"
    /\ server' = [server EXCEPT !.status = "ONLINE"]
    /\ UNCHANGED <<exec, log, Store>>

UserStops ==
    /\ server.status # "OFFLINE"
    /\ server' = [server EXCEPT !.asked = "user"]
    /\ UNCHANGED <<exec, log, Store>>

Exits ==
    /\ server.status # "OFFLINE"
    /\ server' = [server EXCEPT !.status = "OFFLINE"]
    /\ UNCHANGED <<exec, log, Store>>

ServerStep == UserStarts \/ GoesOnline \/ UserStops \/ Exits

Next ==
    \/ \E c \in Callers : CallStep(c)
    \/ \E t \in Tasks : RowCascades(t)
    \/ ControllerRestarts
    \/ \E k \in Jobs : Fire(k) \/ ExecutionStep(k)
    \/ ServerStep

Spec == Init /\ [][Next]_vars

(* An execution that can go on does: its calls to the node have timeouts,   *)
(* and its wait a deadline.  Nobody has to call, and the server need not    *)
(* obey a stop.                                                             *)
FairSpec == Spec /\ \A k \in Jobs : WF_vars(ExecutionStep(k))

-----------------------------------------------------------------------------
TypeOK ==
    /\ row \in [Tasks -> Rows]
    /\ job \in [Jobs -> JobRecords]
    /\ table \in [Tasks -> Jobs \cup {None}]
    /\ call \in [Callers -> Calls]
    /\ exec \in [Jobs -> Execs]
    /\ server \in Servers
    /\ failed \subseteq Tasks /\ unrecorded \in BOOLEAN
    /\ disturbed \subseteq Tasks
    /\ \A t \in Tasks : row[t].state = "present" => row[t].cron \in Schedules
    /\ \A c \in Callers :
          /\ call[c].at # "idle" => call[c].task \in Tasks
          /\ call[c].at \in {"removing", "recording"} => call[c].job \in Jobs
          /\ call[c].enabled \/ call[c].at \in {"creating", "adding"}
                => call[c].cron \in Schedules
    /\ \A k \in Jobs : exec[k].at # "idle" => exec[k].task \in Tasks

(* When no call is changing a task, gocron has exactly one job for it,      *)
(* which s.jobs can find, with the schedule of the row, if the task is      *)
(* enabled, and none if it is disabled or deleted: whatever executions,     *)
(* calls on other tasks and restarts of the controller come in between.     *)
(* (Calls that overlapped on the task itself, and failures the caller was   *)
(* told of, are excluded until the next restart.)                           *)
SchedulesMatchRows ==
    \A t \in Tasks \ disturbed : CallsOn(t) = {} =>
        IF Enabled(t)
        THEN /\ table[t] # None
             /\ JobsOf(t) = {table[t]}
             /\ job[table[t]].cron = row[t].cron
        ELSE table[t] = None /\ JobsOf(t) = {}

(* A scheduled restart gives a server it has stopped back, or takes itself  *)
(* for failed: as long as a server is OFFLINE that only scheduled restarts  *)
(* have asked to stop, one of them is still at it, or the log of a task     *)
(* says that one did not succeed, or would say so: executeTask goes on when *)
(* the entry cannot be written, entries go with their task, and a restart   *)
(* may end with the controller.  (Restarts of several jobs, users, updates  *)
(* and deletions of the task may come in between.)                          *)
RestartsBringServersBack ==
    server.status = "OFFLINE" /\ server.asked = "schedule"
        => Restarting # {} \/ failed # {} \/ unrecorded

(* Every execution ends, whether the server obeys its stop or not: a job    *)
(* in singleton mode would never fire again.                                *)
ExecutionsEnd ==
    \A k \in Jobs : exec[k].at # "idle" ~> exec[k].at = "idle"

=============================================================================
