# Xylona in TLA+

Specifications of the core of Xylona, a self-hosted control panel for game servers: what
happens between the moment somebody asks for a server to be started or stopped and the
moment every part of the controller knows how it ended; the scheduled tasks that restart it,
the update of a server's files, and the update of the program itself. The modules are
translated from the Go code; `PROJECT.json` maps each definition to the lines it stands for.
They are checked with TLC on small instances and, where it says so, proved with TLAPS for
all of them.

## 1. The system

A **controller** (`cmd/xylona`) serves the web interface, keeps the database
and decides; **nodes** (`cmd/xylona-node`, and one embedded in the controller)
run the game servers. Paths below are relative to `internal/`.

| Component | State it keeps | Operations | Interacts with | What is hard |
|---|---|---|---|---|
| process supervision, `node/supervisor` | per command: generation, status, attached process, intent flag, exit details, transition sequence; mutexes of the instance and of the execution | StartCommand, Stop, readiness, finalization, console placeholder | the operating system; every reader of status events | three goroutines per execution, two callers, four mutexes, several critical sections per transition |
| node process operations, `node/process.go` | one mutex per server directory | StartProcess, StopProcess, GetProcessSnapshot | supervisor | the directory is read before it is locked; snapshots are read in two parts |
| node event stream, `node/events.go` | latest status event per process, one buffered channel per subscriber | Publish, SubscribeWithReplay, Unsubscribe | StreamEvents RPC | full buffers, replay and live events in one order |
| remote event bridge, `controller/api/events` | one goroutine per node, a cursor per process | Start, OnRegister, OnRemove, republish | node registry, node RPC, event bus, database | reconnects, duplicates, replacement without waiting |
| auto-restart, `controller/actions/auto-restart.go` | attempt counter and last start per server, stop intents, one-shot exit hooks | onStatusChanged, handleServerExit | event bus, start and stop actions | delayed restarts against user actions, intents that expire |
| game server actions, `controller/actions/actions.go` | an operation lock per server | Start, Stop, Install, Update, Remove | node clients, database | partial failures between node and database |
| update service, `controller/actions/update_service.go` | `.update-backup` on the node | backup, update, verify, roll back | node files, bus, snapshots | crash between steps, indeterminate completion |
| scheduler, `scheduler` | task to job table | AddTask, UpdateTask, RemoveTask, executeTask | gocron, actions | concurrent updates, stop-wait-start |
| self-update, `selfupdate`; system update jobs, `db`, `controller/api/rpc` | staged artifacts, pending hand-off, job rows | Stage, Apply, helper, resume | file system, child process, database | crashes at every step |
| alerts, `alerts` | rules, delivery channel | evaluate, deliver | event bus, webhooks, mail | full channel, shutdown drain |
| websocket, `controller/api/websocket` | sessions, console stream tokens | subscribe, stream, broadcast | node clients, bus | replaced streams, replay |
| event bus, `eventbus` | buffered channels per topic | Publish, Subscribe | everyone above | drops when full |
| node registry, `noderegistry` | clients by node | Register, Remove | bridge | observers called outside the lock |

The rest (files and archives, configuration parsing, mod manager, version
lookups, DNS records, webhooks, mail, user management, first-run setup, the
frontend) keeps no shared state whose interleavings matter; `PROJECT.json` lists
each with the reason it is not modelled.

What makes the parts correct: at most one process per server and never one that
nobody supervises; a stop the user asked for is never undone by auto-restart; a
crash is reported once and agrees with its event; status events form one
history, the same for every reader, local or remote; no call blocks for ever;
an update either completes or can be rolled back from what is on disk, and says
truly which; the program's own executable is never lost; a task has exactly one job,
and a scheduled restart brings its server back or counts as failed.

## 2. Modules

| Module | Models |
|---|---|
| `ExecutionLog` | the abstract specification: the status history a command promises its readers |
| `Supervisor` | one supervised command: start and stop calls, the goroutines of its executions, its process, its events, snapshot readers; implements `ExecutionLog` |
| `SupervisorProofs` | the inductive invariant of `Supervisor` and its first theorems |
| `SupervisorHistoryProofs` | what `Supervisor` records and publishes: a second invariant, the other safety properties and the refinement of `ExecutionLog` |
| `EventStream` | the events of one remote process from the emitter through broken connections to the controller's bus |
| `EventStreamProofs` | the inductive invariant of `EventStream` and its theorems |
| `AutoRestart` | one server in the controller: the calls of its users, the auto-restart subscriber, the register of stop intents, the install hook, pending restarts |
| `AutoRestartProofs` | the inductive invariant of `AutoRestart` and its theorems |
| `UpdateService` | one server's files through its updates: backup, staged update or update command on the node, the wait for its end, restart, cleanup, rollback |
| `UpdateServiceProofs` | an inductive invariant of `UpdateService`'s disk and the recoverability of the originals |
| `UpdateServiceOutcomeProofs` | a second invariant, of exits and outcomes: what `UpdateService` reports is true |
| `SystemUpdate` | the update of the controller or of a node: jobs, staged artifacts, the hand-off, the replacement of the executable, what a start of the program settles |
| `SystemUpdateProofs` | the inductive invariant of `SystemUpdate` and its theorems |
| `Scheduler` | the scheduled tasks of one server: rows, jobs, the table between them, the calls that change them, the scheduled restarts |
| `SchedulerProofs` | the inductive invariant of `Scheduler` and its theorems |
| `MCSupervisor`, `MCEventStream`, `MCAutoRestart`, `MCUpdateService`, `MCSystemUpdate`, `MCScheduler` | instances for TLC |

Operators described as "Mistake" are plausible wrong versions of the definition
that follows them. They are used by nothing in the specification; replacing the
right definition by the wrong one makes the property named beside it in
`PROJECT.json` fail, which shows that the property looks at that code.

### Supervisor

`cmd` is the `Command`: what `GetCommandByID` would find and the fields the
lifecycle depends on. `attached` stands for "`currentCMD` or `currentPTYCMD` is
not nil". `generation` is `processGeneration`; execution *n* has the executionID
*n*, since the node makes a fresh one for each start. `run[n]` is execution *n*:
where its goroutine `startAndWaitForJob` is (`pc`), where `awaitReadiness` is
(`ready`), the operating system's process (`proc`), whether `processCtx` is
cancelled, whether `finalizationDone` is closed, and two history fields: whether
a stop asked it to exit and which exit code a crash alert carried.

Mutexes are variables (`instLock`, `execLock`, `dirLock`) and an action lies
between two points at which another goroutine can be seen. So `prepareCommandProcess` is
five actions (lookup, taking `executionMutex`, refusing or opening the
execution, setup, return), `finalizeExecution` four, `markReady` three and
`Command.Stop` three. `Command.RWMutex` is not a variable: each of its critical
sections is a step, and nothing blocks inside one. The instance mutex's read side is taken for
one map lookup and is the guard `instLock = Free`.

A start is one of five kinds: plain, with a readiness signal, an update, an
internal command (runs inside the node, no process) and a companion (status
events suppressed). `SpawnFails` covers every error before the process runs;
`SetupFails` those of pipes and pseudo-terminals. A process may end by itself
at any time, cleanly, with an error code or by a signal.

Two details that are easy to miss and are modelled: the intent flag is atomic
and read separately by `lifecycleExitDetails`, `reportUnexpectedProcessExit` and
the publication of the event; and a stop returns after its grace period without
waiting for the process it has just cancelled.

### EventStream

`Publish` is the emitter's critical section: retain the event, then offer it to
each subscriber, closing the channel of one that has no room. A goroutine of the
bridge dials, receives what `SubscribeWithReplay` queued, takes events from the
connection and republishes those that its cursor does not know. `Break` loses what
is between the two ends; `NodeRestarts` loses the retained event too.
`StartForClient` replaces the goroutine and does not wait for it. `republish` drops an
event, and leaves its cursor alone, when the server's row names another node
(`MoveServer` moves the server there and back) and also when the row cannot be read
(`LookupFails`). The numbers in `number` and `boot` are history, invisible to the code,
and so is `lost`, the number of the last event that each goroutine has dropped.

The events of the process are those `ExecutionLog` allows for a start with a
readiness signal. The buffer of the client's end (64 events) only delays the
reader, so `arrived` is unbounded.

### AutoRestart

`thread` holds every goroutine that works on the server: the users' calls, one
automatic restart per execution whose exit was answered with one, and the
install hook. All of them start the server through the same actions, those of
`StartGameServer`: the row is loaded, a configuration or another error ends the
call, the node launches the process, the intent is cleared (`ClearIntent`), the
start is recorded (`RecordStarted`). `LaunchUnanswered` is a start whose answer
from a remote node is lost. A stop marks the intent, reaches a live process, an
idle one (success, the intent stays) or an unknown one (success, withdrawn), or
fails (withdrawn). A restart holds `operation`, the reserved lifecycle
operation; plain starts and stops do not ask for it, in the code neither.

`HandleOffline` is `onStatusChanged`; `IgnoreExit`, `GiveUp` and
`ScheduleRestart` are the outcomes of `handleServerExit`, a step of its own since
the row and the counter are read under other locks. Only OFFLINE
events are on `bus`, as the code ignores all others. `AutoRestartEnabled` may be
switched at any time, so it is not a variable: each read returns either value.
Time has two steps: `IntentExpires` (30 s) and `StableWindowPasses` (5 min), which
needs calls, events and the first one-second pause to be over; a later
cooldown may last that long (30 s doubled four times by default). `reports` tells nodes
that send the intent and the execution ID from older ones. `settled`,
`disturbed` and `answer` are history.

### UpdateService

Files are what the update's payload names, the paths 1..`Paths` in the order of
their names; the content of a file is the version that wrote it. Operation *n*
of the controller installs version *n*. `live` is the server's directory,
`saved` the copies in `.update-backup` (only of `Covered`, the existing paths
`shouldBackupUpdateFile` accepts; copying fills a directory that is then renamed,
so its content counts as read at `PromoteBackup`), `kept` and the manifest
(`hasManifest`, `existed`) the transaction of a staged update, which lives in
`.update-backup/.internal-update`.

`op` is the controller's operation with the place it has reached; each call that changes
something on the node is a step that may succeed, fail, or succeed with its answer lost.
`updater` is the update's code on the node, which goes on when the controller ends: a staged
update writes its manifest and then, path by path, moves the original aside
(`RetainOriginal`) and the staged file in its place (`PromoteStaged`); when one of them
fails it undoes what it has done. An update command overwrites the files in any order. Of
those that are not covered there is no backup: a rollback leaves them as the command did,
and nothing is promised for them. The end of an update reaches the operation by an event
(`ReceiveExit`), by a snapshot (`PollExit`) or not at all (`GiveUpWaiting`). The rollback
undoes the transaction entry by entry from its manifest, or copies the backup back. Users
start the server, and it ends, at any time that the node allows it. `ControllerCrash` and
`NodeCrash` may come between any two steps.

`base`, `verified` and `abandoned` are history: the files when the backup was
made, whether the update it belongs to was found good, and whether the rollback
began while the update's code was still running. The code stops nothing before it
rolls back (after a lost answer, an indeterminate snapshot, or six hours), so that two
writers are at work on the same files; the properties exclude such rollbacks.

### SystemUpdate

One program, the controller or a node (`component`), on one machine. The disk has
the executable, and per job a backup beside it, an install candidate, a marker
and a staged artifact; a marker may be `torn`, as `writeJSON` can leave it.
`proc` is the program with the version of its code, `handler` the call of `Apply`
that holds `artifactMu`, `handoff` the job whose hand-off the process has
accepted (`pendingRestart`, or the shutdown that a ready helper waits for), and
`at[n]` where the replacement is: in a helper that outlives the program,
or in the program itself when it restarts in process (`CompleteSelfUpdate`). The two share
`MoveAside`, `Install`, `Restore` and `PutBack`; they differ in who starts what,
and in when the marker goes. There are four ways to restart: in process, a
helper that starts the program, a Windows service, another service manager.

`Reconcile` is `reconcileArtifactsPreserving`, which a start of the program, `Stage` and
`Apply` all run first. `Orphaned`, `Pending`, `Restored`, `KeptBackups` and `KeptStages` are
its decisions in their order. The jobs are those of one target: their unique index lets only
the last one be active. `runner` is the goroutine of the job; for a node it polls the
version until its deadline, and a request of `ApplySelfUpdate` may arrive after the
controller has given up. `recordSystemUpdateProgress` writes the row of a job and then an
event; when the second write fails, `runSystemUpdateJob` takes the job for failed and writes
that over "succeeded" (`retracting`, `Retract`). `Resume` judges the jobs when a controller
starts; an event it cannot write is only logged.

What the model takes for granted: the unique index; that writing the row of a job does not
fail (a job whose last row cannot be written stays active, with a line in the log, until the
controller starts again); that a request dies with the node's process; that a child that is
killed is gone. What `AbandonHandoff` cannot remove stays on the disk. `HelperTimesOut` is
for nodes only, since the controller's shutdown watchdog (14 min) is shorter than the
helper's wait (15 min). A marker only reaches the age of 16 minutes when nobody works on it,
as a helper does not last that long. Two assumptions matter: `HostStarts` is not taken while
a replacement is under way (README.md:186 asks a service manager to restart the program
after the replacement), and a Windows service that reaches Running is seen by the helper (it
asks four times a second) before the service has gone through its own start. Without either,
a start can find the new version installed, take the hand-off for done
(`pendingHandoffMatchesCurrent`) and report the job, and the helper can still roll back.

### Scheduler

A task is a row of the database (`row`), a job of gocron (`job`) that fires on the
row's schedule, and the scheduler's entry from one to the other (`table`, the map
`jobs`). `call` holds the RPC calls. Each writes its row first (`CreateScheduledTask`,
`UpdateScheduledTask`, `DeleteScheduledTask`), and then changes the job in steps between which
others may come: an update reads the row back (`ReadBack`), takes the entry under
`s.mu` (`TakeEntry`), removes the job it named (`RemoveJob`), makes a new one
(`NewJob`) and enters it (`RecordEntry`). Every one of them that can fail may, and what the
code does then is `ReadBackFails` and `NewJobFails`. Rows also vanish with their server
or user (`RowCascades`). The removal of a user, which deletes the user's tasks one by one, is a
`DeleteScheduledTask` per task.

`exec[k]` is the execution that job `k` has started; gocron's singleton mode allows one per
job, but that of a removed job goes on beside that of its successor. It reads the row again,
the status, stops the server, polls until it is OFFLINE (30 s), and starts it. The
executions never touch the rows and jobs, the calls never the server, except that the
controller ends with all of them (`ControllerRestarts`). `server.asked` is who asked the
running process to stop; a user's wish counts before a scheduled one. Whoever else starts
the server (a user, auto-restart, an update) is `UserStarts`. `failed` is the part of
`scheduled_task_log` that matters: the tasks with an entry "failed" or "timed_out" since the
server's last start. An entry refers to its task and is deleted with it (`DeleteRow`),
cannot be written once the task is gone, and may fail to be written at any time (`Log`); the
code then goes on with a line in the program's log. `unrecorded` is history: a restart has
failed and has no such entry, or the controller ended with it (a shutdown logs that, a kill
does not). `disturbed` is history: the tasks with overlapping calls, a failed step that left
row and job apart, or a cascade, until the controller starts again.

A job's identity is used again when its job and execution are gone, which only
bounds how many there are at a time. Console-command and backup tasks end
an execution like one that has been refused.

## 3. Runs

| Run | Bounds | States | Shows |
|---|---|---|---|
| `supervisor_safety` | 2 executions, 1 start caller, 1 stop caller, kinds readiness, update, internal, companion, a shutdown | 1.9 M | the seven safety properties of section 4 |
| `supervisor_liveness` | 2 executions, plain, console placeholder | 60 k | no call blocks, stopped executions end |
| `supervisor_snapshots` | the same with one reader | 1.6 M | a snapshot that says "completed" is right |
| `supervisor_torn_snapshot` | 2 executions, one reader | violation | finding 1 |
| `supervisor_crash_parity` | 2 executions | violation | finding 2 |
| `supervisor_shell_stop` | 2 executions, placeholder | violation | finding 3 |
| `event_stream` | 1 execution, buffer 1, two goroutines, 2 faults or moves | 0.4 M | order, no silent gap, replaced goroutines end, up to date in the end |
| `auto_restart` | 3 executions, 2 user calls, 2 retries | 6.4 M | the six properties of section 4 |
| `auto_restart_early_exit` | 3 executions, no user call, 2 retries | violation | finding 4 |
| `update_service` | 3 files (one new, one not covered), 2 updates, staged or command, both sides crash | 0.7 M | the six properties of section 4 |
| `system_update` | controller or node, 4 restart modes, 3 jobs, 2 later versions, 2 crashes | 0.5 M | the seven properties of section 4 |
| `scheduler` | 1 task, 1 call at a time, 2 schedules, 2 jobs | 0.3 M | the four properties of section 4 |

Why the bounds are enough. Two executions are what a race between an old and a new one
needs; a third adds nothing that does not happen between the first two. Start calls on one
directory are serialised by its mutex, so a second caller only waits where the first one
would call again. A stop caller may call again too. A buffer of one is full after one event,
as 1024 is after 1024. Two faults allow a break during the recovery from a break, a lookup
that fails on a replayed event, and a server that is moved away and back. One execution has
three events, enough to overflow the buffer, to be replayed and to be known already; that a
cursor tells events of different executions apart is proved for any number of them (section
5), and TLC checked three with one goroutine. In `auto_restart` three executions are one
more than the retries, so that the limit is reached, passed by a mistake, and interrupted by
a stable run; the controller may find the server running, and two calls then race with each
other and with everything the exits set off. In `update_service` the three files are the
three ways a path can be treated, and the second update is what meets the leftovers of the
first. In `system_update` the third job is what tells "the newest backup" from "the other
one", and two crashes allow one during the recovery from another. In `scheduler` two jobs
are an old one whose execution still runs and its successor; a second caller could only act
on the same task, which the property excludes, and TLC checked the inductive invariant with
two. Deadlock is not checked as an error, because a command that is OFFLINE with all
executions used is a normal end; the liveness properties cover blocking.

**Fairness.** A goroutine that can go on does. Where its step waits for a mutex it is strong
fairness: `sync.Mutex` switches to starvation mode and hands the lock to the longest waiter.
A process whose context is cancelled is killed and exits (weak). Nothing else is fair:
nobody has to call, a process does not have to obey a stop, a readiness signal need not
come. In `EventStream` the bridge retries for ever, so a connection attempt eventually
succeeds; faults are bounded, which is the assumption that the network is quiet for long
enough. In `UpdateService` only the steps of the controller's operation are fair: each of
its waits has a timer, and nothing is asked of the node, the update or the server. In
`SystemUpdate` the job's goroutine, `Apply`, the shutdown it asks for, the replacement and
the start of the program's own code are fair; of the starts by somebody else only that of a
service manager is. In `Scheduler` the executions are fair: their calls to a node have
timeouts (`nodetls.DefaultClientTimeout`; an embedded node returns as `StopReturns` shows)
and their wait has a deadline; the server need not obey, and nobody has to call.

## 4. What is checked

- For `Supervisor`: `LiveProcessIsSupervised` (no orphan, no twin, none shown OFFLINE),
  `StopIsReportedAsIntended` (what auto-restart relies on), `CrashAgreesWithEvent`,
  `ClosedMeansOver` (what a stop's caller may rely on), `RetainedLifecycleIsTheLastEvent`,
  `OldExecutionsAreInert`, `RefinesExecutionLog`, `CompletionSnapshotIsSound`; under
  fairness `StartReturns`, `StopReturns`, `StoppedExecutionsEnd`.
- For `EventStream`: `PublishedInOrder`, `NoSilentGap` (what is missing between two events
  of a goroutine was lost at a reconnect or with the node, or the goroutine dropped it
  itself right before), `ReplacedBridgesEnd`, and under fairness `EventuallyCurrent` (the
  bus learns the state the process is in, unless it is the goroutine's own dropped event
  that says so).
- For `AutoRestart`: `StoppedServersAreNotRestarted` (on a node that reports the intent,
  whatever other calls do to the register), `CrashIsNotMistakenForStop` (an intent left
  behind does not reach the next execution), `HookBelongsToTheInstaller`,
  `RetriesAreBounded`, `BlockedStartsAreNotRetried`. The last two relate the exits of
  several executions. `RetriesAreBounded` counts only executions whose start was recorded
  before their exit was handled; finding 4 is about the others.
- For `UpdateService`: `OriginalsAreRecoverable` (whatever ends where, a complete restore
  would give back every original), `RollbackTellsTheTruth`, `SuccessMeansInstalled` (an
  update is not taken for good because an earlier one was), `StartsMatchOutcome` (after an
  update the operation starts the server with every path at its own version, after a
  rollback with every promised path as it was: all paths of a staged update, the covered
  ones of a command), and under fairness `OperationsEnd`.
- For `SystemUpdate`: `ExecutableIsRecoverable`, `OneHandoff`, `SuccessIsDurable` (the
  version a job has reported is not rolled back), `FinishedJobsStay` (only the job's own
  goroutine, which could not write the event of the success, changes a job that has ended),
  and under fairness `JobsEnd` and `AcceptedUpdatesArrive`.
- For `Scheduler`: `SchedulesMatchRows` (between its calls a task has exactly the job its
  row asks for), `RestartsBringServersBack` (a scheduled restart that leaves the server down
  does not count as a success), and under fairness `ExecutionsEnd` (a job can fire again).

### Disagreements met while modelling

1. *Torn snapshot.* `finalizeExecution` sets OFFLINE in one critical section and
   records the terminal transition in the next one. A snapshot in between is
   OFFLINE with the details of the start. `waitForUpdateProcessExit` then
   reports a finished update as indeterminate, and the update service rolls it back.
2. *Crash parity.* A process that cannot be started publishes PRE_START or ONLINE
   to OFFLINE with exit code 1. The bridge makes a crash alert of it, the
   embedded node does not, although the bridge promises identical events.
3. *Stop on a placeholder.* Console output creates a command without a
   directory. A stop that finds it locks another directory than the start, whose
   `initNewCommand` can reset the intent between the stop's first step and its
   capture of the process. `supervisor_safety` excludes placeholders for this
   reason; the proofs do not.
4. *Early exit.* The start of a run is recorded after `StartProcess` has
   returned. When the exit is handled first, or the answer is lost, the previous
   start counts, and after a long cooldown that is older than the stable window: the
   counter is reset by a server that crashed at once, and the retry limit does not hold.

Not a disagreement, since no document promises otherwise, but good to know: a stop during a
cooldown does not cancel the pending restart; a plain start or stop does not respect the
reserved lifecycle operation of a restart; on a node that does not report the intent, a
start that is finishing erases the intent of a stop. An update of a server is never resumed
after the controller ends; the server keeps the status UPDATING, a second update takes that
for "was running", finds `.update-backup`, reports failure and starts the server on whatever
the first one left. A rollback that fails is not tried again, and the next update is refused
until `.update-backup` has been resolved by hand. Between `MoveAside` and `Install` the
machine has no executable: after a crash the backup is there, and the code that would put it
back is in the program that cannot be started. Two overlapping updates of one task can leave
its enabled row without a job, with a job of the other schedule, or with two jobs of which
one can no longer be removed, until the controller starts again; so no lock or order of the
code protects `UpdateTask`. An update whose row cannot be read back has changed the row and
kept the old job. A scheduled restart that the controller does not live to finish leaves the
server down; so does one that fails after its task has been deleted, or whose log entry
cannot be written, and then no entry in the task's log says so. One failed lookup of a
server's row drops a status event on a stream that goes on: the controller learns of it with
the next transition or the next reconnect only, and auto-restart does not see that exit.
After the rollback of an update command the server is started on the old covered files
beside what the command has made of the others. A node update that succeeded is reported as
failed when the event of the success cannot be written. A user's stop during a scheduled
restart is undone by its start, and a restart that saw ONLINE may stop an update that has
begun since. An execution of a replaced job and one of the new job may restart the server at
the same time.

## 5. What is proved

`SupervisorProofs` proves for any sets of callers, any number of executions, every
kind of start, placeholders and shutdowns included:

- `TypeCorrect`: `Spec => []TypeOK`;
- `LiveProcessesAreSupervised`: `Spec => []LiveProcessIsSupervised`.

The only assumption is `SupervisorAssumption`: the bound is a positive natural, the
kinds are known ones, callers are distinct from each other, from "free" and from
the goroutines that hold `executionMutex` at the end of an execution or when it
becomes ready.

`LiveProcessIsSupervised` is not inductive: nothing in it says that the status stays
away from OFFLINE while the goroutine is before `finalizeExecution`, nor that a
start found the command idle. `IInv` adds who owns the command at each moment:
`LockInv` (which call holds the directory and the instance mutex, so that only
one start is between its lookup and its return), `StarterInv` (a generation is
left to use; a prepared execution has no goroutine yet) and
`OwnerInv` (an execution whose goroutine has not finalized is the current one,
its command is registered, not OFFLINE and attached; a live process belongs to
such a goroutine). A start can only be accepted when the command is not `Busy`,
which `OwnerInv` turns into "no goroutine owns it". TLC checks `IInv` as well, with
placeholders and shutdown, before it is proved.

`SupervisorHistoryProofs` proves on top of it, in the same generality:

- `Refinement`: `Spec => RefinesExecutionLog`;
- `CrashAlertsAgree`: `Spec => []CrashAgreesWithEvent`;
- `ClosedExecutionsAreOver`: `Spec => []ClosedMeansOver`;
- `RetainedLifecycle`: `Spec => []RetainedLifecycleIsTheLastEvent`;
- `CompletionSnapshots`: `Spec => []CompletionSnapshotIsSound`;
- `OldExecutionsStayInert`: `Spec => OldExecutionsAreInert`;
- `StopsAreReported`: `Spec => []StopIsReportedAsIntended`, if `ShellAllowed` is
  false (with placeholders it is not true, as the run `supervisor_shell_stop` shows);
- `CallsAndExecutionsGoForward`, which is described below with its like.

A transition is recorded in the command in one step and published in another, so each
property compares two things that are out of step for a while. `HInv` says how far
apart they may be. For the goroutines of each execution, `History` says who holds
`executionMutex` (`LockOf`), what the command shows meanwhile (`CommandOf`), that the
draft in a goroutine's hands is the transition the command has already counted
(`DraftOf`), that the last event is of the current execution with the status readers
know and a sequence one behind the command's while a draft is pending (`LogOf`), and
what a crash alert was computed from (`CrashOf`). `TopInv` and `EndsInv` go the other
way, from an event to its execution. A snapshot is sound because an execution that is complete
stays so (`SnapInv`). A stop's intent cannot be cleared before it is reported, since
the start that clears it needs the directory mutex of the stop (`IntentInv`): this is
where a placeholder, whose directory is empty, breaks the argument. The steps come in
four kinds (one event published, a silent step of the current execution, the opening
of an execution, a step the history does not depend on), each with a lemma. TLC
checked the invariant on small instances before it was proved.

`UpdateServiceProofs` proves for any number of files and updates, any sets of existing
and covered files, both kinds of update and any crashes:

- `TypeCorrect`: `Spec => []TypeOK`;
- `OriginalsCanBeRecovered`: `Spec => []OriginalsAreRecoverable`.

The assumption is `UpdateAssumption`: numbers are positive, covered files exist,
existing files are named by the payload. The property says that a restore that nobody
has begun would work, so the argument is about who writes to the disk. There are
three writers: the update, its own undoing, and the controller's rollback. `IInv`
says where each of them may be (`UpdaterInv`, `OpInv`: unless `abandoned`, the
controller rolls back only when no update runs), what the copies are worth
(`CopiesInv`: what `saved` and `kept` hold is the original, and a path without a
copy still has it in place), how far each writer has come (`ProgressInv`: the
paths an update has not reached, and those an undoing has passed, hold the
original; nothing is promoted before its original is in `kept`) and when there can
be copies at all (`DirInv`). `CopiesInv` alone is not inductive, since a writer
that promoted or removed a file out of turn would destroy the only copy. A crash
of either side changes no file, and what is left of the invariant about the place
of the crashed writer is void.

`UpdateServiceOutcomeProofs` proves on top of it, in the same generality:

- `RollbacksRestore`: `Spec => RollbackTellsTheTruth`;
- `SuccessesAreInstalled`: `Spec => SuccessMeansInstalled`;
- `StartsAreTruthful`: `Spec => StartsMatchOutcome`;
- `OperationsGoForward` and `StagedUpdatesGoForward`, described below.

The first invariant is about the disk while `.update-backup` is there. `OutcomeInv`
says what the files are once a staged update has undone itself and removed it before
its operation has heard of the end: the original ones, so a rollback that finds
nothing to restore reports the truth. `ExitsInv` says that no execution and no exit
bears the number of an operation before its update has started, and that its exit
comes once; with `InstallInv`, which follows the update from path to path, a good exit
with that number means that every path is of that version and that nothing writes to
the server's files any more. TLC checked both on the instance of `MCUpdateService`
before they were proved.

`SystemUpdateProofs` proves for any number of jobs, versions and crashes, for the
controller and a node, with a helper or in the process itself, from
`SystemUpdateAssumption` alone:

- `TypeCorrect`: `Spec => []TypeOK`;
- `HandoffsExclude`: `Spec => []OneHandoff`;
- `ExecutableCanBeRecovered`: `Spec => []ExecutableIsRecoverable`;
- `SuccessesAreDurable`: `Spec => []SuccessIsDurable`;
- `FinishedJobsAreLeftAlone`: `Spec => FinishedJobsStay`;
- `UpdatesGoForward`, described below.

None of the three invariants is inductive. `OneHandoff` needs to know why `Apply`
may write a marker at all: it has found none, and nobody is at work (`WriteInv`);
from then on the process that took the hand-off or the helper it started is the only
one (`SoleInv`, `ParentInv`), and `BesideInv` says beside which process a replacement
may be at work: the one that replaces itself, one that is about to end, one that the
helper has started and is watching, or none. `ExecutableIsRecoverable` follows when
every point of the replacement and of its undoing says where the executable and its
backup are (`PlaceInv`), and when a program that runs was started from the
executable that is there (`ProcInv`). `SuccessIsDurable` is about jobs of different
age: no job aims below an earlier one (`TargetInv`), one that waits does not aim
below what is installed (`WaitingInv`), a job is handed over once (`OnceInv`) and has
a backup only after its replacement has begun (`FreshInv`), and so what a rollback
could put back is not below a reported success (`BackupInv`). TLC checked the
invariant on the instance of `MCSystemUpdate` before it was proved.

`AutoRestartProofs` proves for any callers, retry limits and numbers of executions,
with nodes that report intents or only their exits, from `AutoRestartAssumption` alone:

- `TypeCorrect`: `Spec => []TypeOK`;
- `StopsAreRespected`: `Spec => []StoppedServersAreNotRestarted`;
- `RetriesEnd`: `Spec => []RetriesAreBounded`;
- `CrashesAreSeen`: `Spec => CrashIsNotMistakenForStop`;
- `HooksAreTakenOnce`: `Spec => HookBelongsToTheInstaller`;
- `BlockedStartsStayBlocked`: `Spec => BlockedStartsAreNotRetried`.

All of them rest on the order of the exits (`OrderInv`): an execution that is over has
been answered, is being decided, or has its event on the bus, and events are
answered in the order of their executions. `ReportInv` carries what a stop call left
at the node to the decision, whatever is marked or cleared meanwhile, so nothing that
was asked to stop gets a restart pending; `ThreadInv` says that what runs on behalf
of an execution is its restart. The register of intents is a flag that does not say
whose stop it means: `MarkInv` shows that a flag left when an execution is answered
was set after that execution's start had cleared the register, that is, by a call that
disturbed it. For the retry counter, `StableInv`, `BlockedInv` and `CountInv` relate
it to the executions since it was last reset: it is at least the number of
restarts in the series (`Series`), and stays at the limit after a blocked one. The
counter is read by a decision that begins in one step and ends in another, which is
why `RetriesAreBounded` is not inductive. TLC checked the invariant on the instance
of `MCAutoRestart` before it was proved.

`EventStreamProofs` proves for any buffer size and any numbers of executions,
goroutines and faults, from `EventStreamAssumption` alone:

- `TypeCorrect`: `Spec => []TypeOK`;
- `EventsStayInOrder`: `Spec => PublishedInOrder`;
- `LossesAreAnnounced`: `Spec => NoSilentGap`.

A bridge compares executions and sequences and never sees the order in which the
node made its events. `PastInv` says that whatever is in a channel, on a stream or in a
cursor lies in the node's past, `OrderInv` that along each of them the numbers of the
events grow, and with them the sequences inside an execution: so the cursor's
comparison decides as the numbers would. For the gaps, `RetainedInv` says that the
retained event is the latest of this life of the node, and `GapInv` that each event
adjoins the one before it on its way (`Adjoins`), or the one that the goroutine has
dropped last (`AfterLoss`), unless it is a replay, comes from another life of the node,
or the stream has been broken by an overflow. Every step
acts in one of three ways, an event announced to all channels, the node started again,
or a local move of one goroutine, and the proof is arranged by them. TLC checked the
invariant on three instances before it was proved.

`SchedulerProofs` proves for any tasks, callers, schedules and jobs, from
`SchedulerAssumption` (the value for "none" is nothing else) alone:

- `TypeCorrect`: `Spec => []TypeOK`;
- `JobsFollowRows`: `Spec => []SchedulesMatchRows`;
- `RestartsAreNotSilent`: `Spec => []RestartsBringServersBack`;
- `ExecutionsGoForward`, described below.

`SchedulesMatchRows` speaks of a task between its calls; `MatchInv` says what holds at each
step within one: what the call knows of the row, which job is left, and that an entry that
has been taken or not yet made is in the call's hands. `HeldInv` says that no two calls and
no entry name the same job, for disturbed tasks as well: otherwise a call on one task,
troubled by another, could remove the job of a third. `RestartInv` has no condition on the
status: as soon as only a scheduled restart has asked the server to stop, one is at work or
has failed (with an entry in the log or without), whether the server has obeyed yet or not.
TLC checked the invariant with two callers before it was proved.

### Nothing goes round in circles

A liveness property needs two things: that what has begun can always take a step,
which fairness then makes it take, and that it does not take steps for ever. The
first is about ENABLED and fairness and stays with TLC. The second is a fact about the
steps, and is proved for every value of the constants. Each theorem has a measure of
what is left; every step of the process itself lowers it, and no other step raises it:
no other caller, no failure, no crash, no restart. The action formula is the second
part of the theorem, the bound of the measure the first.

| Theorem | What goes forward | Steps left at most | Liveness property |
|---|---|---|---|
| `CallsAndExecutionsGoForward` | a start call, a stop call, an execution with its readiness goroutine and process (`StartLeft`, `StopLeft`, `ExecutionLeft`) | 5, 4, 16 | `StartReturns`, `StopReturns`, `StoppedExecutionsEnd` |
| `OperationsGoForward` | an update operation with its rollback (`StepsLeft`) | 2 * Paths + 14 | `OperationsEnd` |
| `StagedUpdatesGoForward` | a staged update with its undoing (`WorkLeft`) | 3 * Paths + 4 | `OperationsEnd` |
| `UpdatesGoForward` | the update of a job, from its row to the replaced executable or the rollback (`Ahead`) | 47 | `JobsEnd`, `AcceptedUpdatesArrive` |
| `ExecutionsGoForward` | an execution of a scheduled task, a call that changes a task (`ExecGoesOn`, `CallGoesOn`) | 6 | `ExecutionsEnd` |

A new call or operation starts again from the top of its measure; the rows speak of
one that has begun. The bounds are upper bounds, and 47 is a coarse one: it leaves
room for every phase a job may pass through. What matters is that a bound exists
that does not depend on who else is at work, and that for an operation it grows with
the payload only. Two invariants are needed beyond the inductive ones:
`RequestInv` of `SystemUpdateProofs` (a request still on its way to the node belongs
to a job nobody has taken up, so a late one cannot begin an update again) and
`ProcessInv` of `SupervisorHistoryProofs` (an execution that has not been started yet
has no process). That an update replaces the executable once and that an execution is
finalized and announced once follow from the same theorems, as each of those steps
lowers the number. `ReplacedBridgesEnd` and `EventuallyCurrent` have no such theorem:
they are about a stream that breaks and reconnects, where a bridge does go back to an
earlier point and only fairness brings it to its end. TLC evaluated every measure and
every action formula on small instances before it was proved.

Every safety and action property of a passing run is proved. Model-checked only are
the liveness properties as they stand, with the fairness they assume, and, by nature,
the properties that are violated.

## 6. What is left out

Console input and output, listeners, metrics, backups, files: no property above
depends on them. In the modelled parts: nodes without execution IDs, the rule that
a stop command sent on the console may be refused, and the delivery of the event bus
itself (a full subscriber loses the event). Of the update service: Minecraft
updates, which are synchronous and change the server's row, and Steam branches.
Of the self-update: version strings, checksums and path checks (they are errors that
may happen), errors inside the reconciliation, the seven-day limit of stages, markers
of older releases, and everything of a job that only reports progress. Of the
scheduler: console-command and backup tasks, the check of the creator's rights, time zones,
the pruning of logs and sessions. Known consequences that no run
shows yet are in `PROJECT.json` under `hazards`: a companion's crash is
published although its events are suppressed, and a bridge goroutine that
starts afresh publishes the retained event again, with its crash alert.

## 7. Plan

Done: `Supervisor` with `ExecutionLog`, `EventStream`, `AutoRestart`,
`UpdateService`, `SystemUpdate`, `Scheduler`. Left, in this order:

1. A restart of the controller in `AutoRestart`, which forgets everything.
2. Later: console streams, alert delivery, backups.
