---- MODULE Supervisor ----
(*****************************************************************************)
(* One supervised command of internal/node/supervisor, driven through        *)
(* node.StartProcess, node.StopProcess and node.GetProcessSnapshot.          *)
(*                                                                           *)
(* A command outlives its processes: every accepted start raises the         *)
(* command's processGeneration and opens a new execution, served by its own  *)
(* goroutine startAndWaitForJob and, when a readiness signal is configured,  *)
(* by a second one, awaitReadiness.  An action is what a goroutine does      *)
(* between two points where another can be seen: taking a lock, releasing    *)
(* one, sending on a channel, reading or writing a field of the command.     *)
(* Execution n is the one of generation n; its executionID is n too, since   *)
(* the ID a start supplies is fresh.                                         *)
(*****************************************************************************)
EXTENDS Naturals, Integers, Sequences

CONSTANTS
    Starters,       \* goroutines calling node.StartProcess
    Stoppers,       \* goroutines calling node.StopProcess
    Readers,        \* goroutines calling node.GetProcessSnapshot
    Kinds,          \* the kinds of start the callers make
    Free,           \* the owner of an unlocked mutex
    MaxExecutions,  \* bound: executions explored
    ShellAllowed,   \* whether console output may create the command first
    ShutdownAllowed \* whether the node may shut down

AllKinds == {"plain", "readiness", "update", "internal", "companion"}

ASSUME SupervisorAssumption ==
    /\ MaxExecutions \in Nat \ {0}
    /\ Kinds \subseteq AllKinds
    /\ {ShellAllowed, ShutdownAllowed} \subseteq BOOLEAN
    /\ Free \notin Starters \cup Stoppers
    /\ Starters \cap Stoppers = {}
    /\ (Starters \cup {Free}) \cap ({"finalize", "ready"} \X (1 .. MaxExecutions)) = {}

Executions == 1 .. MaxExecutions
Statuses == {"UNKNOWN", "OFFLINE", "PRE_START", "ONLINE", "INSTALLING", "UPDATING"}
Directories == {"cwd", "server"}

(* Mistake: only a start with a readiness signal sets a status.              *)
StartStatusForgotten(kind) == IF kind = "readiness" THEN "PRE_START" ELSE ""

(* What a kind of start asks for: the status the execution starts in,        *)
(* whether it runs inside the node (no OS process) and whether its status    *)
(* events are suppressed.                                                    *)
StartStatus(kind) ==
    CASE kind = "readiness" -> "PRE_START"
      [] kind = "update"    -> "UPDATING"
      [] kind = "internal"  -> "INSTALLING"
      [] OTHER              -> "ONLINE"
IsInternal(kind) == kind = "internal"
IsSuppressed(kind) == kind = "companion"

VARIABLES
    cmd,        \* the Command's fields
    instLock,   \* owner of Instance.RWMutex
    execLock,   \* owner of Command.executionMutex: a starter or <<role, execution>>
    dirLock,    \* owners of the node's per-directory lifecycle mutexes
    starter,    \* where each start call is
    stopper,    \* where each stop call is, with the values it captured
    run,        \* every execution: its goroutines and its process
    events,     \* status events, in the order they were published
    snap,       \* what each snapshot reader has read
    down        \* whether the node's context has been cancelled

locks == <<instLock, execLock, dirLock>>
callers == <<starter, stopper>>
seen == <<events, snap, down>>
vars == <<cmd, locks, callers, run, seen>>

Unregistered ==
    [registered |-> FALSE, dir |-> "cwd", status |-> "OFFLINE", generation |-> 0,
     attached |-> FALSE, previous |-> "UNKNOWN", sequence |-> 0, code |-> 0,
     known |-> FALSE, intentional |-> FALSE]

(* The event a goroutine has recorded in the command and not published yet.  *)
Draft(old, new, code, known) ==
    [execution |-> cmd.generation, sequence |-> cmd.sequence + 1, old |-> old,
     new |-> new, code |-> code, known |-> known]
NoDraft == [execution |-> 0, sequence |-> 0, old |-> "UNKNOWN", new |-> "UNKNOWN",
            code |-> 0, known |-> FALSE]

NoRun ==
    [pc |-> "none", kind |-> "plain", result |-> "none", proc |-> "none", code |-> 0,
     known |-> FALSE, old |-> "UNKNOWN", cancelled |-> FALSE, closed |-> FALSE,
     asked |-> FALSE, crash |-> 0, ready |-> "none", draft |-> NoDraft]

Lifecycle == [execution |-> cmd.generation, previous |-> cmd.previous,
              sequence |-> cmd.sequence, code |-> cmd.code, known |-> cmd.known,
              intentional |-> cmd.intentional]

NoSnapshot == [execution |-> 0, previous |-> "UNKNOWN", sequence |-> 0, code |-> 0,
               known |-> FALSE, intentional |-> FALSE, status |-> "none"]

Init ==
    /\ cmd = Unregistered
    /\ instLock = Free
    /\ execLock = Free
    /\ dirLock = [d \in Directories |-> Free]
    /\ starter = [s \in Starters |-> "idle"]
    /\ stopper = [p \in Stoppers |-> [pc |-> "idle", dir |-> "cwd", execution |-> 0]]
    /\ run = [g \in Executions |-> NoRun]
    /\ events = <<>>
    /\ snap = [r \in Readers |-> NoSnapshot]
    /\ down = FALSE

-----------------------------------------------------------------------------
(* Starting: node.StartProcess holding the directory's lifecycle mutex, then *)
(* Instance.prepareCommandProcess.  MaxExecutions bounds the exploration     *)
(* here, before any mutex is taken.                                          *)

BeginStart(s) ==
    /\ starter[s] = "idle"
    /\ cmd.generation < MaxExecutions
    /\ dirLock["server"] = Free
    /\ dirLock' = [dirLock EXCEPT !["server"] = s]
    /\ starter' = [starter EXCEPT ![s] = "lookup"]
    /\ UNCHANGED <<cmd, instLock, execLock, stopper, run, seen>>

(* Mistake: the exit details of the previous execution survive a start.      *)
OpenExecutionKeepingExit(kind) ==
    /\ cmd' = [cmd EXCEPT !.generation = @ + 1, !.status = StartStatus(kind),
                          !.intentional = FALSE, !.previous = "UNKNOWN",
                          !.sequence = 0, !.dir = "server"]
    /\ run' = [run EXCEPT ![cmd.generation + 1] = [NoRun EXCEPT !.kind = kind]]

(* initNewCommand: a fresh execution, every lifecycle field reset.           *)
OpenExecution(kind) ==
    /\ cmd' = [cmd EXCEPT !.generation = @ + 1,
                          !.status = StartStatus(kind),
                          !.intentional = FALSE,
                          !.previous = "UNKNOWN",
                          !.sequence = 0,
                          !.code = 0,
                          !.known = FALSE,
                          !.dir = "server"]
    /\ run' = [run EXCEPT ![cmd.generation + 1] = [NoRun EXCEPT !.kind = kind]]

(* A command seen for the first time keeps the instance mutex until the      *)
(* start has succeeded or failed, and never takes executionMutex.            *)
LookupNew(s) ==
    /\ starter[s] = "lookup"
    /\ instLock = Free
    /\ ~cmd.registered
    /\ \E kind \in Kinds : OpenExecution(kind)
    /\ instLock' = s
    /\ starter' = [starter EXCEPT ![s] = "setup"]
    /\ UNCHANGED <<execLock, dirLock, stopper, seen>>

(* A known command: the instance mutex is given up, executionMutex is taken, *)
(* then the instance mutex again.                                            *)
LookupKnown(s) ==
    /\ starter[s] = "lookup"
    /\ instLock = Free
    /\ cmd.registered
    /\ starter' = [starter EXCEPT ![s] = "found"]
    /\ UNCHANGED <<cmd, locks, stopper, run, seen>>

LockExecution(s) ==
    /\ starter[s] = "found"
    /\ execLock = Free
    /\ execLock' = s
    /\ starter' = [starter EXCEPT ![s] = "locked"]
    /\ UNCHANGED <<cmd, instLock, dirLock, stopper, run, seen>>

(* Mistake: only a server that is ONLINE counts as running.                  *)
BusyWhenOnline == cmd.status = "ONLINE"

Busy == cmd.attached \/ cmd.status # "OFFLINE"

ReleaseStart(s) ==
    /\ instLock' = IF instLock = s THEN Free ELSE instLock
    /\ execLock' = IF execLock = s THEN Free ELSE execLock
    /\ dirLock' = [dirLock EXCEPT !["server"] = Free]
    /\ starter' = [starter EXCEPT ![s] = "idle"]

RefuseStart(s) ==
    /\ starter[s] = "locked"
    /\ instLock = Free
    /\ Busy
    /\ ReleaseStart(s)
    /\ UNCHANGED <<cmd, stopper, run, seen>>

PrepareKnown(s) ==
    /\ starter[s] = "locked"
    /\ instLock = Free
    /\ ~Busy
    /\ \E kind \in Kinds : OpenExecution(kind)
    /\ instLock' = s
    /\ starter' = [starter EXCEPT ![s] = "setup"]
    /\ UNCHANGED <<execLock, dirLock, stopper, seen>>

(* setupCmd fails: the execution ends before it has a process.  A command    *)
(* created for this start is dropped, one that was known stays OFFLINE.      *)
SetupFails(s) ==
    /\ starter[s] = "setup"
    /\ ~IsInternal(run[cmd.generation].kind)
    /\ ReleaseStart(s)
    /\ IF cmd.registered
       THEN /\ cmd' = [cmd EXCEPT !.status = "OFFLINE", !.attached = FALSE]
            /\ run' = [run EXCEPT ![cmd.generation].cancelled = TRUE]
       ELSE /\ cmd' = Unregistered
            /\ run' = [run EXCEPT ![cmd.generation] = NoRun]
    /\ UNCHANGED <<stopper, seen>>

SetupSucceeds(s) ==
    /\ starter[s] = "setup"
    /\ cmd' = [cmd EXCEPT !.registered = TRUE,
                          !.attached = ~IsInternal(run[cmd.generation].kind)]
    /\ run' = [run EXCEPT ![cmd.generation].pc = "spawning"]
    /\ starter' = [starter EXCEPT ![s] = "starting"]
    /\ UNCHANGED <<locks, stopper, seen>>

(* The caller waits for startupResult with every mutex still held.           *)
FinishStart(s) ==
    /\ starter[s] = "starting"
    /\ run[cmd.generation].result # "none"
    /\ ReleaseStart(s)
    /\ UNCHANGED <<cmd, stopper, run, seen>>

(* SendConsoleOutput and StreamConsoleOutput create an offline placeholder   *)
(* for a command nobody has started; its working directory is empty.         *)
CreateShell ==
    /\ ShellAllowed
    /\ ~cmd.registered
    /\ instLock = Free
    /\ cmd' = [Unregistered EXCEPT !.registered = TRUE]
    /\ UNCHANGED <<locks, callers, run, seen>>

-----------------------------------------------------------------------------
(* The execution's goroutine: startAndWaitForJob.                            *)

Cancelled(g) == down \/ run[g].cancelled

(* Starting under a cancelled context fails; an internal command has no      *)
(* process to start.                                                         *)
SpawnSucceeds(g) ==
    /\ run[g].pc = "spawning"
    /\ IsInternal(run[g].kind) \/ ~Cancelled(g)
    /\ run' = [run EXCEPT ![g].pc = "announce",
                          ![g].result = "ok",
                          ![g].proc = IF IsInternal(run[g].kind) THEN "none" ELSE "alive"]
    /\ UNCHANGED <<cmd, locks, callers, seen>>

(* Mistake: a process that cannot be started is never reported to the caller. *)
SpawnFailsSilently(g) ==
    /\ run[g].pc = "spawning"
    /\ ~IsInternal(run[g].kind)
    /\ run' = [run EXCEPT ![g].pc = "finalize", ![g].code = 1, ![g].known = TRUE]
    /\ UNCHANGED <<cmd, locks, callers, seen>>

SpawnFails(g) ==
    /\ run[g].pc = "spawning"
    /\ ~IsInternal(run[g].kind)
    /\ run' = [run EXCEPT ![g].pc = "finalize", ![g].result = "error",
                          ![g].code = 1, ![g].known = TRUE]
    /\ UNCHANGED <<cmd, locks, callers, seen>>

(* Mistake: the exit details are published but not retained.                 *)
RecordWithoutExit(old, new, code, known) ==
    cmd' = [cmd EXCEPT !.previous = old, !.sequence = @ + 1]

(* sendJobStatusNotificationDetails: the transition is recorded in the       *)
(* command in one critical section, then published with the intent flag as   *)
(* it is by then.  A suppressed command does neither.                        *)
Record(old, new, code, known) ==
    cmd' = [cmd EXCEPT !.previous = old, !.sequence = @ + 1, !.code = code, !.known = known]

Publish(g) ==
    LET draft == run[g].draft
    IN  events' = Append(events,
            [execution |-> draft.execution, sequence |-> draft.sequence,
             old |-> draft.old, new |-> draft.new, code |-> draft.code,
             known |-> draft.known, intentional |-> cmd.intentional])

AnnounceRecord(g) ==
    LET started == StartStatus(run[g].kind)
    IN  /\ run[g].pc = "announce"
        /\ ~IsSuppressed(run[g].kind)
        /\ Record("OFFLINE", started, 0, FALSE)
        /\ run' = [run EXCEPT ![g].pc = "announcing",
                              ![g].draft = Draft("OFFLINE", started, 0, FALSE)]
        /\ UNCHANGED <<locks, callers, seen>>

AnnouncePublish(g) ==
    /\ run[g].pc = "announcing"
    /\ Publish(g)
    /\ run' = [run EXCEPT ![g].pc = "running",
                          ![g].draft = NoDraft,
                          ![g].ready = IF run[g].kind = "readiness" THEN "waiting" ELSE @]
    /\ UNCHANGED <<cmd, locks, callers, snap, down>>

AnnounceNothing(g) ==
    /\ run[g].pc = "announce"
    /\ IsSuppressed(run[g].kind)
    /\ run' = [run EXCEPT ![g].pc = "running"]
    /\ UNCHANGED <<cmd, locks, callers, seen>>

(* The operating system's part: a process exits by itself, because it was    *)
(* asked to, or killed when its context is cancelled.                        *)
ProcessExits(g) ==
    /\ run[g].proc = "alive"
    /\ \E outcome \in {"clean", "failed", "signaled"} :
            run' = [run EXCEPT ![g].proc = outcome]
    /\ UNCHANGED <<cmd, locks, callers, seen>>

(* Mistake: a signal is never given the exit code -1.                        *)
ReapWithoutSentinel(g) ==
    /\ run[g].pc = "running"
    /\ run[g].proc \in {"clean", "failed", "signaled"}
    /\ run' = [run EXCEPT ![g].pc = "reaped", ![g].cancelled = TRUE,
                          ![g].code = IF run[g].proc = "clean" THEN 0
                                      ELSE IF run[g].proc = "failed" THEN 1 ELSE -1,
                          ![g].known = run[g].proc # "signaled"]
    /\ UNCHANGED <<cmd, locks, callers, seen>>

(* Wait returns: processExitDetails and lifecycleExitDetails.  A signal      *)
(* leaves no exit code, which is reported as -1 unless a stop was asked for. *)
Reap(g) ==
    /\ run[g].pc = "running"
    /\ run[g].proc \in {"clean", "failed", "signaled"}
    /\ run' = [run EXCEPT ![g].pc = "reaped",
                          ![g].cancelled = TRUE,
                          ![g].code = CASE run[g].proc = "clean"  -> 0
                                        [] run[g].proc = "failed" -> 1
                                        [] OTHER                  -> -1,
                          ![g].known = run[g].proc # "signaled" \/ ~cmd.intentional]
    /\ UNCHANGED <<cmd, locks, callers, seen>>

(* reportUnexpectedProcessExit and publishProcessCrash.                      *)
Report(g) ==
    /\ run[g].pc = "reaped"
    /\ run' = [run EXCEPT ![g].pc = "finalize",
                          ![g].crash = IF /\ ~cmd.intentional
                                          /\ run[g].code # 0
                                          /\ cmd.status \in {"ONLINE", "PRE_START"}
                                       THEN run[g].code ELSE 0]
    /\ UNCHANGED <<cmd, locks, callers, seen>>

(* An internal command returns with success or with an error.                *)
InternalEnds(g) ==
    /\ run[g].pc = "running"
    /\ IsInternal(run[g].kind)
    /\ \E code \in {0, 1} :
            run' = [run EXCEPT ![g].pc = "finalize", ![g].code = code, ![g].known = TRUE]
    /\ UNCHANGED <<cmd, locks, callers, seen>>

(* finalizeExecution.  Its first critical section takes executionMutex and   *)
(* makes the command OFFLINE; the terminal transition is recorded in a       *)
(* second one; the mutex is released after the event is out; then            *)
(* finalizationDone is closed.                                               *)
FinalizeOffline(g) ==
    /\ run[g].pc = "finalize"
    /\ execLock = Free
    /\ IF cmd.generation = g
       THEN /\ execLock' = <<"finalize", g>>
            /\ cmd' = [cmd EXCEPT !.status = "OFFLINE", !.attached = FALSE]
            /\ run' = [run EXCEPT ![g].pc = "terminal", ![g].old = cmd.status]
       ELSE /\ run' = [run EXCEPT ![g].pc = "done", ![g].cancelled = TRUE]
            /\ UNCHANGED <<cmd, execLock>>
    /\ UNCHANGED <<instLock, dirLock, callers, seen>>

(* Mistake: waiters are released before the terminal event is published.     *)
FinalizeRecordAndClose(g) ==
    /\ run[g].pc = "terminal"
    /\ ~IsSuppressed(run[g].kind)
    /\ Record(run[g].old, "OFFLINE", run[g].code, run[g].known)
    /\ run' = [run EXCEPT ![g].pc = "publishing", ![g].closed = TRUE,
                          ![g].draft = Draft(run[g].old, "OFFLINE", run[g].code, run[g].known)]
    /\ UNCHANGED <<locks, callers, seen>>

(* Mistake: executionMutex is released before the terminal event is out.     *)
FinalizeRecordAndUnlock(g) ==
    /\ run[g].pc = "terminal"
    /\ ~IsSuppressed(run[g].kind)
    /\ Record(run[g].old, "OFFLINE", run[g].code, run[g].known)
    /\ execLock' = Free
    /\ run' = [run EXCEPT ![g].pc = "publishing",
                          ![g].draft = Draft(run[g].old, "OFFLINE", run[g].code, run[g].known)]
    /\ UNCHANGED <<instLock, dirLock, callers, seen>>

FinalizeRecord(g) ==
    /\ run[g].pc = "terminal"
    /\ ~IsSuppressed(run[g].kind)
    /\ Record(run[g].old, "OFFLINE", run[g].code, run[g].known)
    /\ run' = [run EXCEPT ![g].pc = "publishing",
                          ![g].draft = Draft(run[g].old, "OFFLINE", run[g].code, run[g].known)]
    /\ UNCHANGED <<locks, callers, seen>>

FinalizePublish(g) ==
    /\ run[g].pc = "publishing"
    /\ Publish(g)
    /\ execLock' = Free
    /\ run' = [run EXCEPT ![g].pc = "closing", ![g].draft = NoDraft]
    /\ UNCHANGED <<cmd, instLock, dirLock, callers, snap, down>>

FinalizeNothing(g) ==
    /\ run[g].pc = "terminal"
    /\ IsSuppressed(run[g].kind)
    /\ execLock' = Free
    /\ run' = [run EXCEPT ![g].pc = "closing"]
    /\ UNCHANGED <<cmd, instLock, dirLock, callers, seen>>

CloseExecution(g) ==
    /\ run[g].pc = "closing"
    /\ run' = [run EXCEPT ![g].pc = "done", ![g].closed = TRUE, ![g].cancelled = TRUE]
    /\ UNCHANGED <<cmd, locks, callers, seen>>

-----------------------------------------------------------------------------
(* The execution's readiness goroutine: awaitReadiness and markReady.  A     *)
(* console match, a probe answer and the timeout all lead to markReady.      *)

(* Mistake: readiness does not look at the status it replaces.               *)
MarkReadyUnchecked(g) ==
    /\ run[g].ready = "waiting"
    /\ execLock = Free
    /\ cmd.generation = g
    /\ execLock' = <<"ready", g>>
    /\ cmd' = [cmd EXCEPT !.status = "ONLINE"]
    /\ run' = [run EXCEPT ![g].ready = "recording"]
    /\ UNCHANGED <<instLock, dirLock, callers, seen>>

MarkReady(g) ==
    /\ run[g].ready = "waiting"
    /\ execLock = Free
    /\ IF cmd.generation = g /\ cmd.status = "PRE_START"
       THEN /\ execLock' = <<"ready", g>>
            /\ cmd' = [cmd EXCEPT !.status = "ONLINE"]
            /\ run' = [run EXCEPT ![g].ready = "recording"]
       ELSE /\ run' = [run EXCEPT ![g].ready = "done"]
            /\ UNCHANGED <<cmd, execLock>>
    /\ UNCHANGED <<instLock, dirLock, callers, seen>>

ReadyRecord(g) ==
    /\ run[g].ready = "recording"
    /\ Record("PRE_START", "ONLINE", 0, FALSE)
    /\ run' = [run EXCEPT ![g].ready = "publishing",
                          ![g].draft = Draft("PRE_START", "ONLINE", 0, FALSE)]
    /\ UNCHANGED <<locks, callers, seen>>

ReadyPublish(g) ==
    /\ run[g].ready = "publishing"
    /\ Publish(g)
    /\ execLock' = Free
    /\ run' = [run EXCEPT ![g].ready = "done", ![g].draft = NoDraft]
    /\ UNCHANGED <<cmd, instLock, dirLock, callers, snap, down>>

AbandonReadiness(g) ==
    /\ run[g].ready = "waiting"
    /\ Cancelled(g)
    /\ run' = [run EXCEPT ![g].ready = "done"]
    /\ UNCHANGED <<cmd, locks, callers, seen>>

-----------------------------------------------------------------------------
(* Stopping: node.StopProcess, then Command.Stop.                            *)

(* The directory to lock is read before it is locked.                        *)
BeginStop(p) ==
    /\ stopper[p].pc = "idle"
    /\ instLock = Free
    /\ cmd.registered
    /\ stopper' = [stopper EXCEPT ![p] = [pc |-> "found", dir |-> cmd.dir, execution |-> 0]]
    /\ UNCHANGED <<cmd, locks, starter, run, seen>>

(* Mistake: a stop does not wait for the directory's lifecycle mutex.        *)
LockStopUnguarded(p) ==
    /\ stopper[p].pc = "found"
    /\ stopper' = [stopper EXCEPT ![p].pc = "locked"]
    /\ UNCHANGED <<cmd, locks, starter, run, seen>>

LockStop(p) ==
    /\ stopper[p].pc = "found"
    /\ dirLock[stopper[p].dir] = Free
    /\ dirLock' = [dirLock EXCEPT ![stopper[p].dir] = p]
    /\ stopper' = [stopper EXCEPT ![p].pc = "locked"]
    /\ UNCHANGED <<cmd, instLock, execLock, starter, run, seen>>

(* The intent is recorded first, whether or not anything runs.               *)
MarkIntentional(p) ==
    /\ stopper[p].pc = "locked"
    /\ cmd' = [cmd EXCEPT !.intentional = TRUE]
    /\ stopper' = [stopper EXCEPT ![p].pc = "marked"]
    /\ UNCHANGED <<locks, starter, run, seen>>

ReleaseStop(p) ==
    /\ dirLock' = [dirLock EXCEPT ![stopper[p].dir] = Free]
    /\ stopper' = [stopper EXCEPT ![p] = [pc |-> "idle", dir |-> "cwd", execution |-> 0]]

(* The execution attached now is captured and asked to exit, by the stop     *)
(* input or by an interrupt; nothing attached, nothing to stop.              *)
CaptureTarget(p) ==
    /\ stopper[p].pc = "marked"
    /\ cmd.attached
    /\ stopper' = [stopper EXCEPT ![p].pc = "waiting", ![p].execution = cmd.generation]
    /\ run' = [run EXCEPT ![cmd.generation].asked = TRUE]
    /\ UNCHANGED <<cmd, locks, starter, seen>>

NothingToStop(p) ==
    /\ stopper[p].pc = "marked"
    /\ ~cmd.attached
    /\ ReleaseStop(p)
    /\ UNCHANGED <<cmd, instLock, execLock, starter, run, seen>>

StopFinished(p) ==
    /\ stopper[p].pc = "waiting"
    /\ run[stopper[p].execution].closed \/ down
    /\ ReleaseStop(p)
    /\ UNCHANGED <<cmd, instLock, execLock, starter, run, seen>>

(* Mistakes: a stop has no deadline, or its deadline does not kill.          *)
StopWithoutDeadline(p) ==
    /\ stopper[p].pc = "waiting"
    /\ down
    /\ ReleaseStop(p)
    /\ UNCHANGED <<cmd, instLock, execLock, starter, run, seen>>

StopWithoutKill(p) ==
    /\ stopper[p].pc = "waiting"
    /\ ReleaseStop(p)
    /\ UNCHANGED <<cmd, instLock, execLock, starter, run, seen>>

(* The grace period is over: the execution's context is cancelled and Stop   *)
(* returns without waiting for the process.                                  *)
StopTimesOut(p) ==
    /\ stopper[p].pc = "waiting"
    /\ ReleaseStop(p)
    /\ run' = [run EXCEPT ![stopper[p].execution].cancelled = TRUE]
    /\ UNCHANGED <<cmd, instLock, execLock, starter, seen>>

(* The node's context is cancelled, and with it that of every execution.     *)
ShutDown ==
    /\ ShutdownAllowed
    /\ ~down
    /\ down' = TRUE
    /\ UNCHANGED <<cmd, locks, callers, run, events, snap>>

-----------------------------------------------------------------------------
(* node.GetProcessSnapshot: the lifecycle fields and the status are copied   *)
(* in two critical sections.                                                 *)

ReadLifecycle(r) ==
    /\ cmd.registered
    /\ instLock = Free
    /\ snap' = [snap EXCEPT ![r] = [f \in DOMAIN NoSnapshot |->
                                     IF f = "status" THEN "unread" ELSE Lifecycle[f]]]
    /\ UNCHANGED <<cmd, locks, callers, run, events, down>>

ReadStatus(r) ==
    /\ snap[r].status = "unread"
    /\ cmd.registered
    /\ snap' = [snap EXCEPT ![r].status = cmd.status]
    /\ UNCHANGED <<cmd, locks, callers, run, events, down>>

-----------------------------------------------------------------------------
StartStep(s) ==
    \/ BeginStart(s) \/ LookupNew(s) \/ LookupKnown(s) \/ LockExecution(s)
    \/ RefuseStart(s) \/ PrepareKnown(s) \/ SetupFails(s) \/ SetupSucceeds(s)
    \/ FinishStart(s)

RunStep(g) ==
    \/ SpawnSucceeds(g) \/ SpawnFails(g)
    \/ AnnounceRecord(g) \/ AnnouncePublish(g) \/ AnnounceNothing(g)
    \/ Reap(g) \/ Report(g) \/ InternalEnds(g)
    \/ FinalizeOffline(g) \/ FinalizeRecord(g) \/ FinalizePublish(g)
    \/ FinalizeNothing(g) \/ CloseExecution(g)

ReadyStep(g) ==
    MarkReady(g) \/ ReadyRecord(g) \/ ReadyPublish(g) \/ AbandonReadiness(g)

StopStep(p) ==
    \/ BeginStop(p) \/ LockStop(p) \/ MarkIntentional(p) \/ CaptureTarget(p)
    \/ NothingToStop(p) \/ StopFinished(p) \/ StopTimesOut(p)

Next ==
    \/ \E s \in Starters : StartStep(s)
    \/ \E p \in Stoppers : StopStep(p)
    \/ \E g \in Executions : RunStep(g) \/ ReadyStep(g) \/ ProcessExits(g)
    \/ \E r \in Readers : ReadLifecycle(r) \/ ReadStatus(r)
    \/ CreateShell
    \/ ShutDown

Spec == Init /\ [][Next]_vars


-----------------------------------------------------------------------------
(* Fairness.  A goroutine that can go on does, and a killed process exits.   *)
(* It is strong fairness where a step waits for a mutex: sync.Mutex hands    *)
(* the lock to the longest waiter when one starves.  Nobody has to call      *)
(* StartProcess or StopProcess, a process does not have to exit by itself,   *)
(* and a readiness signal never has to come.                                 *)
StartGoesOn(s) == starter[s] # "idle" /\ StartStep(s)
StopGoesOn(p) == stopper[p].pc # "idle" /\ StopStep(p)

Fairness ==
    /\ \A s \in Starters : SF_vars(StartGoesOn(s))
    /\ \A p \in Stoppers : SF_vars(StopGoesOn(p))
    /\ \A g \in Executions :
           /\ SF_vars(RunStep(g))
           /\ WF_vars(ReadyRecord(g) \/ ReadyPublish(g))
           /\ WF_vars(Cancelled(g) /\ ProcessExits(g))

FairSpec == Spec /\ Fairness

-----------------------------------------------------------------------------
(* Properties.                                                               *)

Running == {"PRE_START", "ONLINE"}
Exited == {"clean", "failed", "signaled"}
Drafts == [execution : 0 .. MaxExecutions, sequence : Nat, old : Statuses,
           new : Statuses, code : Int, known : BOOLEAN]
Commands == [registered : BOOLEAN, dir : Directories, status : Statuses,
             generation : 0 .. MaxExecutions, attached : BOOLEAN,
             previous : Statuses, sequence : Nat, code : Int, known : BOOLEAN,
             intentional : BOOLEAN]
StopCalls == [pc : {"idle", "found", "locked", "marked", "waiting"},
              dir : Directories, execution : 0 .. MaxExecutions]
Runs == [pc : {"none", "spawning", "announce", "announcing", "running", "reaped",
               "finalize", "terminal", "publishing", "closing", "done"},
         kind : AllKinds, result : {"none", "ok", "error"},
         proc : {"none", "alive"} \cup Exited, code : Int, known : BOOLEAN,
         old : Statuses, cancelled : BOOLEAN, closed : BOOLEAN, asked : BOOLEAN,
         crash : Int, ready : {"none", "waiting", "recording", "publishing", "done"},
         draft : Drafts]
Events == [execution : 0 .. MaxExecutions, sequence : Nat, old : Statuses,
           new : Statuses, code : Int, known : BOOLEAN, intentional : BOOLEAN]
Snapshots == [execution : 0 .. MaxExecutions, previous : Statuses,
              sequence : Nat, code : Int, known : BOOLEAN,
              intentional : BOOLEAN, status : Statuses \cup {"none", "unread"}]

TypeOK ==
    /\ cmd \in Commands
    /\ instLock \in Starters \cup {Free}
    /\ execLock \in Starters \cup {Free} \cup ({"finalize", "ready"} \X Executions)
    /\ dirLock \in [Directories -> Starters \cup Stoppers \cup {Free}]
    /\ starter \in [Starters -> {"idle", "lookup", "found", "locked", "setup", "starting"}]
    /\ stopper \in [Stoppers -> StopCalls]
    /\ run \in [Executions -> Runs]
    /\ events \in Seq(Events)
    /\ snap \in [Readers -> Snapshots]
    /\ down \in BOOLEAN

(* A live process always belongs to the command's current execution and is   *)
(* never shown as OFFLINE: no start, stop or exit leaves a process behind    *)
(* that the node no longer supervises, and no two run at once.               *)
LiveProcessIsSupervised ==
    \A g \in Executions :
        run[g].proc = "alive" => /\ cmd.generation = g
                                 /\ cmd.attached
                                 /\ cmd.status # "OFFLINE"

(* The OFFLINE event of an execution that a Stop call told to exit says the  *)
(* stop was intentional, whatever the order of the start, the stop and the   *)
(* exit: auto-restart must not revive it.                                    *)
StopIsReportedAsIntended ==
    \A i \in DOMAIN events :
        events[i].new = "OFFLINE" /\ run[events[i].execution].asked
            => events[i].intentional

(* A crash alert and the OFFLINE event of the same execution agree: the      *)
(* event left a running status, with the exit code the alert carries.  The   *)
(* two are computed from separate reads of the intent flag.                  *)
CrashAgreesWithEvent ==
    \A i \in DOMAIN events :
        LET e == events[i] IN
        e.new = "OFFLINE" /\ run[e.execution].crash # 0
            => e.old \in Running /\ e.known /\ e.code = run[e.execution].crash

(* Whoever waited on finalizationDone (Stop does) finds the terminal event   *)
(* published and, unless someone has started it again, a command that will   *)
(* accept a start.                                                           *)
ClosedMeansOver ==
    \A g \in Executions : run[g].closed =>
        /\ IsSuppressed(run[g].kind)
              \/ \E i \in DOMAIN events : /\ events[i].execution = g
                                         /\ events[i].new = "OFFLINE"
        /\ cmd.generation = g /\ instLock = Free => ~Busy

(* A finished execution leaves in the command exactly what its last event    *)
(* said, the intent flag aside (a later Stop still raises it).               *)
RetainedLifecycleIsTheLastEvent ==
    \A g \in Executions :
        run[g].pc \in {"closing", "done"} /\ cmd.generation = g /\ ~IsSuppressed(run[g].kind) =>
            /\ events # <<>>
            /\ LET last == events[Len(events)]
               IN  /\ last.execution = g
                   /\ last.sequence = cmd.sequence /\ last.old = cmd.previous
                   /\ last.code = cmd.code /\ last.known = cmd.known

(* Once a newer execution exists, no goroutine of an older one changes the   *)
(* command or publishes an event.                                            *)
OldExecutionsAreInert ==
    [][(\E g \in Executions : g < cmd.generation /\ run'[g] # run[g])
          => UNCHANGED <<cmd, events>>]_vars

(* The status events of a command, whatever the interleaving, are the ones   *)
(* of the abstract log: executions one after another, each from its start to *)
(* one OFFLINE, with consecutive sequence numbers and matching statuses.     *)
EventLog ==
    [i \in DOMAIN events |->
        [execution |-> events[i].execution, sequence |-> events[i].sequence,
         old |-> events[i].old, new |-> events[i].new]]
Log == INSTANCE ExecutionLog WITH log <- EventLog
RefinesExecutionLog == Log!Spec

(* A start call returns, whatever the execution it started does.             *)
StartReturns == \A s \in Starters : starter[s] # "idle" ~> starter[s] = "idle"

(* A stop call returns, whether or not the process obeys.                    *)
StopReturns == \A p \in Stoppers : stopper[p].pc # "idle" ~> stopper[p].pc = "idle"

(* An execution told to stop, and one whose process has exited, ends: its    *)
(* terminal event is published and its waiters are released.                 *)
StoppedExecutionsEnd ==
    \A g \in Executions : run[g].asked \/ run[g].proc \in Exited ~> run[g].pc = "done"

(* What waitForUpdateProcessExit takes for a completed execution, a snapshot  *)
(* that is OFFLINE with a known exit code, is one: the execution is over and *)
(* the code is its own, although the two parts of the snapshot are read      *)
(* apart and the command may have been started again in between.             *)
CompletionSnapshotIsSound ==
    \A r \in Readers :
        snap[r].status = "OFFLINE" /\ snap[r].known =>
            LET execution == run[snap[r].execution]
            IN  /\ execution.pc \in {"publishing", "closing", "done"}
                /\ execution.code = snap[r].code

(* internal/node/supervisor/supervisor.go: "Terminal metadata remains        *)
(* available after the process is offline."  A snapshot that shows an        *)
(* announced execution OFFLINE shows the transition that ended it.           *)
OfflineSnapshotIsTerminal ==
    \A r \in Readers :
        snap[r].status = "OFFLINE" /\ snap[r].sequence > 0 => snap[r].previous # "OFFLINE"

(* RemoteEventBridge.republish derives the crash alert of a remote server    *)
(* from its OFFLINE event.                                                   *)
BridgeReportsCrash(e) ==
    e.old \in Running /\ e.new = "OFFLINE" /\ e.known /\ e.code # 0 /\ ~e.intentional

(* The bridge's package comment: "every websocket subscriber, auto-restart   *)
(* hook, and alert evaluator sees remote game-server events identically to   *)
(* embedded ones."  An event the bridge would raise an alert for raises one  *)
(* on the embedded node.                                                     *)
RemoteCrashesMatchEmbedded ==
    \A i \in DOMAIN events :
        BridgeReportsCrash(events[i]) => run[events[i].execution].crash # 0

====
