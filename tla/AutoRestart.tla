---- MODULE AutoRestart ----
(*****************************************************************************)
(* How the controller keeps one game server running: the auto-restart        *)
(* subscriber, the register of intentional stops, the one-shot exit hook of  *)
(* an installation, and the calls that start, stop, restart, install and     *)
(* remove the server (internal/controller/actions, and the RPC handlers that *)
(* combine those calls).                                                     *)
(*                                                                           *)
(* Every goroutine is a thread with a pc: a user's call is a thread of       *)
(* Callers, the automatic restart of execution e is thread e, and the exit   *)
(* hook of the installation is thread Hook.  A step ends where the node is   *)
(* called or a mutex of the controller is released.  The node is reduced to  *)
(* what Supervisor and EventStream promise: one execution at a time, its     *)
(* exit reported once, in order, with the intent recorded there.  PRE_START  *)
(* and ONLINE are treated alike by this code, and so are one here.           *)
(*****************************************************************************)
EXTENDS Naturals, Sequences, FiniteSets

CONSTANTS
    Callers,        \* user calls in flight at a time
    Hook,           \* the goroutine that runs the exit hook
    Nobody,         \* who holds the lifecycle operation when it is free
    MaxRetries,     \* the server's AutoRestartMaxRetries
    MaxExecutions,  \* bound: executions explored
    MaxCalls        \* bound: user calls explored

ASSUME AutoRestartAssumption ==
    /\ MaxRetries \in Nat
    /\ MaxExecutions \in Nat \ {0}
    /\ MaxCalls \in Nat
    /\ Nobody \notin Callers
    /\ Hook \notin Callers \cup (1 .. MaxExecutions)
    /\ Callers \cap (1 .. MaxExecutions) = {}

Executions == 1 .. MaxExecutions
Threads == Callers \cup Executions \cup {Hook}

VARIABLES
    present,     \* whether the server has its row in the database
    reports,     \* whether the node's events carry the intent and execution ID
    execution,   \* the latest execution, 0 before the first
    run,         \* every execution, at the node
    bus,         \* OFFLINE events the subscriber has not received yet
    deciding,    \* the execution whose exit handleServerExit has been called for
    calls,       \* user calls made so far
    thread,      \* where every goroutine is
    operation,   \* who holds the reserved lifecycle operation
    marked,      \* intentionalStopRegistry: an intent that has not expired
    hooked,      \* exitHookRegistry: whether the install hook is registered
    attempts,    \* restartEntry.attemptCount
    lastStart,   \* restartEntry.lastStartTime: never, recent or stable ago
    settled,     \* history: executions whose start was over before their exit was handled
    disturbed,   \* history: unhandled executions a stop call has been in flight with
    answer       \* history: what the subscriber decided about every exit

node == <<execution, run, bus>>
registers == <<marked, hooked>>
entry == <<attempts, lastStart>>
history == <<settled, disturbed, answer>>
vars == <<present, reports, node, deciding, calls, thread, operation, registers, entry, history>>

Idle == [pc |-> "idle", goal |-> "none", launched |-> 0]
NoRun == [kind |-> "none", alive |-> FALSE, asked |-> FALSE, stable |-> FALSE]

(* The controller starts with empty registers; a remote node may have kept   *)
(* the server running meanwhile.                                             *)
Init ==
    /\ present = TRUE
    /\ reports \in BOOLEAN
    /\ execution \in {0, 1}
    /\ run = [e \in Executions |->
                IF e = execution THEN [NoRun EXCEPT !.kind = "game", !.alive = TRUE] ELSE NoRun]
    /\ bus = <<>>
    /\ deciding = 0
    /\ calls = 0
    /\ thread = [t \in Threads |-> Idle]
    /\ operation = Nobody
    /\ marked = FALSE
    /\ hooked = FALSE
    /\ attempts = 0
    /\ lastStart = "never"
    /\ settled = 1 .. execution
    /\ disturbed = {}
    /\ answer = [e \in Executions |-> "none"]

Alive == execution # 0 /\ run[execution].alive
Becomes(t, pc) == thread' = [thread EXCEPT ![t].pc = pc]
Stopping == \E t \in Threads : thread[t].pc \in {"marked", "stopping"}

(* A thread is over; a user's call gives its lifecycle operation back.       *)
Ends(t) ==
    /\ thread' = [thread EXCEPT ![t] =
           IF t \in Callers THEN Idle ELSE [Idle EXCEPT !.pc = "done"]]
    /\ operation' = IF operation = t THEN Nobody ELSE operation

-----------------------------------------------------------------------------
(* StartGameServer, for every thread that calls it.                          *)

(* The row is read once, at the start of the call.                           *)
Load(t) ==
    /\ thread[t].pc = "begin"
    /\ IF present
       THEN Becomes(t, "start") /\ UNCHANGED operation
       ELSE Ends(t)
    /\ UNCHANGED <<present, reports, deciding, calls, node, registers, entry, history>>

(* Mistake: the retries left are not taken away.                             *)
StartBlockedKeepingRetries(t) ==
    /\ thread[t].pc = "start"
    /\ Ends(t)
    /\ answer' = IF t \in Executions
                 THEN [answer EXCEPT ![t] = "blocked"] ELSE answer
    /\ UNCHANGED <<present, reports, deciding, calls, node, registers, entry, settled, disturbed>>

(* One of its configuration errors.  An automatic restart uses up the        *)
(* retries: it would only fail again.                                        *)
StartBlocked(t) ==
    /\ thread[t].pc = "start"
    /\ Ends(t)
    /\ IF t \in Executions
       THEN /\ attempts' = MaxRetries
            /\ answer' = [answer EXCEPT ![t] = "blocked"]
       ELSE UNCHANGED <<attempts, answer>>
    /\ UNCHANGED <<present, reports, deciding, calls, node, registers, lastStart, settled, disturbed>>

(* Any other failure: no node, or the node refuses because something runs.   *)
(* A failed start of an installer drops its hook and removes the new server. *)
StartFails(t) ==
    /\ thread[t].pc \in {"start", "installing"}
    /\ Ends(t)
    /\ IF thread[t].pc = "installing"
       THEN hooked' = FALSE /\ present' = FALSE
       ELSE UNCHANGED <<hooked, present>>
    /\ UNCHANGED <<reports, deciding, calls, node, marked, entry, history>>

(* The node accepts: nothing is running there.                               *)
Opens(kind) ==
    /\ ~Alive
    /\ execution < MaxExecutions
    /\ execution' = execution + 1
    /\ run' = [run EXCEPT ![execution + 1] = [NoRun EXCEPT !.kind = kind, !.alive = TRUE]]

Launch(t) ==
    /\ thread[t].pc = "start"
    /\ Opens("game")
    /\ thread' = [thread EXCEPT ![t].pc = "launched", ![t].launched = execution + 1]
    /\ disturbed' = IF Stopping THEN disturbed \cup {execution + 1} ELSE disturbed
    /\ UNCHANGED <<present, reports, deciding, calls, bus, operation, registers, entry, settled, answer>>

(* The node has started the process, but its answer is lost: to the caller   *)
(* the start has failed.                                                     *)
LaunchUnanswered(t) ==
    /\ thread[t].pc = "start"
    /\ Opens("game")
    /\ Ends(t)
    /\ UNCHANGED <<present, reports, deciding, calls, bus, registers, entry, history>>

(* Mistake: an intent that is left over survives a start.                    *)
StartKeepsIntent(t) ==
    /\ thread[t].pc = "launched"
    /\ Becomes(t, "cleared")
    /\ UNCHANGED <<present, reports, deciding, calls, node, operation, registers, entry, history>>

ClearIntent(t) ==
    /\ thread[t].pc = "launched"
    /\ marked' = FALSE
    /\ Becomes(t, "cleared")
    /\ UNCHANGED <<present, reports, deciding, calls, node, operation, hooked, entry, history>>

RecordStarted(t) ==
    /\ thread[t].pc = "cleared"
    /\ lastStart' = "recent"
    /\ settled' = IF answer[thread[t].launched] = "none"
                  THEN settled \cup {thread[t].launched} ELSE settled
    /\ Ends(t)
    /\ UNCHANGED <<present, reports, deciding, calls, node, registers, attempts, disturbed, answer>>

-----------------------------------------------------------------------------
(* StopGameServer, for the calls that stop, restart and remove.              *)

Mark ==
    /\ marked' = TRUE
    /\ disturbed' = disturbed \cup {e \in Executions : run[e].kind # "none" /\ answer[e] = "none"}

(* What follows a stop that succeeded: a restart and a removal wait for the  *)
(* server to be reported OFFLINE.                                            *)
Resumes(t) ==
    IF thread[t].goal = "stop"
    THEN Ends(t)
    ELSE Becomes(t, "offline?") /\ UNCHANGED operation

(* The node cannot be reached or the call fails: the intent is withdrawn.    *)
StopFails(t) ==
    /\ thread[t].pc \in {"marked", "stopping"}
    /\ marked' = FALSE
    /\ Ends(t)
    /\ UNCHANGED <<present, reports, deciding, calls, node, hooked, entry, history>>

(* The node does not know the command: withdrawn too, but a success.         *)
StopFindsNothing(t) ==
    /\ thread[t].pc = "marked"
    /\ ~Alive
    /\ marked' = FALSE
    /\ Resumes(t)
    /\ UNCHANGED <<present, reports, deciding, calls, node, hooked, entry, history>>

(* The node knows the command and nothing runs: success, the intent stays.   *)
StopFindsIdle(t) ==
    /\ thread[t].pc = "marked"
    /\ ~Alive
    /\ Resumes(t)
    /\ UNCHANGED <<present, reports, deciding, calls, node, registers, entry, history>>

StopReaches(t) ==
    /\ thread[t].pc = "marked"
    /\ Alive
    /\ run' = [run EXCEPT ![execution].asked = TRUE]
    /\ Becomes(t, "stopping")
    /\ UNCHANGED <<present, reports, deciding, calls, execution, bus, operation, registers, entry, history>>

(* Stop returns when the process is gone or has been killed.                 *)
StopReturns(t) ==
    /\ thread[t].pc = "stopping"
    /\ Resumes(t)
    /\ UNCHANGED <<present, reports, deciding, calls, node, registers, entry, history>>

-----------------------------------------------------------------------------
(* The users' calls.                                                         *)

Called(c) ==
    /\ thread[c].pc = "idle"
    /\ present
    /\ calls < MaxCalls
    /\ calls' = calls + 1

UserStarts(c) ==
    /\ Called(c)
    /\ thread' = [thread EXCEPT ![c] = [Idle EXCEPT !.pc = "begin", !.goal = "start"]]
    /\ UNCHANGED <<present, reports, deciding, node, operation, registers, entry, history>>

(* StopGameServer, and RemoveGameServer which begins with it.                *)
UserStops(c) ==
    /\ Called(c)
    /\ \E goal \in {"stop", "remove"} :
           thread' = [thread EXCEPT ![c] = [Idle EXCEPT !.pc = "marked", !.goal = goal]]
    /\ Mark
    /\ UNCHANGED <<present, reports, deciding, node, operation, hooked, entry, settled, answer>>

(* RestartGameServer reserves the server and requires it to run.             *)
UserRestarts(c) ==
    /\ Called(c)
    /\ operation = Nobody
    /\ Alive
    /\ run[execution].kind = "game"
    /\ operation' = c
    /\ thread' = [thread EXCEPT ![c] = [Idle EXCEPT !.pc = "confirmed", !.goal = "restart"]]
    /\ UNCHANGED <<present, reports, deciding, node, registers, entry, history>>

StopForRestart(c) ==
    /\ thread[c].pc = "confirmed"
    /\ Becomes(c, "marked")
    /\ Mark
    /\ UNCHANGED <<present, reports, deciding, calls, node, operation, hooked, entry, settled, answer>>

(* waitForGameServerOffline: the status is polled until it is OFFLINE, then  *)
(* the server is started again or its files are deleted, then its row.       *)
SeenOffline(c) ==
    /\ thread[c].pc = "offline?"
    /\ ~Alive
    /\ Becomes(c, IF thread[c].goal = "restart" THEN "begin" ELSE "deleting")
    /\ UNCHANGED <<present, reports, deciding, calls, node, operation, registers, entry, history>>

DeleteServer(c) ==
    /\ thread[c].pc = "deleting"
    /\ present' \in {present, FALSE}
    /\ Ends(c)
    /\ UNCHANGED <<reports, deciding, calls, node, registers, entry, history>>

WaitTimesOut(c) ==
    /\ thread[c].pc = "offline?"
    /\ Ends(c)
    /\ UNCHANGED <<present, reports, deciding, calls, node, registers, entry, history>>

(* InstallGameServer has just inserted the row: the hook is registered       *)
(* before the installer is started.                                          *)
RegisterHook(c) ==
    /\ Called(c)
    /\ execution = 0
    /\ ~\E t \in Threads : thread[t].pc = "installing"
    /\ hooked' = TRUE
    /\ thread' = [thread EXCEPT ![c] = [Idle EXCEPT !.pc = "installing", !.goal = "install"]]
    /\ UNCHANGED <<present, reports, deciding, node, operation, marked, entry, history>>

LaunchInstaller(c) ==
    /\ thread[c].pc = "installing"
    /\ Opens("install")
    /\ Ends(c)
    /\ UNCHANGED <<present, reports, deciding, calls, bus, registers, entry, history>>

-----------------------------------------------------------------------------
(* The subscriber: onStatusChanged and handleServerExit.                     *)

(* Mistake: a hook is fired by whatever execution exits first.               *)
HookFiresForAny(event) == hooked

(* exitHookRegistry.take.  An event without an execution ID matches any.     *)
HookFires(event) == hooked /\ (event.kind = "install" \/ ~event.identified)

(* Mistake: the intent the event carries is not looked at.                   *)
VerdictFromRegisterOnly(event) ==
    IF marked THEN "skipped" ELSE IF event.kind # "game" THEN "ignored" ELSE "none"

(* Whether an exit is to be answered at all; "none" is no answer yet.        *)
Verdict(event) ==
    IF event.intentional THEN "asked"
    ELSE IF marked THEN "skipped"
    ELSE IF event.kind # "game" THEN "ignored" ELSE "none"

(* onStatusChanged: a clean installation goes on with the post-install step, *)
(* an intent is used up, an unexpected exit is passed to handleServerExit.   *)
HandleOffline ==
    /\ bus # <<>>
    /\ deciding = 0
    /\ LET event   == Head(bus)
           e       == event.execution
           fires   == HookFires(event)
           verdict == Verdict(event)
       IN  /\ bus' = Tail(bus)
           /\ hooked' = (hooked /\ ~fires)
           /\ marked' = (marked /\ verdict \notin {"asked", "skipped"})
           /\ deciding' = IF verdict = "none" THEN e ELSE 0
           /\ answer' = [answer EXCEPT ![e] = verdict]
           /\ disturbed' = disturbed \ {e}
           /\ thread' = IF fires /\ event.clean
                        THEN [thread EXCEPT ![Hook].pc = "post-install"] ELSE thread
    /\ UNCHANGED <<present, reports, calls, execution, run, operation, entry, settled>>

Answers(verdict) ==
    /\ answer' = [answer EXCEPT ![deciding] = verdict]
    /\ deciding' = 0

(* handleServerExit: no row, or AutoRestartEnabled is off, which is read     *)
(* from the row each time and may have been changed at any time.             *)
IgnoreExit ==
    /\ deciding # 0
    /\ Answers("ignored")
    /\ UNCHANGED <<present, reports, calls, node, thread, operation, registers, entry, settled, disturbed>>

(* Mistake: any start that was recorded counts as a stable run.              *)
UsedAfterAnyStart == IF lastStart # "never" THEN 0 ELSE attempts

(* The attempts used up so far: a stable run resets them.                    *)
Used == IF lastStart = "stable" THEN 0 ELSE attempts

GiveUp ==
    /\ deciding # 0
    /\ present
    /\ Used >= MaxRetries
    /\ attempts' = Used
    /\ Answers("limit")
    /\ UNCHANGED <<present, reports, calls, node, thread, operation, registers, lastStart, settled, disturbed>>

(* The first attempt waits for a second, a later one for a growing multiple  *)
(* of the server's cooldown.                                                 *)
Delay == IF Used = 0 THEN "pause" ELSE "cooldown"

(* Mistake: one attempt more than the limit.                                 *)
ScheduleOneMore ==
    /\ deciding # 0
    /\ present
    /\ Used <= MaxRetries
    /\ attempts' = Used + 1
    /\ thread' = [thread EXCEPT ![deciding].pc = Delay]
    /\ Answers("restart")
    /\ UNCHANGED <<present, reports, calls, node, operation, registers, lastStart, settled, disturbed>>

ScheduleRestart ==
    /\ deciding # 0
    /\ present
    /\ Used < MaxRetries
    /\ attempts' = Used + 1
    /\ thread' = [thread EXCEPT ![deciding].pc = Delay]
    /\ Answers("restart")
    /\ UNCHANGED <<present, reports, calls, node, operation, registers, lastStart, settled, disturbed>>

(* The cooldown is over and the row is read again: gone, off or still on.    *)
CooldownEnds(e) ==
    /\ thread[e].pc \in {"pause", "cooldown"}
    /\ \/ present /\ Becomes(e, "begin") /\ UNCHANGED operation
       \/ Ends(e)
    /\ UNCHANGED <<present, reports, deciding, calls, node, registers, entry, history>>

(* postInstallStep succeeds or fails.                                        *)
PostInstall ==
    /\ thread[Hook].pc = "post-install"
    /\ \/ Becomes(Hook, "begin") /\ UNCHANGED operation
       \/ Ends(Hook)
    /\ UNCHANGED <<present, reports, deciding, calls, node, registers, entry, history>>

-----------------------------------------------------------------------------
(* The node and the clock.                                                   *)

(* A process exits.  A v1 node reports neither the intent nor an ID; the     *)
(* exit code matters to a hook only.                                         *)
ProcessExits ==
    /\ Alive
    /\ run' = [run EXCEPT ![execution].alive = FALSE]
    /\ \E clean \in IF hooked THEN BOOLEAN ELSE {TRUE} :
           bus' = Append(bus, [execution |-> execution, kind |-> run[execution].kind,
                               clean |-> clean, identified |-> reports,
                               intentional |-> reports /\ run[execution].asked])
    /\ UNCHANGED <<present, reports, deciding, calls, execution, thread, operation, registers, entry, history>>

(* intentionalStopWindow is over.                                            *)
IntentExpires ==
    /\ marked
    /\ marked' = FALSE
    /\ UNCHANGED <<present, reports, deciding, calls, node, thread, operation, hooked, entry, history>>

(* autoRestartStableWindow goes by.  Calls, events and the first pause take  *)
(* less than that, a cooldown may take more.                                 *)
StableWindowPasses ==
    /\ bus = <<>>
    /\ deciding = 0
    /\ \A t \in Threads : thread[t].pc \in {"idle", "done", "cooldown"}
    /\ lastStart' = IF lastStart = "recent" THEN "stable" ELSE lastStart
    /\ run' = IF Alive THEN [run EXCEPT ![execution].stable = TRUE] ELSE run
    /\ UNCHANGED <<present, reports, deciding, calls, execution, bus, thread, operation, registers, attempts, history>>

-----------------------------------------------------------------------------
StartStep(t) ==
    \/ Load(t) \/ StartBlocked(t) \/ StartFails(t) \/ Launch(t) \/ LaunchUnanswered(t)
    \/ ClearIntent(t) \/ RecordStarted(t)

CallStep(c) ==
    \/ UserStarts(c) \/ UserStops(c) \/ UserRestarts(c) \/ StopForRestart(c)
    \/ StopFails(c) \/ StopFindsNothing(c) \/ StopFindsIdle(c) \/ StopReaches(c)
    \/ StopReturns(c) \/ SeenOffline(c) \/ DeleteServer(c) \/ WaitTimesOut(c)
    \/ RegisterHook(c) \/ LaunchInstaller(c)

Next ==
    \/ \E t \in Threads : StartStep(t)
    \/ \E c \in Callers : CallStep(c)
    \/ \E e \in Executions : CooldownEnds(e)
    \/ HandleOffline \/ IgnoreExit \/ GiveUp \/ ScheduleRestart
    \/ PostInstall
    \/ ProcessExits
    \/ IntentExpires
    \/ StableWindowPasses

Spec == Init /\ [][Next]_vars

-----------------------------------------------------------------------------
(* Properties.                                                               *)

Events == [execution : Executions, kind : {"game", "install"}, clean : BOOLEAN,
           identified : BOOLEAN, intentional : BOOLEAN]

(* Every variable has its type; the retry counter never passes the limit.    *)
TypeOK ==
    /\ present \in BOOLEAN
    /\ reports \in BOOLEAN
    /\ execution \in 0 .. MaxExecutions
    /\ run \in [Executions -> [kind : {"none", "game", "install"}, alive : BOOLEAN,
                               asked : BOOLEAN, stable : BOOLEAN]]
    /\ bus \in Seq(Events)
    /\ deciding \in 0 .. MaxExecutions
    /\ calls \in 0 .. MaxCalls
    /\ thread \in [Threads ->
           [pc : {"idle", "begin", "start", "launched", "cleared", "confirmed", "marked", "stopping",
                  "offline?", "deleting", "installing", "pause", "cooldown", "post-install", "done"},
            goal : {"none", "start", "stop", "remove", "restart", "install"},
            launched : 0 .. MaxExecutions]]
    /\ operation \in Callers \cup {Nobody}
    /\ marked \in BOOLEAN
    /\ hooked \in BOOLEAN
    /\ attempts \in 0 .. MaxRetries
    /\ lastStart \in {"never", "recent", "stable"}
    /\ settled \subseteq Executions
    /\ disturbed \subseteq Executions
    /\ answer \in [Executions -> {"none", "asked", "skipped", "ignored", "limit", "restart", "blocked"}]

Restarted(e) == answer[e] \in {"restart", "blocked"}

(* On a node that reports the intent, an execution that somebody asked to    *)
(* stop while it ran is never answered with an automatic restart, whatever   *)
(* other calls have done to the controller's register meanwhile.             *)
StoppedServersAreNotRestarted ==
    reports => \A e \in Executions : Restarted(e) => ~run[e].asked

(* An exit is taken for a requested stop, on the register alone, only if     *)
(* some stop call was in flight during that very execution: what a stop of   *)
(* an idle server leaves behind does not reach the next one, once its start  *)
(* is over.                                                                  *)
CrashIsNotMistakenForStop ==
    [][\A e \in settled :
          answer[e] = "none" /\ answer'[e] = "skipped" => e \in disturbed]_vars

(* The exit hook of an installation is not used up, and the post-install     *)
(* step not run, by the exit of another process of the same server.          *)
HookBelongsToTheInstaller ==
    [][reports /\ hooked /\ ~hooked' /\ bus' # bus => Head(bus).kind = "install"]_vars

(* A server that keeps crashing is not restarted more than MaxRetries times: *)
(* counting from the last execution that ran stably, or whose start was not  *)
(* over when it exited.                                                      *)
RetriesAreBounded ==
    \A last \in Executions \cup {0} :
        Cardinality({e \in Executions :
            /\ e > last
            /\ \A g \in last + 1 .. e : g \in settled /\ ~run[g].stable
            /\ Restarted(e)}) <= MaxRetries

(* What the retry limit is documented to be: only executions that ran for    *)
(* the stable window end the count.                                          *)
OnlyStableRunsResetTheCounter ==
    \A last \in Executions \cup {0} :
        Cardinality({e \in Executions :
            /\ e > last
            /\ \A g \in last + 1 .. e : ~run[g].stable
            /\ Restarted(e)}) <= MaxRetries

(* After an automatic restart was blocked by the server's configuration, no  *)
(* crash is answered with another until a stable run.                        *)
BlockedStartsAreNotRetried ==
    [][\A e, f \in Executions :
          /\ answer[e] = "blocked"
          /\ answer[f] = "none"
          /\ answer'[f] = "restart"
          => \E g \in e + 1 .. f : run[g].stable \/ g \notin settled]_vars

====
