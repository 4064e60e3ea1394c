-------------------------- MODULE SchedulerProofs --------------------------
(***************************************************************************)
(* Theorems about Scheduler, for any tasks, callers, schedules and jobs.   *)
(*                                                                         *)
(* A job is known by the table, or by the one call that is about to remove *)
(* or to record it, and to nobody else (HeldInv): so no call removes the   *)
(* job of another task, however calls overlap.  MatchInv says what a call  *)
(* that does not overlap with another finds, step by step; its conclusion  *)
(* for a task without a call is SchedulesMatchRows.  RestartInv is about   *)
(* the executions, which only ever go forward, as the calls do.            *)
(***************************************************************************)
EXTENDS Scheduler, Naturals, TLAPS

Holding(c) == call[c].at \in {"removing", "recording"}

HeldInv ==
    /\ \A t \in Tasks : table[t] # None => job[table[t]].task = t
    /\ \A c \in Callers : Holding(c) =>
          /\ job[call[c].job].task = call[c].task
          /\ table[call[c].task] # call[c].job
    /\ \A c, d \in Callers : Holding(c) /\ Holding(d) /\ c # d => call[c].job # call[d].job

(* The job of a task is the one the table knows.                            *)
InTable(t) == JobsOf(t) = IF table[t] = None THEN {} ELSE {table[t]}

(* What a call has read of the row is still true.                           *)
UpToDate(c) ==
    LET t == call[c].task IN
    /\ call[c].enabled <=> Enabled(t)
    /\ call[c].enabled => call[c].cron = row[t].cron

(* What a call finds when no other has overlapped with it.                  *)
Finds(c) ==
    LET t == call[c].task IN
    /\ call[c].at \in {"reading", "taking"} => InTable(t)
    /\ call[c].at \in {"removing", "creating", "adding", "recording"} => table[t] = None
    /\ call[c].at \in {"creating", "adding"} => JobsOf(t) = {}
    /\ Holding(c) => JobsOf(t) = {call[c].job}
    /\ call[c].at \in {"creating", "adding", "recording"} => call[c].enabled
    /\ call[c].at = "recording" => job[call[c].job].cron = call[c].cron
    /\ call[c].at # "reading" => UpToDate(c)

(* What SchedulesMatchRows says of a task without a call.                   *)
Settled(t) ==
    IF Enabled(t)
    THEN /\ table[t] # None
         /\ JobsOf(t) = {table[t]}
         /\ job[table[t]].cron = row[t].cron
    ELSE table[t] = None /\ JobsOf(t) = {}

Matches(t) ==
    /\ \A c, d \in CallsOn(t) : c = d
    /\ \A c \in CallsOn(t) : Finds(c)
    /\ CallsOn(t) = {} => Settled(t)

MatchInv == \A t \in Tasks \ disturbed : Matches(t)

(* A restart did not succeed since the server was last started.             *)
Unsuccessful == failed # {} \/ unrecorded

RestartInv == server.asked = "schedule" => Restarting # {} \/ Unsuccessful

IInv ==
    /\ TypeOK
    /\ HeldInv
    /\ MatchInv
    /\ RestartInv

-----------------------------------------------------------------------------
(* An initial state satisfies the invariant.                                *)
LEMMA Initially == Init => IInv
<1> SUFFICES ASSUME Init
             PROVE  IInv
    OBVIOUS
<1> USE SchedulerAssumption
<1>1. TypeOK
    BY DEF Init, TypeOK, Rows, JobRecords, NoJob, Calls, NoCall, CallPoints, Execs, NoExec,
           ExecPoints, Servers
<1>2. /\ \A c \in Callers : ~Holding(c)
      /\ \A t \in Tasks : CallsOn(t) = {} /\ JobsOf(t) = {} /\ ~Enabled(t)
    BY DEF Init, Holding, CallsOn, NoCall, JobsOf, Enabled
<1>3. HeldInv
    BY <1>2 DEF Init, HeldInv
<1>4. MatchInv
    BY <1>2 DEF Init, MatchInv, Matches, Settled
<1>5. RestartInv
    BY DEF Init, RestartInv
<1> QED BY <1>1, <1>3, <1>4, <1>5 DEF IInv

-----------------------------------------------------------------------------
(* The types.                                                               *)

CallOK(r) ==
    /\ r \in Calls
    /\ r.at # "idle" => r.task \in Tasks
    /\ r.at \in {"removing", "recording"} => r.job \in Jobs
    /\ r.enabled \/ r.at \in {"creating", "adding"} => r.cron \in Schedules

LEMMA NoCallOK == CallOK(NoCall)
BY DEF CallOK, NoCall, Calls, CallPoints

LEMMA CallsOK ==
    ASSUME TypeOK, NEW c \in Callers
    PROVE  CallOK(call[c])
BY DEF TypeOK, CallOK

LogOK == failed \subseteq Tasks /\ unrecorded \in BOOLEAN

(* A deleted row takes its entries with it, but no failure is forgotten.    *)
LEMMA RowDeleted ==
    ASSUME TypeOK, NEW t \in Tasks, DeleteRow(t)
    PROVE  LogOK' /\ (Unsuccessful => Unsuccessful')
BY DEF TypeOK, DeleteRow, LogOK, Unsuccessful

(* Nor is one that is logged, or cannot be.                                 *)
LEMMA Logged ==
    ASSUME TypeOK, NEW t \in Tasks, Log(t)
    PROVE  LogOK' /\ Unsuccessful'
BY DEF TypeOK, Log, LogOK, Unsuccessful

LEMMA LogKept ==
    ASSUME TypeOK, UNCHANGED log
    PROVE  LogOK' /\ (Unsuccessful => Unsuccessful')
BY DEF TypeOK, log, LogOK, Unsuccessful

LEMMA CallLogs ==
    ASSUME TypeOK, NEW c \in Callers, CallStep(c)
    PROVE  /\ UNCHANGED <<exec, server>>
           /\ LogOK' /\ (Unsuccessful => Unsuccessful')
<1>1. UNCHANGED <<exec, server>>
    BY DEF CallStep, CreateScheduledTask, UpdateScheduledTask, DeleteScheduledTask, Begin,
           ReadBack, ReadBackFails, TakeEntry, RemoveJob, NewJob, RecordEntry, NewJobFails, Others
<1>2. ASSUME NEW t \in Tasks, DeleteScheduledTask(c, t)
      PROVE  LogOK' /\ (Unsuccessful => Unsuccessful')
    BY <1>2, RowDeleted DEF DeleteScheduledTask
<1>3. CASE NewJobFails(c)
  <2>1. call[c].at = "creating" => call[c].task \in Tasks
      BY DEF TypeOK
  <2>2. (call[c].at = "creating" /\ DeleteRow(call[c].task)) \/ UNCHANGED log
      BY <1>3 DEF NewJobFails
  <2>3. CASE call[c].at = "creating" /\ DeleteRow(call[c].task)
      BY <1>1, <2>1, <2>3, RowDeleted
  <2>4. CASE UNCHANGED log
      BY <1>1, <2>4, LogKept
  <2> QED BY <2>2, <2>3, <2>4
<1>4. ASSUME NEW t \in Tasks, NEW enabled \in BOOLEAN, NEW cron \in Schedules,
             \/ CreateScheduledTask(c, t, enabled, cron)
             \/ UpdateScheduledTask(c, t, enabled, cron)
      PROVE  UNCHANGED log
    BY <1>4 DEF CreateScheduledTask, UpdateScheduledTask
<1>5. CASE \/ ReadBack(c) \/ ReadBackFails(c) \/ TakeEntry(c) \/ RemoveJob(c)
           \/ NewJob(c) \/ RecordEntry(c)
    BY <1>5, LogKept DEF ReadBack, ReadBackFails, TakeEntry, RemoveJob, NewJob, RecordEntry, Others
<1> QED BY <1>1, <1>2, <1>3, <1>4, <1>5, LogKept DEF CallStep

(* One call moves on; each of the other variables keeps its type.           *)
LEMMA CallMoves ==
    ASSUME TypeOK, NEW c \in Callers, NEW r, CallOK(r), call' = [call EXCEPT ![c] = r],
           row' \in [Tasks -> Rows],
           \A t \in Tasks : row'[t].state = "present" => row'[t].cron \in Schedules,
           job' \in [Jobs -> JobRecords], table' \in [Tasks -> Jobs \cup {None}],
           disturbed' \subseteq Tasks, LogOK', UNCHANGED <<exec, server>>
    PROVE  TypeOK'
BY DEF TypeOK, CallOK, LogOK

LEMMA CallTypes ==
    ASSUME TypeOK, NEW c \in Callers, CallStep(c)
    PROVE  TypeOK'
<1>r. CallOK(call[c]) /\ CallOK(NoCall)
    BY CallsOK, NoCallOK
<1>t. /\ row \in [Tasks -> Rows] /\ job \in [Jobs -> JobRecords]
      /\ table \in [Tasks -> Jobs \cup {None}] /\ disturbed \subseteq Tasks
      /\ call \in [Callers -> Calls]
      /\ \A t \in Tasks : row[t].state = "present" => row[t].cron \in Schedules
    BY DEF TypeOK
<1>l. LogOK'
    BY CallLogs
<1>g. ASSUME NEW t \in Tasks, row' = [row EXCEPT ![t] = [state |-> "deleted", enabled |-> FALSE,
                                                       cron |-> None]]
      PROVE  /\ row' \in [Tasks -> Rows]
             /\ \A u \in Tasks : row'[u].state = "present" => row'[u].cron \in Schedules
    BY <1>t, <1>g DEF Rows
<1>1. ASSUME NEW t \in Tasks, NEW enabled \in BOOLEAN, NEW cron \in Schedules,
             CreateScheduledTask(c, t, enabled, cron)
      PROVE  TypeOK'
  <2> DEFINE r == IF enabled THEN [at |-> "creating", task |-> t, enabled |-> TRUE,
                                   cron |-> cron, job |-> None]
                             ELSE NoCall
  <2>1. /\ call' = [call EXCEPT ![c] = r]
        /\ row' = [row EXCEPT ![t] = [state |-> "present", enabled |-> enabled, cron |-> cron]]
        /\ disturbed' \subseteq Tasks
        /\ UNCHANGED <<job, table, exec, server>>
      BY <1>1, <1>t DEF CreateScheduledTask, Begin
  <2>2. CallOK(r)
      BY <1>r DEF CallOK, Calls, CallPoints
  <2>3. /\ row' \in [Tasks -> Rows]
        /\ \A u \in Tasks : row'[u].state = "present" => row'[u].cron \in Schedules
      BY <2>1, <1>t DEF Rows
  <2> QED BY <2>1, <2>2, <2>3, <1>l, <1>t, CallMoves
<1>2. ASSUME NEW t \in Tasks, NEW enabled \in BOOLEAN, NEW cron \in Schedules,
             UpdateScheduledTask(c, t, enabled, cron)
      PROVE  TypeOK'
  <2> DEFINE r == [at |-> "reading", task |-> t, enabled |-> FALSE, cron |-> None,
                   job |-> None]
  <2>1. /\ call' = [call EXCEPT ![c] = r]
        /\ row' = [row EXCEPT ![t].enabled = enabled, ![t].cron = cron]
        /\ disturbed' \subseteq Tasks
        /\ UNCHANGED <<job, table, exec, server>>
      BY <1>2, <1>t DEF UpdateScheduledTask, Begin
  <2>2. CallOK(r)
      BY DEF CallOK, Calls, CallPoints
  <2>3. row[t] \in Rows
      BY <1>t
  <2>4. row' = [row EXCEPT ![t] = [row[t] EXCEPT !.enabled = enabled, !.cron = cron]]
      BY <2>1, <1>t
  <2>5. [row[t] EXCEPT !.enabled = enabled, !.cron = cron] \in Rows
      BY <2>3 DEF Rows
  <2>6. row' \in [Tasks -> Rows]
      BY <2>4, <2>5, <1>t
  <2>7. ASSUME NEW u \in Tasks, row'[u].state = "present"
        PROVE  row'[u].cron \in Schedules
    <3>1. CASE u = t
      <4>1. row'[u] = [row[t] EXCEPT !.enabled = enabled, !.cron = cron]
          BY <2>4, <3>1, <1>t
      <4> QED BY <4>1, <2>3 DEF Rows
    <3>2. CASE u # t
        BY <2>4, <2>7, <3>2, <1>t
    <3> QED BY <3>1, <3>2
  <2> QED BY <2>1, <2>2, <2>6, <2>7, <1>l, <1>t, CallMoves
<1>3. ASSUME NEW t \in Tasks, DeleteScheduledTask(c, t)
      PROVE  TypeOK'
  <2> DEFINE r == [at |-> "taking", task |-> t, enabled |-> FALSE, cron |-> None,
                   job |-> None]
  <2>1. /\ call' = [call EXCEPT ![c] = r]
        /\ row' = [row EXCEPT ![t] = [state |-> "deleted", enabled |-> FALSE, cron |-> None]]
        /\ disturbed' \subseteq Tasks
        /\ UNCHANGED <<job, table, exec, server>>
      BY <1>3, <1>t DEF DeleteScheduledTask, DeleteRow, Begin
  <2>2. CallOK(r)
      BY DEF CallOK, Calls, CallPoints
  <2> QED BY <2>1, <2>2, <1>g, <1>l, <1>t, CallMoves
<1>4. CASE ReadBack(c)
  <2> DEFINE t == call[c].task
             r == [call[c] EXCEPT !.at = "taking", !.enabled = row[t].enabled,
                                  !.cron = row[t].cron]
  <2>1. /\ call[c].at = "reading"
        /\ row[t].state = "present"
        /\ call' = [call EXCEPT ![c] = r]
        /\ UNCHANGED <<row, job, table, disturbed, exec, server>>
      BY <1>4, <1>t DEF ReadBack, Others
  <2>2. t \in Tasks /\ row[t] \in Rows /\ row[t].cron \in Schedules
      BY <2>1, <1>r, <1>t DEF CallOK
  <2>3. CallOK(r)
      BY <2>1, <2>2, <1>r DEF CallOK, Calls, CallPoints, Rows
  <2> QED BY <2>1, <2>3, <1>l, <1>t, CallMoves
<1>5. CASE ReadBackFails(c)
  <2>1. /\ call' = [call EXCEPT ![c] = NoCall]
        /\ disturbed' \subseteq Tasks
        /\ UNCHANGED <<row, job, table, exec, server>>
      BY <1>5, <1>r, <1>t DEF ReadBackFails, Others, CallOK
  <2> QED BY <2>1, <1>r, <1>l, <1>t, CallMoves
<1>m. call[c].at # "idle" => CallOK(Removed(c))
    BY <1>r DEF Removed, CallOK, Calls, CallPoints
<1>6. CASE TakeEntry(c)
  <2> DEFINE t == call[c].task
             r == IF table[t] = None THEN Removed(c)
                  ELSE [call[c] EXCEPT !.at = "removing", !.job = table[t]]
  <2>1. /\ call[c].at = "taking"
        /\ call' = [call EXCEPT ![c] = r]
        /\ table' = [table EXCEPT ![t] = None]
        /\ UNCHANGED <<row, job, disturbed, exec, server>>
      BY <1>6, <1>t DEF TakeEntry, Others
  <2>2. t \in Tasks
      BY <2>1, <1>r DEF CallOK
  <2>3. CallOK(r)
    <3>1. CASE table[t] = None
        BY <3>1, <2>1, <1>m
    <3>2. CASE table[t] # None
      <4>1. table[t] \in Jobs
          BY <3>2, <2>2, <1>t
      <4> QED BY <3>2, <4>1, <2>1, <1>r DEF CallOK, Calls, CallPoints
    <3> QED BY <3>1, <3>2
  <2>4. table' \in [Tasks -> Jobs \cup {None}]
      BY <2>1, <1>t
  <2> QED BY <2>1, <2>3, <2>4, <1>l, <1>t, CallMoves
<1>7. CASE RemoveJob(c)
  <2>1. /\ call[c].at = "removing"
        /\ job' = [job EXCEPT ![call[c].job] = NoJob]
        /\ call' = [call EXCEPT ![c] = Removed(c)]
        /\ UNCHANGED <<row, table, disturbed, exec, server>>
      BY <1>7 DEF RemoveJob, Others
  <2>2. job' \in [Jobs -> JobRecords]
      BY <2>1, <1>t DEF JobRecords
  <2> QED BY <2>1, <2>2, <1>m, <1>l, <1>t, CallMoves
<1>8. CASE NewJob(c)
  <2>1. PICK k \in Jobs :
          /\ job' = [job EXCEPT ![k] = [task |-> call[c].task, cron |-> call[c].cron]]
          /\ call' = [call EXCEPT ![c].at = "recording", ![c].job = k]
      BY <1>8 DEF NewJob, Others
  <2> DEFINE r == [call[c] EXCEPT !.at = "recording", !.job = k]
  <2>2. call[c].at \in {"creating", "adding"} /\ UNCHANGED <<row, table, disturbed, exec, server>>
      BY <1>8 DEF NewJob, Others
  <2>3. call[c].task \in Tasks /\ call[c].cron \in Schedules
      BY <2>2, <1>r DEF CallOK
  <2>4. call' = [call EXCEPT ![c] = r]
      BY <2>1, <1>t
  <2>5. CallOK(r)
      BY <2>2, <2>3, <1>r DEF CallOK, Calls, CallPoints
  <2>6. job' \in [Jobs -> JobRecords]
      BY <2>1, <2>3, <1>t DEF JobRecords
  <2> QED BY <2>2, <2>4, <2>5, <2>6, <1>l, <1>t, CallMoves
<1>9. CASE RecordEntry(c)
  <2>1. /\ call[c].at = "recording"
        /\ table' = [table EXCEPT ![call[c].task] = call[c].job]
        /\ call' = [call EXCEPT ![c] = NoCall]
        /\ UNCHANGED <<row, job, disturbed, exec, server>>
      BY <1>9 DEF RecordEntry, Others
  <2>2. call[c].job \in Jobs
      BY <2>1, <1>r DEF CallOK
  <2>3. table' \in [Tasks -> Jobs \cup {None}]
      BY <2>1, <2>2, <1>t
  <2> QED BY <2>1, <2>3, <1>r, <1>l, <1>t, CallMoves
<1>10. CASE NewJobFails(c)
  <2> DEFINE t == call[c].task
  <2>1. /\ call' = [call EXCEPT ![c] = NoCall]
        /\ UNCHANGED <<job, table, exec, server>>
      BY <1>10 DEF NewJobFails
  <2>2. CASE /\ call[c].at = "creating"
             /\ row' = [row EXCEPT ![t] = [state |-> "deleted", enabled |-> FALSE, cron |-> None]]
             /\ UNCHANGED disturbed
    <3>1. t \in Tasks
        BY <2>2, <1>r DEF CallOK
    <3> QED BY <2>1, <2>2, <3>1, <1>g, <1>r, <1>l, <1>t, CallMoves
  <2>3. CASE /\ call[c].at \in {"creating", "adding"}
             /\ disturbed' = disturbed \cup {t}
             /\ UNCHANGED row
    <3>1. t \in Tasks
        BY <2>3, <1>r DEF CallOK
    <3> QED BY <2>1, <2>3, <3>1, <1>r, <1>l, <1>t, CallMoves
  <2> QED BY <2>2, <2>3, <1>10 DEF NewJobFails, DeleteRow
<1> QED
    BY <1>1, <1>2, <1>3, <1>4, <1>5, <1>6, <1>7, <1>8, <1>9, <1>10 DEF CallStep

(* A step of an execution and the server changes only those.                *)
LEMMA ExecutionMoves ==
    ASSUME TypeOK, exec' \in [Jobs -> Execs], \A k \in Jobs : exec'[k].at # "idle" => exec'[k].task \in Tasks,
           server' \in Servers, LogOK', UNCHANGED Store
    PROVE  TypeOK'
BY DEF TypeOK, LogOK, Store

LEMMA ServerStatuses ==
    /\ Started \in Servers
    /\ \A s \in Servers :
          /\ [s EXCEPT !.asked = "user"] \in Servers
          /\ [s EXCEPT !.asked = "schedule"] \in Servers
          /\ [s EXCEPT !.status = "ONLINE"] \in Servers
          /\ [s EXCEPT !.status = "OFFLINE"] \in Servers
BY DEF Servers, Started

LEMMA ExecutionTypes ==
    ASSUME TypeOK, NEW k \in Jobs, Fire(k) \/ ExecutionStep(k)
    PROVE  TypeOK'
<1> USE SchedulerAssumption
<1>t. /\ exec \in [Jobs -> Execs] /\ server \in Servers
      /\ \A j \in Jobs : exec[j].at # "idle" => exec[j].task \in Tasks
      /\ job \in [Jobs -> JobRecords]
    BY DEF TypeOK
<1>l. UNCHANGED log => LogOK'
    BY LogKept
<1>e. ASSUME exec' = [exec EXCEPT ![k] = NoExec]
      PROVE  /\ exec' \in [Jobs -> Execs]
             /\ \A j \in Jobs : exec'[j].at # "idle" => exec'[j].task \in Tasks
    BY <1>t, <1>e DEF Execs, NoExec, ExecPoints
<1>m. ASSUME NEW from \in ExecPoints \ {"idle"}, NEW to \in ExecPoints, exec[k].at = from,
             exec' = [exec EXCEPT ![k].at = to]
      PROVE  /\ exec' \in [Jobs -> Execs]
             /\ \A j \in Jobs : exec'[j].at # "idle" => exec'[j].task \in Tasks
    BY <1>t, <1>m DEF Execs
<1>1. CASE Fire(k)
  <2>1. /\ exec' = [exec EXCEPT ![k] = [at |-> "fired", task |-> job[k].task]]
        /\ UNCHANGED <<server, log, Store>>
        /\ job[k] # NoJob
      BY <1>1 DEF Fire
  <2>2. job[k].task \in Tasks
      BY <2>1, <1>t DEF JobRecords
  <2>3. /\ exec' \in [Jobs -> Execs]
        /\ \A j \in Jobs : exec'[j].at # "idle" => exec'[j].task \in Tasks
      BY <2>1, <2>2, <1>t DEF Execs, ExecPoints
  <2> QED BY <2>1, <2>3, <1>l, <1>t, ExecutionMoves
<1>2. ASSUME UNCHANGED Store, exec' = [exec EXCEPT ![k] = NoExec],
             server' \in Servers, LogOK'
      PROVE  TypeOK'
    BY <1>2, <1>e, ExecutionMoves
<1>3. ASSUME NEW from \in ExecPoints \ {"idle"}, NEW to \in ExecPoints, Move(k, from, to),
             server' \in Servers, UNCHANGED log
      PROVE  TypeOK'
    BY <1>3, <1>l, <1>m, <1>t, ExecutionMoves DEF Move
<1>k. ASSUME NEW from \in SUBSET (ExecPoints \ {"idle"}), NEW success \in BOOLEAN,
             End(k, from, success)
      PROVE  TypeOK'
  <2>1. exec[k].at # "idle" /\ exec[k].task \in Tasks
      BY <1>k, <1>t DEF End
  <2>2. UNCHANGED log \/ Log(exec[k].task)
      BY <1>k DEF End
  <2>3. LogOK'
      BY <2>1, <2>2, Logged, LogKept
  <2>4. /\ UNCHANGED Store /\ exec' = [exec EXCEPT ![k] = NoExec]
        /\ server' \in Servers
      BY <1>k, <1>t DEF End
  <2> QED BY <2>3, <2>4, <1>2
<1>4. CASE Load(k)
  <2>1. CASE Move(k, "fired", "checking") /\ UNCHANGED <<server, log>>
      BY <2>1, <1>3, <1>t DEF ExecPoints
  <2>2. CASE End(k, {"fired"}, TRUE)
      BY <2>2, <1>k DEF ExecPoints
  <2> QED BY <2>1, <2>2, <1>4 DEF Load
<1>5. CASE Refuse(k) \/ StopFails(k) \/ TimesOut(k) \/ StartFails(k)
    BY <1>5, <1>k DEF Refuse, StopFails, TimesOut, StartFails, ExecPoints
<1>6. CASE Confirm(k)
    BY <1>6, <1>3, <1>t DEF Confirm, ExecPoints
<1>7. CASE StopReaches(k)
  <2>1. server' \in Servers
    <3>1. \/ server' = [server EXCEPT !.asked = "schedule"]
          \/ server' = [server EXCEPT !.asked = server.asked]
        BY <1>7 DEF StopReaches
    <3>2. [server EXCEPT !.asked = server.asked] = server
        BY <1>t DEF Servers
    <3> QED BY <3>1, <3>2, <1>t, ServerStatuses
  <2>2. Move(k, "confirmed", "stopping") /\ UNCHANGED log
      BY <1>7 DEF StopReaches
  <2> QED BY <2>1, <2>2, <1>3 DEF ExecPoints
<1>8. CASE StopFindsNothing(k)
    BY <1>8, <1>3, <1>t DEF StopFindsNothing, ExecPoints
<1>9. CASE StopReturns(k)
    BY <1>9, <1>3, <1>t DEF StopReturns, ExecPoints
<1>10. CASE SeenOffline(k)
    BY <1>10, <1>3, <1>t DEF SeenOffline, ExecPoints
<1>11. CASE StartIssued(k) \/ StartAnswerLost(k)
  <2>1. exec[k].task \in Tasks
      BY <1>11, <1>t DEF StartIssued, StartAnswerLost
  <2>2. LogOK'
      BY <2>1, <1>11 DEF StartIssued, StartAnswerLost, Start, LogOK
  <2>3. /\ UNCHANGED Store /\ exec' = [exec EXCEPT ![k] = NoExec]
        /\ server' \in Servers
      BY <1>11, ServerStatuses DEF StartIssued, StartAnswerLost, Start
  <2> QED BY <2>2, <2>3, <1>2
<1> QED
    BY <1>1, <1>4, <1>5, <1>6, <1>7, <1>8, <1>9, <1>10, <1>11 DEF ExecutionStep

LEMMA ServerTypes ==
    ASSUME TypeOK, ServerStep
    PROVE  TypeOK'
<1>1. server' \in Servers
    BY ServerStatuses DEF TypeOK, ServerStep, UserStarts, Start, GoesOnline, UserStops, Exits
<1>3. LogOK'
    BY LogKept DEF LogOK, ServerStep, UserStarts, Start, GoesOnline, UserStops, Exits
<1>2. UNCHANGED <<exec, Store>>
    BY DEF ServerStep, UserStarts, GoesOnline, UserStops, Exits
<1> QED BY <1>1, <1>2, <1>3, ExecutionMoves DEF TypeOK

LEMMA RestartTypes ==
    ASSUME TypeOK, ControllerRestarts
    PROVE  TypeOK'
<1> USE SchedulerAssumption
<1>1. PICK chosen \in [Tasks -> Jobs \cup {None}] :
          /\ \A t \in Tasks : chosen[t] # None => Enabled(t)
          /\ table' = chosen
          /\ job' = [k \in Jobs |->
                IF \E t \in Tasks : chosen[t] = k
                THEN LET t == CHOOSE u \in Tasks : chosen[u] = k
                     IN  [task |-> t, cron |-> row[t].cron]
                ELSE NoJob]
          /\ disturbed' = {t \in Tasks : Enabled(t) /\ chosen[t] = None}
    BY DEF ControllerRestarts
<1>2. ASSUME NEW k \in Jobs
      PROVE  job'[k] \in JobRecords
  <2>1. CASE \E t \in Tasks : chosen[t] = k
    <3> DEFINE t == CHOOSE u \in Tasks : chosen[u] = k
    <3>1. t \in Tasks /\ chosen[t] = k
        BY <2>1
    <3>2. Enabled(t)
        BY <3>1, <1>1
    <3>3. row[t].cron \in Schedules
        BY <3>2, <3>1 DEF TypeOK, Enabled
    <3> QED BY <2>1, <3>1, <3>3, <1>1 DEF JobRecords
  <2> QED BY <2>1, <1>1 DEF JobRecords
<1>3. /\ call' = [c \in Callers |-> NoCall]
      /\ exec' = [k \in Jobs |-> NoExec]
      /\ unrecorded' = (unrecorded \/ Restarting # {})
      /\ UNCHANGED <<row, server, failed>>
    BY DEF ControllerRestarts
<1> QED
    BY <1>1, <1>2, <1>3 DEF TypeOK, Calls, NoCall, CallPoints, Execs, NoExec, ExecPoints

-----------------------------------------------------------------------------
(* Who knows which job.                                                     *)

LEMMA CallHeld ==
    ASSUME TypeOK, HeldInv, NEW c \in Callers, CallStep(c)
    PROVE  HeldInv'
<1> USE SchedulerAssumption
<1>t. /\ call \in [Callers -> Calls] /\ job \in [Jobs -> JobRecords]
      /\ table \in [Tasks -> Jobs \cup {None}]
      /\ CallOK(call[c])
    BY CallsOK DEF TypeOK
<1>1. ASSUME NEW r, call' = [call EXCEPT ![c] = r], r.at \notin {"removing", "recording"},
             UNCHANGED <<job, table>>
      PROVE  HeldInv'
    BY <1>1, <1>t DEF HeldInv, Holding
<1>2. NoCall.at = "idle"
    BY DEF NoCall
<1>3. ASSUME NEW t \in Tasks, NEW enabled \in BOOLEAN, NEW cron \in Schedules,
             \/ CreateScheduledTask(c, t, enabled, cron)
             \/ UpdateScheduledTask(c, t, enabled, cron)
      PROVE  HeldInv'
    BY <1>1, <1>2, <1>3 DEF CreateScheduledTask, UpdateScheduledTask, Begin
<1>11. ASSUME NEW t \in Tasks, DeleteScheduledTask(c, t)
       PROVE  HeldInv'
    BY <1>1, <1>11 DEF DeleteScheduledTask, Begin
<1>4. CASE ReadBack(c)
  <2> DEFINE r == [call[c] EXCEPT !.at = "taking", !.enabled = row[call[c].task].enabled,
                                  !.cron = row[call[c].task].cron]
  <2>1. call' = [call EXCEPT ![c] = r] /\ UNCHANGED <<job, table>>
      BY <1>4, <1>t DEF ReadBack
  <2>2. r.at = "taking"
      BY <1>t DEF Calls
  <2> QED BY <2>1, <2>2, <1>1
<1>5. CASE ReadBackFails(c) \/ NewJobFails(c)
    BY <1>1, <1>2, <1>5 DEF ReadBackFails, NewJobFails
<1>6. Removed(c).at \in {"adding", "idle"}
    BY <1>t, <1>2 DEF Removed, Calls
<1>7. CASE TakeEntry(c)
  <2> DEFINE t == call[c].task
  <2>1. call[c].at = "taking" /\ UNCHANGED job /\ table' = [table EXCEPT ![t] = None]
      BY <1>7 DEF TakeEntry
  <2>2. t \in Tasks
      BY <2>1, <1>t DEF CallOK
  <2>3. CASE table[t] = None
    <3>1. call' = [call EXCEPT ![c] = Removed(c)] /\ UNCHANGED table
        BY <2>3, <2>1, <2>2, <1>7, <1>t DEF TakeEntry
    <3> QED BY <3>1, <2>1, <1>6, <1>1
  <2>4. CASE table[t] # None
    <3> DEFINE r == [call[c] EXCEPT !.at = "removing", !.job = table[t]]
    <3>1. call' = [call EXCEPT ![c] = r]
        BY <2>4, <1>7, <1>t DEF TakeEntry
    <3>2. r.at = "removing" /\ r.job = table[t] /\ r.task = t
        BY <1>t DEF Calls
    <3>3. /\ call'[c] = r
          /\ \A d \in Callers : d # c => call'[d] = call[d]
        BY <3>1, <1>t
    <3>4. job[table[t]].task = t
        BY <2>4, <2>2 DEF HeldInv
    <3>5. ASSUME NEW d \in Callers, d # c, Holding(d)
          PROVE  call[d].job # table[t] /\ call[d].task \in Tasks
      <4>1. CallOK(call[d])
          BY CallsOK
      <4>2. call[d].task \in Tasks
          BY <3>5, <4>1 DEF Holding, CallOK
      <4>3. job[call[d].job].task = call[d].task /\ table[call[d].task] # call[d].job
          BY <3>5 DEF HeldInv
      <4> QED BY <4>2, <4>3, <3>4
    <3>6. \A u \in Tasks : table'[u] # None => table'[u] = table[u] /\ u # t
        BY <2>1, <2>2, <1>t
    <3>7. \A u \in Tasks : table'[u] # None => job'[table'[u]].task = u
        BY <3>6, <2>1 DEF HeldInv
    <3>8. ASSUME NEW d \in Callers, Holding(d)'
          PROVE  job'[call'[d].job].task = call'[d].task /\ table'[call'[d].task] # call'[d].job
      <4>1. CASE d = c
        <5>1. table'[t] = None /\ table[t] # None
            BY <2>1, <2>2, <2>4, <1>t
        <5> QED BY <4>1, <3>2, <3>3, <3>4, <2>1, <5>1
      <4>2. CASE d # c
        <5>1. Holding(d) /\ call'[d] = call[d]
            BY <3>8, <4>2, <3>3 DEF Holding
        <5>2. call[d].task \in Tasks /\ call[d].job \in Jobs
            BY <5>1, CallsOK DEF Holding, CallOK
        <5>3. table'[call[d].task] \in {table[call[d].task], None}
            BY <2>1, <2>2, <5>2, <1>t
        <5> QED BY <5>1, <5>2, <5>3, <2>1 DEF HeldInv
      <4> QED BY <4>1, <4>2
    <3>9. ASSUME NEW d \in Callers, NEW e \in Callers, Holding(d)', Holding(e)', d # e
          PROVE  call'[d].job # call'[e].job
      <4>1. CASE d = c
        <5>1. e # c /\ call'[e] = call[e] /\ Holding(e)
            BY <4>1, <3>3, <3>9 DEF Holding
        <5> QED BY <5>1, <4>1, <3>2, <3>3, <3>5
      <4>2. CASE e = c
        <5>1. d # c /\ call'[d] = call[d] /\ Holding(d)
            BY <4>2, <3>3, <3>9 DEF Holding
        <5> QED BY <5>1, <4>2, <3>2, <3>3, <3>5
      <4>3. CASE d # c /\ e # c
        <5>1. Holding(d) /\ Holding(e) /\ call'[d] = call[d] /\ call'[e] = call[e]
            BY <4>3, <3>3, <3>9 DEF Holding
        <5> QED BY <5>1, <3>9 DEF HeldInv
      <4> QED BY <4>1, <4>2, <4>3
    <3> QED BY <3>7, <3>8, <3>9 DEF HeldInv
  <2> QED BY <2>3, <2>4
<1>8. CASE RemoveJob(c)
  <2> DEFINE k == call[c].job
  <2>1. /\ Holding(c)
        /\ job' = [job EXCEPT ![k] = NoJob] /\ UNCHANGED table
        /\ call' = [call EXCEPT ![c] = Removed(c)]
      BY <1>8 DEF RemoveJob, Holding
  <2>2. k \in Jobs /\ call[c].task \in Tasks
      BY <2>1, <1>t DEF Holding, CallOK
  <2>3. \A d \in Callers : Holding(d)' => d # c /\ Holding(d) /\ call'[d] = call[d]
      BY <2>1, <1>6, <1>t DEF Holding
  <2>4. \A d \in Callers : Holding(d) /\ d # c => call[d].job # k
      BY <2>1 DEF HeldInv
  <2>5. \A u \in Tasks : table[u] # k
    <3> SUFFICES ASSUME NEW u \in Tasks, table[u] = k
                 PROVE  FALSE
        OBVIOUS
    <3>1. job[k].task = u /\ job[k].task = call[c].task
        BY <2>1, <2>2 DEF HeldInv
    <3> QED BY <3>1, <2>1 DEF HeldInv
  <2>6. \A j \in Jobs : j # k => job'[j] = job[j]
      BY <2>1, <1>t
  <2>7. \A d \in Callers : Holding(d) => call[d].job \in Jobs
      BY CallsOK DEF Holding, CallOK
  <2>8. \A u \in Tasks : table'[u] # None => job'[table'[u]].task = u
      BY <2>1, <2>5, <2>6, <1>t DEF HeldInv
  <2>9. \A d \in Callers : Holding(d)' =>
            /\ job'[call'[d].job].task = call'[d].task
            /\ table'[call'[d].task] # call'[d].job
      BY <2>1, <2>3, <2>4, <2>6, <2>7 DEF HeldInv
  <2>10. \A d, e \in Callers : Holding(d)' /\ Holding(e)' /\ d # e
            => call'[d].job # call'[e].job
      BY <2>3 DEF HeldInv
  <2> QED BY <2>8, <2>9, <2>10 DEF HeldInv
<1>9. CASE NewJob(c)
  <2>1. PICK k \in Jobs :
          /\ Free(k)
          /\ job' = [job EXCEPT ![k] = [task |-> call[c].task, cron |-> call[c].cron]]
          /\ call' = [call EXCEPT ![c].at = "recording", ![c].job = k]
      BY <1>9 DEF NewJob
  <2>2. call[c].at \in {"creating", "adding"} /\ UNCHANGED table
      BY <1>9 DEF NewJob
  <2>3. call[c].task \in Tasks
      BY <2>2, <1>t DEF CallOK
  <2>4. /\ call'[c].at = "recording" /\ call'[c].job = k /\ call'[c].task = call[c].task
        /\ \A d \in Callers : d # c => call'[d] = call[d]
      BY <2>1, <1>t DEF Calls
  <2>5. job[k].task = None
      BY <2>1 DEF Free, NoJob
  <2>6. \A d \in Callers : Holding(d) => call[d].job # k /\ call[d].job \in Jobs
      BY <2>5, CallsOK DEF HeldInv, Holding, CallOK
  <2>7. \A u \in Tasks : table[u] # k
      BY <2>5 DEF HeldInv
  <2>8. /\ job'[k].task = call[c].task
        /\ \A j \in Jobs : j # k => job'[j] = job[j]
      BY <2>1, <1>t
  <2>9. \A u \in Tasks : table'[u] # None => job'[table'[u]].task = u
      BY <2>2, <2>7, <2>8, <1>t DEF HeldInv
  <2>10. ASSUME NEW d \in Callers, Holding(d)'
         PROVE  /\ job'[call'[d].job].task = call'[d].task
                /\ table'[call'[d].task] # call'[d].job
    <3>1. CASE d = c
        BY <3>1, <2>2, <2>3, <2>4, <2>7, <2>8
    <3>2. CASE d # c
      <4>1. Holding(d) /\ call'[d] = call[d]
          BY <3>2, <2>10, <2>4 DEF Holding
      <4> QED BY <4>1, <2>2, <2>6, <2>8 DEF HeldInv
    <3> QED BY <3>1, <3>2
  <2>11. \A d, e \in Callers : Holding(d)' /\ Holding(e)' /\ d # e
            => call'[d].job # call'[e].job
      BY <2>4, <2>6 DEF HeldInv, Holding
  <2> QED BY <2>9, <2>10, <2>11 DEF HeldInv
<1>10. CASE RecordEntry(c)
  <2> DEFINE t == call[c].task
             k == call[c].job
  <2>1. /\ Holding(c)
        /\ table' = [table EXCEPT ![t] = k] /\ UNCHANGED job
        /\ call' = [call EXCEPT ![c] = NoCall]
      BY <1>10 DEF RecordEntry, Holding
  <2>2. t \in Tasks /\ job[k].task = t
      BY <2>1, <1>t DEF Holding, CallOK, HeldInv
  <2>3. \A d \in Callers : Holding(d)' => d # c /\ Holding(d) /\ call'[d] = call[d]
      BY <2>1, <1>2, <1>t DEF Holding
  <2>4. \A d \in Callers : Holding(d) /\ d # c => call[d].job # k /\ call[d].task \in Tasks
      BY <2>1, CallsOK DEF HeldInv, Holding, CallOK
  <2>5. \A u \in Tasks : table'[u] = IF u = t THEN k ELSE table[u]
      BY <2>1, <2>2, <1>t
  <2>6. \A u \in Tasks : table'[u] # None => job'[table'[u]].task = u
      BY <2>1, <2>2, <2>5 DEF HeldInv
  <2>7. \A d \in Callers : Holding(d)' =>
            /\ job'[call'[d].job].task = call'[d].task
            /\ table'[call'[d].task] # call'[d].job
      BY <2>1, <2>3, <2>4, <2>5 DEF HeldInv
  <2>8. \A d, e \in Callers : Holding(d)' /\ Holding(e)' /\ d # e
            => call'[d].job # call'[e].job
      BY <2>3 DEF HeldInv
  <2> QED BY <2>6, <2>7, <2>8 DEF HeldInv
<1> QED
    BY <1>3, <1>4, <1>5, <1>7, <1>8, <1>9, <1>10, <1>11 DEF CallStep

-----------------------------------------------------------------------------
(* What a call finds.                                                       *)

(* A step that leaves a task, its jobs and its calls alone.                 *)
LEMMA Elsewhere ==
    ASSUME NEW t \in Tasks, Matches(t),
           CallsOn(t)' = CallsOn(t), \A d \in CallsOn(t) : call'[d] = call[d],
           row'[t] = row[t], table'[t] = table[t],
           JobsOf(t)' = JobsOf(t), \A k \in JobsOf(t) : job'[k] = job[k]
    PROVE  Matches(t)'
<1>1. \A d \in CallsOn(t) : call[d].task = t /\ d \in Callers
    BY DEF CallsOn
<1>2. Enabled(t)' <=> Enabled(t)
    BY DEF Enabled
<1>3. InTable(t)' <=> InTable(t)
    BY DEF InTable
<1>4. ASSUME NEW d \in CallsOn(t)
      PROVE  Finds(d)'
  <2>1. Finds(d) /\ call'[d] = call[d] /\ call[d].task = t
      BY <1>1 DEF Matches
  <2>2. UpToDate(d)' <=> UpToDate(d)
      BY <2>1, <1>2 DEF UpToDate
  <2>3. Holding(d)' <=> Holding(d)
      BY <2>1 DEF Holding
  <2>4. call[d].at = "recording" => job'[call[d].job] = job[call[d].job]
      BY <2>1 DEF Finds, Holding
  <2> QED BY <2>1, <2>2, <2>3, <2>4, <1>3 DEF Finds
<1>5. Settled(t) => Settled(t)'
    BY <1>2 DEF Settled
<1> QED BY <1>4, <1>5 DEF Matches

(* A step of the only call on a task.                                       *)
LEMMA Alone ==
    ASSUME NEW c \in Callers, NEW t \in Tasks, NEW r, call \in [Callers -> Calls],
           call' = [call EXCEPT ![c] = r], CallsOn(t) \subseteq {c},
           \/ r.at = "idle" /\ Settled(t)'
           \/ r.at # "idle" /\ r.task = t /\ Finds(c)'
    PROVE  Matches(t)'
<1>1. CallsOn(t)' = {d \in Callers : call'[d].at # "idle" /\ call'[d].task = t}
    BY DEF CallsOn
<1>2. call'[c] = r /\ \A d \in Callers : d # c => call'[d] = call[d]
    OBVIOUS
<1>3. \A d \in Callers : d # c => d \notin CallsOn(t)'
    BY <1>1, <1>2 DEF CallsOn
<1>4. CASE r.at = "idle" /\ Settled(t)'
  <2>1. CallsOn(t)' = {}
      BY <1>1, <1>2, <1>3, <1>4
  <2> QED BY <2>1, <1>4 DEF Matches
<1>5. CASE r.at # "idle" /\ r.task = t /\ Finds(c)'
  <2>1. CallsOn(t)' = {c}
      BY <1>1, <1>2, <1>3, <1>5
  <2> QED BY <2>1, <1>5 DEF Matches
<1> QED BY <1>4, <1>5

(* The calls on the tasks that a call is not about.                         *)
LEMMA CallElsewhere ==
    ASSUME NEW c \in Callers, NEW t \in Tasks, NEW r, call \in [Callers -> Calls],
           Matches(t), call' = [call EXCEPT ![c] = r], c \notin CallsOn(t),
           r.at = "idle" \/ r.task # t,
           row'[t] = row[t], table'[t] = table[t],
           JobsOf(t)' = JobsOf(t), \A k \in JobsOf(t) : job'[k] = job[k]
    PROVE  Matches(t)'
<1>1. call'[c] = r /\ \A d \in Callers : d # c => call'[d] = call[d]
    OBVIOUS
<1>2. CallsOn(t)' = {d \in Callers : call'[d].at # "idle" /\ call'[d].task = t}
    BY DEF CallsOn
<1>3. CallsOn(t)' = CallsOn(t)
    BY <1>1, <1>2 DEF CallsOn
<1>4. \A d \in CallsOn(t) : call'[d] = call[d]
    BY <1>1 DEF CallsOn
<1> QED BY <1>3, <1>4, Elsewhere

(* What a task's only call can rely on.                                     *)
LEMMA OnlyCall ==
    ASSUME TypeOK, MatchInv, NEW c \in Callers, call[c].at # "idle",
           call[c].task \in Tasks \ disturbed
    PROVE  CallsOn(call[c].task) = {c} /\ Finds(c)
<1>1. c \in CallsOn(call[c].task)
    BY DEF CallsOn
<1> QED BY <1>1 DEF MatchInv, Matches

(* The first step of a call, on a task without another.                     *)
LEMMA BeginMatches ==
    ASSUME TypeOK, MatchInv, NEW c \in Callers, NEW u \in Tasks, NEW r, Begin(c, u, r),
           \A t \in Tasks : t # u => row'[t] = row[t],
           r.at = "idle" \/ r.task = u,
           u \notin disturbed /\ Settled(u) =>
              IF r.at = "idle" THEN Settled(u)' ELSE Finds(c)'
    PROVE  MatchInv'
<1>1. /\ call[c].at = "idle" /\ call' = [call EXCEPT ![c] = r]
      /\ UNCHANGED <<job, table>>
      /\ call \in [Callers -> Calls]
    BY DEF Begin, TypeOK
<1>2. SUFFICES ASSUME NEW t \in Tasks \ disturbed'
               PROVE  Matches(t)'
    BY DEF MatchInv
<1>3. t \notin disturbed /\ (t = u => CallsOn(u) = {})
    BY DEF Begin
<1>4. c \notin CallsOn(t) /\ JobsOf(t)' = JobsOf(t)
    BY <1>1 DEF CallsOn, JobsOf
<1>5. CASE t # u
    BY <1>1, <1>3, <1>4, <1>5, CallElsewhere DEF MatchInv
<1>6. CASE t = u
  <2>1. Settled(u)
      BY <1>3, <1>6 DEF MatchInv, Matches
  <2> QED BY <1>1, <1>3, <1>6, <2>1, Alone
<1> QED BY <1>5, <1>6

(* A later step of a call.                                                  *)
LEMMA StepMatches ==
    ASSUME TypeOK, MatchInv, NEW c \in Callers, NEW u \in Tasks, NEW r,
           call[c].at # "idle", call[c].task = u, call' = [call EXCEPT ![c] = r],
           r.at = "idle" \/ r.task = u,
           disturbed \subseteq disturbed',
           \A t \in Tasks : t # u => /\ row'[t] = row[t] /\ table'[t] = table[t]
                                    /\ JobsOf(t)' = JobsOf(t)
                                    /\ \A k \in JobsOf(t) : job'[k] = job[k],
           u \notin disturbed' /\ Finds(c) =>
              IF r.at = "idle" THEN Settled(u)' ELSE Finds(c)'
    PROVE  MatchInv'
<1>1. call \in [Callers -> Calls]
    BY DEF TypeOK
<1>2. SUFFICES ASSUME NEW t \in Tasks \ disturbed'
               PROVE  Matches(t)'
    BY DEF MatchInv
<1>3. t \notin disturbed
    OBVIOUS
<1>4. CASE t # u
  <2>1. c \notin CallsOn(t)
      BY <1>4 DEF CallsOn
  <2>2. Matches(t)
      BY <1>3 DEF MatchInv
  <2> QED BY <1>1, <1>4, <2>1, <2>2, CallElsewhere
<1>5. CASE t = u
  <2>1. CallsOn(u) = {c} /\ Finds(c)
      BY <1>3, <1>5, OnlyCall
  <2> QED BY <1>1, <1>5, <2>1, Alone
<1> QED BY <1>4, <1>5

LEMMA CallMatches ==
    ASSUME TypeOK, HeldInv, MatchInv, NEW c \in Callers, CallStep(c)
    PROVE  MatchInv'
<1> USE SchedulerAssumption
<1>t. /\ call \in [Callers -> Calls] /\ job \in [Jobs -> JobRecords]
      /\ table \in [Tasks -> Jobs \cup {None}] /\ row \in [Tasks -> Rows]
      /\ CallOK(call[c])
    BY CallsOK DEF TypeOK
<1>n. NoCall.at = "idle"
    BY DEF NoCall
<1>1. ASSUME NEW t \in Tasks, NEW enabled \in BOOLEAN, NEW cron \in Schedules,
             CreateScheduledTask(c, t, enabled, cron)
      PROVE  MatchInv'
  <2> DEFINE r == IF enabled THEN [at |-> "creating", task |-> t, enabled |-> TRUE,
                                   cron |-> cron, job |-> None]
                             ELSE NoCall
  <2>1. /\ Begin(c, t, r)
        /\ row[t].state = "unborn"
        /\ row' = [row EXCEPT ![t] = [state |-> "present", enabled |-> enabled, cron |-> cron]]
      BY <1>1 DEF CreateScheduledTask
  <2>2. call' = [call EXCEPT ![c] = r] /\ UNCHANGED <<job, table>>
      BY <2>1 DEF Begin
  <2>3. row'[t] = [state |-> "present", enabled |-> enabled, cron |-> cron]
      BY <2>1, <1>t
  <2>4. ASSUME Settled(t)
        PROVE  table'[t] = None /\ JobsOf(t)' = {}
      BY <2>1, <2>2, <2>4 DEF Settled, Enabled, JobsOf
  <2>5. ASSUME Settled(t)
        PROVE  IF r.at = "idle" THEN Settled(t)' ELSE Finds(c)'
    <3>1. CASE enabled
      <4>1. call'[c] = [at |-> "creating", task |-> t, enabled |-> TRUE, cron |-> cron,
                        job |-> None]
          BY <2>2, <3>1, <1>t
      <4> QED BY <4>1, <2>3, <2>4, <2>5, <3>1 DEF Finds, UpToDate, Enabled, Holding
    <3>2. CASE ~enabled
        BY <3>2, <2>3, <2>4, <2>5, <1>n DEF Settled, Enabled
    <3> QED BY <3>1, <3>2
  <2>6. (r.at = "idle" \/ r.task = t) /\ \A u \in Tasks : u # t => row'[u] = row[u]
      BY <2>1, <1>t, <1>n
  <2> HIDE DEF r
  <2> QED BY <2>1, <2>5, <2>6, BeginMatches
<1>2. ASSUME NEW t \in Tasks, NEW enabled \in BOOLEAN, NEW cron \in Schedules,
             UpdateScheduledTask(c, t, enabled, cron)
      PROVE  MatchInv'
  <2> DEFINE r == [at |-> "reading", task |-> t, enabled |-> FALSE, cron |-> None,
                   job |-> None]
  <2>1. /\ Begin(c, t, r)
        /\ row' = [row EXCEPT ![t].enabled = enabled, ![t].cron = cron]
      BY <1>2 DEF UpdateScheduledTask
  <2>2. call'[c] = r /\ UNCHANGED <<job, table>>
      BY <2>1, <1>t DEF Begin
  <2>3. ASSUME Settled(t)
        PROVE  InTable(t)'
      BY <2>2, <2>3 DEF Settled, InTable, JobsOf
  <2>4. ASSUME Settled(t)
        PROVE  Finds(c)'
      BY <2>2, <2>3, <2>4 DEF Finds, Holding
  <2>5. r.at = "reading" /\ r.task = t /\ \A u \in Tasks : u # t => row'[u] = row[u]
      BY <2>1, <1>t
  <2> HIDE DEF r
  <2> QED BY <2>1, <2>4, <2>5, BeginMatches
<1>3. ASSUME NEW t \in Tasks, DeleteScheduledTask(c, t)
      PROVE  MatchInv'
  <2> DEFINE r == [at |-> "taking", task |-> t, enabled |-> FALSE, cron |-> None,
                   job |-> None]
  <2>1. /\ Begin(c, t, r)
        /\ row' = [row EXCEPT ![t] = [state |-> "deleted", enabled |-> FALSE, cron |-> None]]
      BY <1>3 DEF DeleteScheduledTask, DeleteRow
  <2>2. call'[c] = r /\ UNCHANGED <<job, table>>
      BY <2>1, <1>t DEF Begin
  <2>3. ASSUME Settled(t)
        PROVE  InTable(t)'
      BY <2>2, <2>3 DEF Settled, InTable, JobsOf
  <2>4. row'[t].state = "deleted" /\ ~row'[t].enabled
      BY <2>1, <1>t
  <2>5. ASSUME Settled(t)
        PROVE  Finds(c)'
      BY <2>2, <2>3, <2>4, <2>5 DEF Finds, Holding, UpToDate, Enabled
  <2>6. r.at = "taking" /\ r.task = t /\ \A u \in Tasks : u # t => row'[u] = row[u]
      BY <2>1, <1>t
  <2> HIDE DEF r
  <2> QED BY <2>1, <2>5, <2>6, BeginMatches
<1>u. PICK u, k : u = call[c].task /\ k = call[c].job
    OBVIOUS
<1> USE <1>u
<1>4. CASE ReadBack(c)
  <2> DEFINE r == [call[c] EXCEPT !.at = "taking", !.enabled = row[u].enabled,
                                  !.cron = row[u].cron]
  <2>1. /\ call[c].at = "reading" /\ row[u].state = "present"
        /\ call' = [call EXCEPT ![c] = r]
        /\ UNCHANGED <<row, job, table, disturbed>>
      BY <1>4, <1>t DEF ReadBack
  <2>2. u \in Tasks
      BY <2>1, <1>t DEF CallOK
  <2>3. /\ r.at = "taking" /\ r.task = u /\ r.enabled = row[u].enabled /\ r.cron = row[u].cron
        /\ call'[c] = r
      BY <2>1, <1>t DEF Calls
  <2>4. InTable(u)' <=> InTable(u)
      BY <2>1 DEF InTable, JobsOf
  <2>5. ASSUME Finds(c)
        PROVE  Finds(c)'
      BY <2>1, <2>3, <2>4, <2>5 DEF Finds, Holding, UpToDate, Enabled
  <2>6. \A t \in Tasks : JobsOf(t)' = JobsOf(t)
      BY <2>1 DEF JobsOf
  <2> HIDE DEF r
  <2> QED BY <2>1, <2>2, <2>3, <2>5, <2>6, StepMatches
<1>5. CASE ReadBackFails(c)
  <2>1. /\ call[c].at = "reading" /\ call' = [call EXCEPT ![c] = NoCall]
        /\ disturbed' = disturbed \cup {u}
        /\ UNCHANGED <<row, job, table>>
      BY <1>5 DEF ReadBackFails
  <2>2. u \in Tasks
      BY <2>1, <1>t DEF CallOK
  <2>3. \A t \in Tasks : JobsOf(t)' = JobsOf(t)
      BY <2>1 DEF JobsOf
  <2> QED BY <2>1, <2>2, <2>3, <1>n, StepMatches
(* After RemoveTask.                                                        *)
<1>6. ASSUME call[c].at # "idle", call[c].at # "reading", Finds(c), UNCHANGED row,
             call'[c] = Removed(c), table'[u] = None, JobsOf(u)' = {}
      PROVE  IF Removed(c).at = "idle" THEN Settled(u)' ELSE Finds(c)'
  <2>1. UpToDate(c)
      BY <1>6 DEF Finds
  <2>2. CASE call[c].enabled
    <3>1. /\ call'[c].at = "adding" /\ call'[c].task = u /\ call'[c].enabled
          /\ call'[c].cron = call[c].cron
        BY <2>2, <1>6, <1>t DEF Removed, Calls
    <3>2. UpToDate(c)'
        BY <2>1, <2>2, <3>1, <1>6 DEF UpToDate, Enabled
    <3> QED BY <3>1, <3>2, <1>6 DEF Finds, Holding
  <2>3. CASE ~call[c].enabled
    <3>1. Removed(c).at = "idle" /\ ~Enabled(u)
        BY <2>1, <2>3, <1>n DEF Removed, UpToDate
    <3> QED BY <3>1, <1>6 DEF Settled, Enabled
  <2> QED BY <2>2, <2>3
<1>7. Removed(c).at = "idle" \/ Removed(c).task = u
    BY <1>t, <1>n DEF Removed, Calls
<1>8. CASE TakeEntry(c)
  <2> DEFINE r == IF table[u] = None THEN Removed(c)
                  ELSE [call[c] EXCEPT !.at = "removing", !.job = table[u]]
  <2>1. /\ call[c].at = "taking"
        /\ call' = [call EXCEPT ![c] = r]
        /\ table' = [table EXCEPT ![u] = None]
        /\ UNCHANGED <<row, job, disturbed>>
      BY <1>8, <1>t DEF TakeEntry
  <2>2. u \in Tasks /\ call'[c] = r
      BY <2>1, <1>t DEF CallOK
  <2>3. \A t \in Tasks : JobsOf(t)' = JobsOf(t) /\ (t # u => table'[t] = table[t])
      BY <2>1, <1>t DEF JobsOf
  <2>4. table'[u] = None
      BY <2>1, <2>2, <1>t
  <2>5. ASSUME Finds(c)
        PROVE  IF r.at = "idle" THEN Settled(u)' ELSE Finds(c)'
    <3>1. InTable(u) /\ UpToDate(c)
        BY <2>1, <2>5 DEF Finds
    <3>2. CASE table[u] = None
      <4>1. JobsOf(u)' = {}
          BY <3>1, <3>2, <2>2, <2>3 DEF InTable
      <4> QED BY <4>1, <3>2, <2>1, <2>2, <2>4, <2>5, <1>6
    <3>3. CASE table[u] # None
      <4>1. /\ call'[c].at = "removing" /\ call'[c].job = table[u] /\ call'[c].task = u
            /\ call'[c].enabled = call[c].enabled /\ call'[c].cron = call[c].cron
          BY <3>3, <2>2, <1>t DEF Calls
      <4>2. JobsOf(u)' = {table[u]}
          BY <3>1, <3>3, <2>2, <2>3 DEF InTable
      <4>3. UpToDate(c)'
          BY <3>1, <4>1, <2>1 DEF UpToDate, Enabled
      <4>4. Finds(c)'
          BY <4>1, <4>2, <4>3, <2>4 DEF Finds, Holding
      <4>5. r.at = "removing"
          BY <4>1, <2>2
      <4> QED BY <4>4, <4>5
    <3> QED BY <3>2, <3>3
  <2>6. r.at = "idle" \/ r.task = u
      BY <1>7, <1>t DEF Calls
  <2> HIDE DEF r
  <2> QED BY <2>1, <2>2, <2>3, <2>5, <2>6, StepMatches
<1>9. CASE RemoveJob(c)
  <2>1. /\ call[c].at = "removing" /\ Holding(c)
        /\ job' = [job EXCEPT ![k] = NoJob]
        /\ call' = [call EXCEPT ![c] = Removed(c)]
        /\ UNCHANGED <<row, table, disturbed>>
      BY <1>9 DEF RemoveJob, Holding
  <2>2. u \in Tasks /\ k \in Jobs /\ job[k].task = u /\ call'[c] = Removed(c)
      BY <2>1, <1>t DEF CallOK, HeldInv
  <2>3. \A j \in Jobs : job'[j] = IF j = k THEN NoJob ELSE job[j]
      BY <2>1, <1>t
  <2>4. ASSUME NEW t \in Tasks, t # u
        PROVE  JobsOf(t)' = JobsOf(t) /\ \A j \in JobsOf(t) : job'[j] = job[j]
    <3>1. k \notin JobsOf(t)
        BY <2>2, <2>4 DEF JobsOf
    <3>2. \A j \in Jobs : j # k => job'[j] = job[j]
        BY <2>3
    <3>3. JobsOf(t)' = {j \in Jobs : job'[j] # NoJob /\ job'[j].task = t}
        BY DEF JobsOf
    <3> QED BY <3>1, <3>2, <3>3, <2>2, <2>3 DEF JobsOf
  <2>5. ASSUME Finds(c)
        PROVE  table'[u] = None /\ JobsOf(u)' = {}
    <3>1. table[u] = None /\ JobsOf(u) = {k}
        BY <2>1, <2>5 DEF Finds
    <3> QED BY <3>1, <2>1, <2>3 DEF JobsOf
  <2>6. ASSUME Finds(c)
        PROVE  IF Removed(c).at = "idle" THEN Settled(u)' ELSE Finds(c)'
      BY <2>1, <2>2, <2>5, <2>6, <1>6
  <2> QED BY <2>1, <2>2, <2>4, <2>6, <1>7, StepMatches
<1>10. CASE NewJob(c)
  <2>1. PICK j \in Jobs :
          /\ Free(j)
          /\ job' = [job EXCEPT ![j] = [task |-> u, cron |-> call[c].cron]]
          /\ call' = [call EXCEPT ![c].at = "recording", ![c].job = j]
      BY <1>10 DEF NewJob
  <2> DEFINE r == [call[c] EXCEPT !.at = "recording", !.job = j]
  <2>2. /\ call[c].at \in {"creating", "adding"} /\ UNCHANGED <<row, table, disturbed>>
        /\ call' = [call EXCEPT ![c] = r]
      BY <1>10, <2>1, <1>t DEF NewJob
  <2>3. /\ u \in Tasks /\ call'[c] = r
        /\ r.at = "recording" /\ r.job = j /\ r.task = u /\ r.enabled = call[c].enabled
        /\ r.cron = call[c].cron
      BY <2>2, <1>t DEF CallOK, Calls
  <2>4. /\ \A i \in Jobs : job'[i] = IF i = j THEN [task |-> u, cron |-> call[c].cron]
                                             ELSE job[i]
        /\ job[j] = NoJob /\ [task |-> u, cron |-> call[c].cron] # NoJob
      BY <2>1, <2>3, <1>t DEF Free, NoJob
  <2>5. ASSUME NEW t \in Tasks, t # u
        PROVE  JobsOf(t)' = JobsOf(t) /\ \A i \in JobsOf(t) : job'[i] = job[i]
    <3>1. j \notin JobsOf(t)
        BY <2>4 DEF JobsOf
    <3>2. JobsOf(t)' = {i \in Jobs : job'[i] # NoJob /\ job'[i].task = t}
        BY DEF JobsOf
    <3> QED BY <3>1, <3>2, <2>4, <2>5 DEF JobsOf
  <2>6. ASSUME Finds(c)
        PROVE  Finds(c)'
    <3>1. table[u] = None /\ JobsOf(u) = {} /\ call[c].enabled /\ UpToDate(c)
        BY <2>2, <2>6 DEF Finds
    <3>2. JobsOf(u)' = {i \in Jobs : job'[i] # NoJob /\ job'[i].task = u}
        BY DEF JobsOf
    <3>3. JobsOf(u)' = {j}
        BY <3>1, <3>2, <2>4 DEF JobsOf
    <3>4. UpToDate(c)'
        BY <3>1, <2>2, <2>3 DEF UpToDate, Enabled
    <3>5. job'[j].cron = call[c].cron
        BY <2>4
    <3> HIDE DEF r
    <3> QED BY <3>1, <3>3, <3>4, <3>5, <2>2, <2>3 DEF Finds, Holding
  <2> HIDE DEF r
  <2> QED BY <2>2, <2>3, <2>5, <2>6, StepMatches
<1>11. CASE RecordEntry(c)
  <2>1. /\ call[c].at = "recording" /\ Holding(c)
        /\ table' = [table EXCEPT ![u] = k]
        /\ call' = [call EXCEPT ![c] = NoCall]
        /\ UNCHANGED <<row, job, disturbed>>
      BY <1>11 DEF RecordEntry, Holding
  <2>2. u \in Tasks /\ k \in Jobs
      BY <2>1, <1>t DEF CallOK
  <2>3. \A t \in Tasks : JobsOf(t)' = JobsOf(t) /\ table'[t] = IF t = u THEN k ELSE table[t]
      BY <2>1, <1>t DEF JobsOf
  <2>4. ASSUME Finds(c)
        PROVE  Settled(u)'
    <3>1. /\ JobsOf(u) = {k} /\ job[k].cron = call[c].cron /\ call[c].enabled /\ UpToDate(c)
        BY <2>1, <2>4 DEF Finds
    <3> QED BY <3>1, <2>1, <2>2, <2>3 DEF Settled, UpToDate, Enabled
  <2>5. \A t \in Tasks : t # u => table'[t] = table[t] /\ JobsOf(t)' = JobsOf(t)
      BY <2>3
  <2>6. /\ call[c].at # "idle" /\ NoCall.at = "idle"
        /\ \A t \in Tasks : row'[t] = row[t] /\ \A i \in JobsOf(t) : job'[i] = job[i]
      BY <2>1, <1>n
  <2> QED BY <2>1, <2>2, <2>4, <2>5, <2>6, StepMatches
<1>12. CASE NewJobFails(c)
  <2>1. /\ call' = [call EXCEPT ![c] = NoCall] /\ UNCHANGED <<job, table>>
        /\ call[c].at \in {"creating", "adding"}
      BY <1>12 DEF NewJobFails
  <2>2. u \in Tasks
      BY <2>1, <1>t DEF CallOK
  <2>3. \A t \in Tasks : JobsOf(t)' = JobsOf(t)
      BY <2>1 DEF JobsOf
  <2>4. CASE /\ row' = [row EXCEPT ![u] = [state |-> "deleted", enabled |-> FALSE, cron |-> None]]
             /\ UNCHANGED disturbed
    <3>1. \A t \in Tasks : t # u => row'[t] = row[t]
        BY <2>4, <1>t
    <3>2. ~row'[u].enabled
        BY <2>4, <2>2, <1>t
    <3>3. ASSUME Finds(c)
          PROVE  Settled(u)'
      <4>1. table[u] = None /\ JobsOf(u) = {}
          BY <2>1, <3>3 DEF Finds
      <4> QED BY <4>1, <3>2, <2>1, <2>2, <2>3 DEF Settled, Enabled
    <3> QED BY <2>1, <2>2, <2>3, <2>4, <3>1, <3>3, <1>n, StepMatches
  <2>5. CASE disturbed' = disturbed \cup {u} /\ UNCHANGED row
      BY <2>1, <2>2, <2>3, <2>5, <1>n, StepMatches
  <2> QED BY <2>4, <2>5, <1>12 DEF NewJobFails, DeleteRow
<1> QED
    BY <1>1, <1>2, <1>3, <1>4, <1>5, <1>8, <1>9, <1>10, <1>11, <1>12 DEF CallStep

LEMMA CascadeMatches ==
    ASSUME TypeOK, MatchInv, NEW u \in Tasks, RowCascades(u)
    PROVE  MatchInv'
<1>1. SUFFICES ASSUME NEW t \in Tasks \ disturbed'
               PROVE  Matches(t)'
    BY DEF MatchInv
<1>2. /\ t \notin disturbed /\ t # u
      /\ row'[t] = row[t]
      /\ UNCHANGED <<job, table, call>>
    BY DEF RowCascades, DeleteRow, TypeOK
<1>3. Matches(t) /\ CallsOn(t)' = CallsOn(t) /\ JobsOf(t)' = JobsOf(t)
    BY <1>2 DEF MatchInv, CallsOn, JobsOf
<1> QED BY <1>2, <1>3, Elsewhere

(* What Start leaves: no call, and a job for each enabled row.              *)
LEMMA RestartMatches ==
    ASSUME TypeOK, ControllerRestarts
    PROVE  HeldInv' /\ MatchInv'
<1> USE SchedulerAssumption
<1>1. PICK chosen \in [Tasks -> Jobs \cup {None}] :
          /\ \A t \in Tasks : chosen[t] # None => Enabled(t)
          /\ \A t, u \in Tasks : chosen[t] = chosen[u] /\ t # u => chosen[t] = None
          /\ table' = chosen
          /\ job' = [k \in Jobs |->
                IF \E t \in Tasks : chosen[t] = k
                THEN LET t == CHOOSE u \in Tasks : chosen[u] = k
                     IN  [task |-> t, cron |-> row[t].cron]
                ELSE NoJob]
          /\ disturbed' = {t \in Tasks : Enabled(t) /\ chosen[t] = None}
    BY DEF ControllerRestarts
<1>2. call' = [c \in Callers |-> NoCall] /\ UNCHANGED row
    BY DEF ControllerRestarts
<1>3. ASSUME NEW t \in Tasks, chosen[t] # None
      PROVE  /\ chosen[t] \in Jobs
             /\ job'[chosen[t]] = [task |-> t, cron |-> row[t].cron]
  <2> DEFINE k == chosen[t]
             v == CHOOSE u \in Tasks : chosen[u] = k
  <2>1. k \in Jobs
      BY <1>3
  <2>2. v \in Tasks /\ chosen[v] = k
      OBVIOUS
  <2>3. v = t
      BY <2>2, <1>1, <1>3
  <2>4. job'[k] = [task |-> v, cron |-> row[v].cron]
      BY <2>1, <1>1
  <2> QED BY <2>1, <2>3, <2>4
<1>4. ASSUME NEW k \in Jobs, job'[k] # NoJob
      PROVE  \E t \in Tasks : chosen[t] = k
    BY <1>1, <1>4
<1>5. \A c \in Callers : call'[c].at = "idle"
    BY <1>2 DEF NoCall
<1>6. HeldInv'
    BY <1>1, <1>3, <1>5 DEF HeldInv, Holding
<1>7. ASSUME NEW t \in Tasks \ disturbed'
      PROVE  Matches(t)'
  <2>1. CallsOn(t)' = {}
      BY <1>5 DEF CallsOn
  <2>2. Enabled(t)' <=> Enabled(t)
      BY <1>2 DEF Enabled
  <2>3. JobsOf(t)' = {k \in Jobs : job'[k] # NoJob /\ job'[k].task = t}
      BY DEF JobsOf
  <2>4. CASE Enabled(t)
    <3>1. chosen[t] # None
        BY <2>4, <1>1, <1>7
    <3>2. job'[chosen[t]] = [task |-> t, cron |-> row[t].cron] /\ chosen[t] \in Jobs
        BY <3>1, <1>3
    <3>3. chosen[t] \in JobsOf(t)'
        BY <3>2, <2>3 DEF NoJob
    <3>4. ASSUME NEW k \in JobsOf(t)'
          PROVE  k = chosen[t]
      <4>1. PICK u \in Tasks : chosen[u] = k
          BY <2>3, <1>4
      <4>2. chosen[u] # None
          BY <4>1, <2>3, SchedulerAssumption
      <4>3. job'[chosen[u]] = [task |-> u, cron |-> row[u].cron]
          BY <4>2, <1>3
      <4> QED BY <4>1, <4>3, <2>3
    <3>5. JobsOf(t)' = {chosen[t]}
        BY <3>3, <3>4
    <3>6. Settled(t)'
        BY <3>1, <3>2, <3>5, <2>2, <2>4, <1>1, <1>2 DEF Settled
    <3> QED BY <2>1, <3>6 DEF Matches
  <2>5. CASE ~Enabled(t)
    <3>1. chosen[t] = None
        BY <2>5, <1>1
    <3>2. ASSUME NEW k \in JobsOf(t)'
          PROVE  FALSE
      <4>1. PICK u \in Tasks : chosen[u] = k
          BY <2>3, <1>4
      <4>2. chosen[u] # None
          BY <4>1, <2>3, SchedulerAssumption
      <4>3. job'[chosen[u]] = [task |-> u, cron |-> row[u].cron]
          BY <4>2, <1>3
      <4> QED BY <4>1, <4>2, <4>3, <3>1, <2>3
    <3>3. JobsOf(t)' = {}
        BY <3>2
    <3>4. Settled(t)'
        BY <3>1, <3>3, <2>2, <2>5, <1>1 DEF Settled
    <3> QED BY <2>1, <3>4 DEF Matches
  <2> QED BY <2>4, <2>5
<1> QED BY <1>6, <1>7 DEF MatchInv

(* Executions and the server leave the rows, jobs and calls alone.          *)
LEMMA StoreMatches ==
    ASSUME HeldInv, MatchInv, UNCHANGED Store
    PROVE  HeldInv' /\ MatchInv'
<1>1. HeldInv'
    BY DEF HeldInv, Holding, Store
<1>2. ASSUME NEW t \in Tasks \ disturbed'
      PROVE  Matches(t)'
  <2>1. /\ Matches(t) /\ CallsOn(t)' = CallsOn(t) /\ JobsOf(t)' = JobsOf(t)
        /\ UNCHANGED <<row, job, table, call>>
      BY DEF MatchInv, CallsOn, JobsOf, Store
  <2> QED BY <2>1, Elsewhere
<1> QED BY <1>1, <1>2 DEF MatchInv

-----------------------------------------------------------------------------
(* The executions that have stopped the server.                             *)

LEMMA ExecutionRestarts ==
    ASSUME TypeOK, RestartInv, NEW k \in Jobs, Fire(k) \/ ExecutionStep(k)
    PROVE  RestartInv'
<1> SUFFICES ASSUME server'.asked = "schedule", ~Unsuccessful'
             PROVE  Restarting' # {}
    BY DEF RestartInv
<1>t. exec \in [Jobs -> Execs] /\ server \in Servers
    BY DEF TypeOK
<1>l. UNCHANGED log => (Unsuccessful => Unsuccessful')
    BY LogKept
<1>r. Restarting' = {j \in Jobs : exec'[j].at \in {"stopping", "waiting", "starting"}}
    BY DEF Restarting
(* The execution is one of them afterwards.                                 *)
<1>a. ASSUME NEW from, NEW to \in {"stopping", "waiting", "starting"}, Move(k, from, to)
      PROVE  Restarting' # {}
  <2>1. exec'[k].at = to
      BY <1>a, <1>t DEF Move, Execs
  <2> QED BY <2>1, <1>a, <1>r
(* It was none of them before.                                              *)
<1>b. ASSUME exec[k].at \in {"idle", "fired", "checking"}, UNCHANGED server,
             Unsuccessful => Unsuccessful', NEW e, exec' = [exec EXCEPT ![k] = e]
      PROVE  Restarting' # {}
  <2>1. Restarting # {}
      BY <1>b DEF RestartInv
  <2>2. PICK j \in Jobs : exec[j].at \in {"stopping", "waiting", "starting"}
      BY <2>1 DEF Restarting
  <2>3. exec'[j] = exec[j]
      BY <2>2, <1>b, <1>t
  <2> QED BY <2>2, <2>3, <1>r
<1>1. CASE Fire(k)
  <2>1. /\ exec[k].at \in {"idle", "fired", "checking"}
        /\ UNCHANGED <<server, log>>
        /\ exec' = [exec EXCEPT ![k] = [at |-> "fired", task |-> job[k].task]]
      BY <1>1 DEF Fire, NoExec
  <2> DEFINE e == [at |-> "fired", task |-> job[k].task]
  <2>2. /\ exec' = [exec EXCEPT ![k] = e]
        /\ UNCHANGED server /\ (Unsuccessful => Unsuccessful')
      BY <2>1, <1>l
  <2> HIDE DEF e
  <2> QED BY <2>1, <2>2, <1>b
<1>2. CASE Load(k) \/ Refuse(k) \/ Confirm(k)
  <2>a. exec[k].at \in {"idle", "fired", "checking"} /\ UNCHANGED server
      BY <1>2 DEF Load, Refuse, Confirm, Move, End
  <2>b. UNCHANGED log
      BY <1>2 DEF Load, Refuse, Confirm, Move, End
  <2>2. \E e : exec' = [exec EXCEPT ![k] = e]
      BY <1>2 DEF Load, Refuse, Confirm, Move, End
  <2> QED BY <2>a, <2>b, <2>2, <1>b, <1>l
<1>3. CASE StopReaches(k) \/ StopFindsNothing(k) \/ StopReturns(k) \/ SeenOffline(k)
    BY <1>3, <1>a DEF StopReaches, StopFindsNothing, StopReturns, SeenOffline
<1>4. CASE StopFails(k) \/ TimesOut(k) \/ StartFails(k)
  <2>1. Log(exec[k].task) /\ exec[k].task \in Tasks
      BY <1>4 DEF StopFails, TimesOut, StartFails, End, TypeOK
  <2> QED BY <2>1, Logged
<1>5. CASE StartIssued(k) \/ StartAnswerLost(k)
    BY <1>5 DEF StartIssued, StartAnswerLost, Start, Started
<1> QED BY <1>1, <1>2, <1>3, <1>4, <1>5 DEF ExecutionStep

LEMMA ServerRestarts ==
    ASSUME TypeOK, RestartInv, ServerStep
    PROVE  RestartInv'
<1>1. Restarting' = Restarting
    BY DEF Restarting, ServerStep, UserStarts, GoesOnline, UserStops, Exits
<1>2. \/ server'.asked # "schedule"
      \/ server'.asked = server.asked /\ UNCHANGED log
    BY DEF TypeOK, Servers, ServerStep, UserStarts, Start, GoesOnline, UserStops, Exits, Started
<1> QED BY <1>1, <1>2, LogKept DEF RestartInv

-----------------------------------------------------------------------------
THEOREM Invariant == Spec => []IInv
<1>1. IInv /\ [Next]_vars => IInv'
  <2> SUFFICES ASSUME IInv, [Next]_vars
               PROVE  IInv'
      OBVIOUS
  <2>i. TypeOK /\ HeldInv /\ MatchInv /\ RestartInv
      BY DEF IInv
  <2>1. ASSUME NEW c \in Callers, CallStep(c)
        PROVE  IInv'
    <3>1. TypeOK' /\ HeldInv' /\ MatchInv'
        BY <2>1, <2>i, CallTypes, CallHeld, CallMatches
    <3>2. UNCHANGED <<exec, server>> /\ (Unsuccessful => Unsuccessful')
        BY <2>1, <2>i, CallLogs
    <3>3. RestartInv'
        BY <3>2, <2>i DEF RestartInv, Restarting
    <3> QED BY <3>1, <3>3 DEF IInv
  <2>2. ASSUME NEW t \in Tasks, RowCascades(t)
        PROVE  IInv'
    <3>1. /\ UNCHANGED <<job, table, call, exec, server>>
          /\ row' = [row EXCEPT ![t] = [state |-> "deleted", enabled |-> FALSE, cron |-> None]]
          /\ disturbed' = disturbed \cup {t}
        BY <2>2 DEF RowCascades, DeleteRow
    <3>l. LogOK' /\ (Unsuccessful => Unsuccessful')
        BY <2>2, <2>i, RowDeleted DEF RowCascades
    <3>2. row' \in [Tasks -> Rows] /\ \A u \in Tasks : row'[u].state = "present"
                                            => row'[u].cron \in Schedules
        BY <3>1, <2>i DEF TypeOK, Rows
    <3>3. TypeOK'
        BY <3>1, <3>l, <3>2, <2>i DEF TypeOK, LogOK
    <3>4. HeldInv' /\ RestartInv'
        BY <3>1, <3>l, <2>i DEF HeldInv, Holding, RestartInv, Restarting
    <3> QED BY <2>2, <2>i, <3>3, <3>4, CascadeMatches DEF IInv
  <2>3. CASE ControllerRestarts
    <3>1. TypeOK' /\ HeldInv' /\ MatchInv'
        BY <2>3, <2>i, RestartTypes, RestartMatches
    <3>2. RestartInv'
        BY <2>3, <2>i DEF ControllerRestarts, RestartInv, Unsuccessful
    <3> QED BY <3>1, <3>2 DEF IInv
  <2>4. ASSUME NEW k \in Jobs, Fire(k) \/ ExecutionStep(k)
        PROVE  IInv'
    <3>1. UNCHANGED Store
        BY <2>4 DEF Fire, ExecutionStep, Load, Refuse, Confirm, StopReaches, StopFindsNothing,
                    StopReturns, StopFails, SeenOffline, TimesOut, StartIssued, StartFails,
                    StartAnswerLost, Move, End
    <3> QED BY <3>1, <2>4, <2>i, ExecutionTypes, ExecutionRestarts, StoreMatches DEF IInv
  <2>5. CASE ServerStep
    <3>1. UNCHANGED Store
        BY <2>5 DEF ServerStep, UserStarts, GoesOnline, UserStops, Exits
    <3> QED BY <3>1, <2>5, <2>i, ServerTypes, ServerRestarts, StoreMatches DEF IInv
  <2>6. CASE UNCHANGED vars
    <3>1. UNCHANGED Store /\ UNCHANGED <<exec, server, log>>
        BY <2>6 DEF vars, Store
    <3>2. TypeOK' /\ RestartInv'
        BY <3>1, <2>i DEF TypeOK, RestartInv, Restarting, Unsuccessful, Store, log
    <3> QED BY <3>1, <3>2, <2>i, StoreMatches DEF IInv
  <2> QED BY <2>1, <2>2, <2>3, <2>4, <2>5, <2>6 DEF Next
<1> QED BY Initially, <1>1, PTL DEF Spec

(* Every variable keeps its type; in particular a job is only removed or    *)
(* recorded by a call that has one.                                         *)
THEOREM TypeCorrect == Spec => []TypeOK
<1>1. IInv => TypeOK
    BY DEF IInv
<1> QED BY Invariant, <1>1, PTL

(* When no call is changing a task, and none has overlapped with another or *)
(* failed, gocron has exactly the job that the row asks for, and s.jobs     *)
(* knows it (scheduler.go:125 to 156): for any number of tasks and callers. *)
THEOREM JobsFollowRows == Spec => []SchedulesMatchRows
<1>1. IInv => SchedulesMatchRows
    BY DEF IInv, MatchInv, Matches, Settled, SchedulesMatchRows
<1> QED BY Invariant, <1>1, PTL

(* No scheduled restart leaves the server down and takes itself for a       *)
(* success (executor.go:143 to 193), for any number of executions and       *)
(* whatever others do to the server: one that stopped it is still at it, or *)
(* has started it, or wrote that it failed; or its entry could not be       *)
(* written, or has gone with its task or with the controller.               *)
THEOREM RestartsAreNotSilent == Spec => []RestartsBringServersBack
<1>1. IInv => RestartsBringServersBack
    BY DEF IInv, RestartInv, Unsuccessful, RestartsBringServersBack
<1> QED BY Invariant, <1>1, PTL

-----------------------------------------------------------------------------
(* Neither an execution nor a call goes back to a point it has left.        *)

(* The points of an execution, and those of a call, in their order.         *)
ExecLeft(at) ==
    CASE at = "idle"      -> 0
      [] at = "starting"  -> 1
      [] at = "waiting"   -> 2
      [] at = "stopping"  -> 3
      [] at = "confirmed" -> 4
      [] at = "checking"  -> 5
      [] at = "fired"     -> 6

CallLeft(at) ==
    CASE at = "idle"      -> 0
      [] at = "recording" -> 1
      [] at \in {"creating", "adding"} -> 2
      [] at = "removing"  -> 3
      [] at = "taking"    -> 4
      [] at = "reading"   -> 5

(* From one step to the next an execution, or a call, stays where it is or  *)
(* has less before it; it keeps its task.                                   *)
ExecGoesOn(k) ==
    exec[k].at # "idle" =>
        \/ exec'[k] = exec[k]
        \/ /\ ExecLeft(exec'[k].at) < ExecLeft(exec[k].at)
           /\ exec'[k].at # "idle" => exec'[k].task = exec[k].task

CallGoesOn(c) ==
    call[c].at # "idle" =>
        \/ call'[c] = call[c]
        \/ /\ CallLeft(call'[c].at) < CallLeft(call[c].at)
           /\ call'[c].at # "idle" => call'[c].task = call[c].task

LEMMA ExecPoint ==
    /\ ExecLeft("idle") = 0 /\ ExecLeft("starting") = 1 /\ ExecLeft("waiting") = 2
    /\ ExecLeft("stopping") = 3 /\ ExecLeft("confirmed") = 4 /\ ExecLeft("checking") = 5
    /\ ExecLeft("fired") = 6
BY DEF ExecLeft

LEMMA CallPoint ==
    /\ CallLeft("idle") = 0 /\ CallLeft("recording") = 1 /\ CallLeft("creating") = 2
    /\ CallLeft("adding") = 2 /\ CallLeft("removing") = 3 /\ CallLeft("taking") = 4
    /\ CallLeft("reading") = 5
BY DEF CallLeft

(* A step of an execution brings it on, and leaves the others alone.        *)
LEMMA ExecutionDescends ==
    ASSUME TypeOK, NEW k \in Jobs, ExecutionStep(k)
    PROVE  /\ ExecLeft(exec'[k].at) < ExecLeft(exec[k].at)
           /\ exec'[k].at # "idle" => exec'[k].task = exec[k].task
           /\ \A j \in Jobs : j # k => exec'[j] = exec[j]
<1>t. exec \in [Jobs -> Execs]
    BY DEF TypeOK
<1>1. ASSUME NEW from, End(k, from, TRUE) \/ End(k, from, FALSE)
      PROVE  /\ exec[k].at \in from /\ exec'[k].at = "idle"
             /\ \A j \in Jobs : j # k => exec'[j] = exec[j]
    BY <1>1, <1>t DEF End, NoExec
<1>2. ASSUME NEW from, NEW to, Move(k, from, to)
      PROVE  /\ exec[k].at = from /\ exec'[k].at = to /\ exec'[k].task = exec[k].task
             /\ \A j \in Jobs : j # k => exec'[j] = exec[j]
    BY <1>2, <1>t DEF Move, Execs
<1>3. CASE Load(k)
  <2>1. CASE Move(k, "fired", "checking")
      BY <2>1, <1>2, ExecPoint
  <2>2. CASE End(k, {"fired"}, TRUE)
    <3>1. /\ exec[k].at = "fired" /\ exec'[k].at = "idle"
          /\ \A j \in Jobs : j # k => exec'[j] = exec[j]
        BY <2>2, <1>t DEF End, NoExec
    <3> QED BY <3>1, ExecPoint
  <2> QED BY <1>3, <2>1, <2>2 DEF Load
<1>4. CASE Refuse(k) \/ StopFails(k) \/ TimesOut(k) \/ StartFails(k)
  <2>1. /\ exec[k].at \in {"checking", "confirmed", "stopping", "waiting", "starting"}
        /\ exec'[k].at = "idle" /\ \A j \in Jobs : j # k => exec'[j] = exec[j]
      BY <1>1, <1>4 DEF Refuse, StopFails, TimesOut, StartFails
  <2> QED BY <2>1, ExecPoint
<1>5. CASE Confirm(k)
    BY <1>2, <1>5, ExecPoint DEF Confirm
<1>6. CASE StopReaches(k) \/ StopFindsNothing(k)
    BY <1>2, <1>6, ExecPoint DEF StopReaches, StopFindsNothing
<1>7. CASE StopReturns(k) \/ SeenOffline(k)
    BY <1>2, <1>7, ExecPoint DEF StopReturns, SeenOffline
<1>8. CASE StartIssued(k) \/ StartAnswerLost(k)
    BY <1>8, <1>t, ExecPoint DEF StartIssued, StartAnswerLost, NoExec
<1> QED BY <1>3, <1>4, <1>5, <1>6, <1>7, <1>8 DEF ExecutionStep

(* A step of a call brings it on.                                           *)
LEMMA CallDescends ==
    ASSUME TypeOK, NEW c \in Callers, CallStep(c)
    PROVE  \A d \in Callers : CallGoesOn(d)
<1>t. call \in [Callers -> Calls]
    BY DEF TypeOK
<1>1. ASSUME NEW new, call' = [call EXCEPT ![c] = new]
      PROVE  call'[c] = new /\ \A d \in Callers : d # c => CallGoesOn(d)
    BY <1>1, <1>t DEF CallGoesOn
<1>2. ASSUME NEW t \in Tasks, NEW new, Begin(c, t, new)
      PROVE  \A d \in Callers : CallGoesOn(d)
  <2>1. CallGoesOn(c)
      BY <1>2 DEF Begin, CallGoesOn
  <2> QED BY <1>1, <1>2, <2>1 DEF Begin
<1>3. CASE ReadBack(c)
  <2> DEFINE t == call[c].task
             new == [call[c] EXCEPT !.at = "taking", !.enabled = row[t].enabled,
                                    !.cron = row[t].cron]
  <2>1. call[c].at = "reading" /\ call' = [call EXCEPT ![c] = new]
      BY <1>3, <1>t DEF ReadBack
  <2>2. new.at = "taking" /\ new.task = call[c].task
      BY <1>t DEF Calls
  <2> HIDE DEF new
  <2>3. call'[c] = new /\ \A d \in Callers : d # c => CallGoesOn(d)
      BY <1>1, <2>1
  <2> QED BY <2>1, <2>2, <2>3, CallPoint DEF CallGoesOn
<1>4. CASE call[c].at # "idle" /\ call' = [call EXCEPT ![c] = NoCall]
  <2>1. call[c].at \in CallPoints \ {"idle"}
      BY <1>4, <1>t DEF Calls
  <2> QED BY <1>1, <1>4, <2>1, CallPoint DEF CallGoesOn, NoCall, CallPoints
<1>5. /\ Removed(c).at \in {"adding", "idle"}
      /\ Removed(c).at = "adding" => Removed(c).task = call[c].task
    BY <1>t DEF Removed, Calls, NoCall
<1>6. CASE TakeEntry(c) \/ RemoveJob(c)
  <2> DEFINE new == [call[c] EXCEPT !.at = "removing", !.job = table[call[c].task]]
  <2>1. \/ call[c].at \in {"taking", "removing"} /\ call' = [call EXCEPT ![c] = Removed(c)]
        \/ call[c].at = "taking" /\ call' = [call EXCEPT ![c] = new]
      BY <1>6 DEF TakeEntry, RemoveJob
  <2>2. new.at = "removing" /\ new.task = call[c].task
      BY <1>t DEF Calls
  <2> HIDE DEF new
  <2>3. \A d \in Callers : d # c => CallGoesOn(d)
      BY <1>1, <2>1
  <2>4. \/ call[c].at \in {"taking", "removing"} /\ call'[c] = Removed(c)
        \/ call[c].at = "taking" /\ call'[c] = new
      BY <1>1, <2>1
  <2>5. CallGoesOn(c)
      BY <1>5, <2>2, <2>4, CallPoint DEF CallGoesOn
  <2> QED BY <2>3, <2>5
<1>7. CASE NewJob(c)
  <2> PICK k \in Jobs : call' = [call EXCEPT ![c] = [call[c] EXCEPT !.at = "recording", !.job = k]]
      BY <1>7, <1>t DEF NewJob
  <2> DEFINE new == [call[c] EXCEPT !.at = "recording", !.job = k]
  <2>1. new.at = "recording" /\ new.task = call[c].task
      BY <1>t DEF Calls
  <2>2. call' = [call EXCEPT ![c] = new]
      OBVIOUS
  <2>3. call[c].at \in {"creating", "adding"}
      BY <1>7 DEF NewJob
  <2> HIDE DEF new
  <2> QED BY <1>1, <2>1, <2>2, <2>3, CallPoint DEF CallGoesOn
<1>8. CASE \E t \in Tasks :
              \/ \E enabled \in BOOLEAN, cron \in Schedules :
                    \/ CreateScheduledTask(c, t, enabled, cron)
                    \/ UpdateScheduledTask(c, t, enabled, cron)
              \/ DeleteScheduledTask(c, t)
    BY <1>2, <1>8 DEF CreateScheduledTask, UpdateScheduledTask, DeleteScheduledTask
<1>9. CASE ReadBackFails(c) \/ RecordEntry(c) \/ NewJobFails(c)
  <2>1. call[c].at # "idle" /\ call' = [call EXCEPT ![c] = NoCall]
      BY <1>9 DEF ReadBackFails, RecordEntry, NewJobFails
  <2> QED BY <1>4, <2>1
<1> QED BY <1>3, <1>6, <1>7, <1>8, <1>9 DEF CallStep

(* What ExecutionsEnd needs of the steps, for any number of jobs: no step   *)
(* of an execution (executeTask of executor.go) takes it back to a point it *)
(* has passed, and no call, server or other execution moves it; only a      *)
(* restart of the controller ends it.  So it takes at most six steps, of    *)
(* one task.  The calls that change a task go forward in the same way.      *)
THEOREM ExecutionsGoForward ==
    Spec => [][/\ \A k \in Jobs : ExecGoesOn(k)
               /\ \A c \in Callers : CallGoesOn(c)]_vars
<1>1. TypeOK /\ [Next]_vars =>
          [/\ \A k \in Jobs : ExecGoesOn(k)
           /\ \A c \in Callers : CallGoesOn(c)]_vars
  <2> SUFFICES ASSUME TypeOK, [Next]_vars
               PROVE  (\A k \in Jobs : ExecGoesOn(k)) /\ \A c \in Callers : CallGoesOn(c)
      OBVIOUS
  <2>e. UNCHANGED exec => \A k \in Jobs : ExecGoesOn(k)
      BY DEF ExecGoesOn
  <2>c. UNCHANGED call => \A c \in Callers : CallGoesOn(c)
      BY DEF CallGoesOn
  <2>1. ASSUME NEW c \in Callers, CallStep(c)
        PROVE  (\A k \in Jobs : ExecGoesOn(k)) /\ \A d \in Callers : CallGoesOn(d)
    <3>1. UNCHANGED exec
        BY <2>1 DEF CallStep, CreateScheduledTask, UpdateScheduledTask, DeleteScheduledTask, Begin,
                    ReadBack, ReadBackFails, TakeEntry, RemoveJob, NewJob, RecordEntry, NewJobFails,
                    Others
    <3> QED BY <2>1, <2>e, <3>1, CallDescends
  <2>2. ASSUME NEW t \in Tasks, RowCascades(t)
        PROVE  UNCHANGED <<exec, call>>
      BY <2>2 DEF RowCascades
  <2>3. CASE ControllerRestarts
    <3>1. /\ \A k \in Jobs : exec'[k].at = "idle"
          /\ \A c \in Callers : call'[c].at = "idle"
        BY <2>3 DEF ControllerRestarts, NoExec, NoCall
    <3>2. /\ \A k \in Jobs : exec[k].at \in ExecPoints
          /\ \A c \in Callers : call[c].at \in CallPoints
        BY DEF TypeOK, Execs, Calls
    <3>3. ASSUME NEW k \in Jobs PROVE ExecGoesOn(k)
        BY <3>1, <3>2, ExecPoint DEF ExecGoesOn, ExecPoints
    <3>4. ASSUME NEW c \in Callers PROVE CallGoesOn(c)
        BY <3>1, <3>2, CallPoint DEF CallGoesOn, CallPoints
    <3> QED BY <3>3, <3>4
  <2>4. ASSUME NEW k \in Jobs, Fire(k) \/ ExecutionStep(k)
        PROVE  (\A j \in Jobs : ExecGoesOn(j)) /\ \A c \in Callers : CallGoesOn(c)
    <3>1. UNCHANGED call
        BY <2>4 DEF Fire, ExecutionStep, Load, Refuse, Confirm, StopReaches, StopFindsNothing,
                    StopReturns, StopFails, SeenOffline, TimesOut, StartIssued, StartFails,
                    StartAnswerLost, Move, End, Store
    <3>2. CASE ExecutionStep(k)
        BY <3>1, <3>2, <2>c, ExecutionDescends DEF ExecGoesOn
    <3>3. CASE Fire(k)
      <4>1. exec[k].at = "idle" /\ \A j \in Jobs : j # k => exec'[j] = exec[j]
          BY <3>3 DEF Fire, NoExec, TypeOK
      <4> QED BY <3>1, <4>1, <2>c DEF ExecGoesOn
    <3> QED BY <2>4, <3>2, <3>3
  <2>5. CASE ServerStep
      BY <2>5, <2>e, <2>c DEF ServerStep, UserStarts, GoesOnline, UserStops, Exits, Store
  <2>6. CASE UNCHANGED vars
      BY <2>6, <2>e, <2>c DEF vars
  <2> QED BY <2>1, <2>2, <2>3, <2>4, <2>5, <2>6, <2>e, <2>c DEF Next
<1> QED BY <1>1, TypeCorrect, PTL DEF Spec

=============================================================================
