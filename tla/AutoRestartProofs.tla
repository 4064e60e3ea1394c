---- MODULE AutoRestartProofs ----
(* Theorems about AutoRestart.                                               *)
EXTENDS AutoRestart, FiniteSetTheorems, TLAPS

Over(e) == e \in Executions /\ e <= execution /\ ~run[e].alive
Answered(e) == answer[e] # "none"

(* Executions follow each other; only the latest may be alive.               *)
RunInv ==
    \A e \in Executions :
        (e <= execution <=> run[e].kind # "none") /\ (e < execution => ~run[e].alive)

(* Exits are answered one by one, in the order of the executions: what is    *)
(* over is answered, being decided, or waits in the bus.                     *)
QueueInv ==
    /\ \A i \in 1 .. Len(bus) : Over(bus[i].execution) /\ ~Answered(bus[i].execution)
    /\ \A i, j \in 1 .. Len(bus) : i < j => bus[i].execution < bus[j].execution
DecidingInv ==
    deciding # 0 =>
        /\ Over(deciding) /\ ~Answered(deciding)
        /\ \A i \in 1 .. Len(bus) : deciding < bus[i].execution
AnswerInv ==
    \A e \in Executions :
        /\ Answered(e) => Over(e)
        /\ Over(e) /\ ~Answered(e) =>
               e = deciding \/ \E i \in 1 .. Len(bus) : bus[i].execution = e
        /\ \A f \in Executions : Answered(e) /\ f < e => Answered(f)
OrderInv == RunInv /\ QueueInv /\ DecidingInv /\ AnswerInv

(* What the node reports of an exit is what the call to stop left there, and *)
(* no execution that was asked to stop is on its way to a restart.           *)
ReportInv ==
    reports =>
        /\ \A i \in 1 .. Len(bus) :
               bus[i].identified /\ bus[i].intentional = run[bus[i].execution].asked
        /\ deciding # 0 => ~run[deciding].asked
        /\ \A e \in Executions : Restarted(e) => ~run[e].asked

(* The threads of executions are automatic restarts.                         *)
ThreadInv ==
    /\ \A e \in Executions : thread[e].pc # "idle" => Restarted(e)
    /\ \A t \in Threads :
           thread[t].pc \in {"launched", "cleared"} =>
               thread[t].launched \in Executions /\ thread[t].launched <= execution
    /\ \A e \in settled : e <= execution

(* The start of e has cleared the register.                                  *)
Clearing(e) == \E t \in Threads : thread[t].pc = "cleared" /\ thread[t].launched = e

(* An intent that is still there was marked after that.                      *)
MarkInv ==
    marked => \A e \in Executions :
        e <= execution /\ ~Answered(e) /\ (e \in settled \/ Clearing(e)) => e \in disturbed

(* The counter is reset by e.                                                *)
Broken(e) == run[e].stable \/ e \notin settled

(* An exit finds a stable start only if it ran stably or its start was not   *)
(* over.                                                                     *)
StableInv == \A e \in Executions : ~Answered(e) /\ ~Broken(e) => lastStart # "stable"

(* A blocked restart uses up the retries until an exit resets the counter.   *)
BlockedInv ==
    \A e \in Executions : answer[e] = "blocked" =>
        attempts = MaxRetries \/ \E g \in Executions : e < g /\ Answered(g) /\ Broken(g)

(* The restarts after execution last, before the counter is reset.           *)
Series(last) ==
    {e \in Executions :
        e > last /\ (\A g \in last + 1 .. e : g \in settled /\ ~run[g].stable) /\ Restarted(e)}

Unbroken(last) == \A g \in Executions : g > last /\ Answered(g) => ~Broken(g)

(* The counter counts the restarts since it was reset.                       *)
CountInv ==
    \A last \in Executions \cup {0} :
        /\ Cardinality(Series(last)) <= MaxRetries
        /\ Unbroken(last) => Cardinality(Series(last)) <= attempts

IInv ==
    /\ TypeOK
    /\ OrderInv
    /\ ReportInv
    /\ ThreadInv
    /\ MarkInv
    /\ StableInv
    /\ BlockedInv
    /\ CountInv

-----------------------------------------------------------------------------
(* Types.                                                                    *)

Places ==
    {"idle", "begin", "start", "launched", "cleared", "confirmed", "marked", "stopping",
     "offline?", "deleting", "installing", "pause", "cooldown", "post-install", "done"}
Goals == {"none", "start", "stop", "remove", "restart", "install"}
Verdicts == {"none", "asked", "skipped", "ignored", "limit", "restart", "blocked"}
ThreadRecords == [pc : Places, goal : Goals, launched : 0 .. MaxExecutions]
Runs == [kind : {"none", "game", "install"}, alive : BOOLEAN, asked : BOOLEAN, stable : BOOLEAN]

ThreadTyped == thread \in [Threads -> ThreadRecords]
OperationTyped == operation \in Callers \cup {Nobody}
NodeTyped == execution \in 0 .. MaxExecutions /\ run \in [Executions -> Runs] /\ bus \in Seq(Events)
EntryTyped == attempts \in 0 .. MaxRetries /\ lastStart \in {"never", "recent", "stable"}
HistoryTyped ==
    /\ settled \subseteq Executions /\ disturbed \subseteq Executions
    /\ answer \in [Executions -> Verdicts]
RestTyped ==
    /\ present \in BOOLEAN /\ reports \in BOOLEAN /\ marked \in BOOLEAN /\ hooked \in BOOLEAN
    /\ deciding \in 0 .. MaxExecutions /\ calls \in 0 .. MaxCalls

Typed == ThreadTyped /\ OperationTyped /\ NodeTyped /\ EntryTyped /\ HistoryTyped /\ RestTyped

(* The type invariant in parts, for the provers.                             *)
LEMMA TypeParts == TypeOK <=> Typed
BY DEF TypeOK, Typed, ThreadTyped, OperationTyped, NodeTyped, EntryTyped, HistoryTyped,
    RestTyped,
       ThreadRecords, Runs, Places, Goals, Verdicts

(* The threads are different ones.                                           *)
LEMMA ThreadKinds ==
    /\ Executions \subseteq Threads /\ Callers \subseteq Threads /\ Hook \in Threads
    /\ \A c \in Callers : c \notin Executions
    /\ Hook \notin Executions /\ 0 \notin Executions
    /\ Executions \subseteq 0 .. MaxExecutions /\ Executions \subseteq Nat
BY AutoRestartAssumption DEF Threads, Executions

(* What an idle thread becomes when a call begins or ends.                   *)
LEMMA IdleTypes ==
    /\ Idle \in ThreadRecords /\ [Idle EXCEPT !.pc = "done"] \in ThreadRecords
    /\ \A pc \in Places, goal \in Goals :
           /\ [Idle EXCEPT !.pc = pc, !.goal = goal] \in ThreadRecords
           /\ [Idle EXCEPT !.pc = pc, !.goal = goal].pc = pc
    /\ Idle.pc = "idle" /\ [Idle EXCEPT !.pc = "done"].pc = "done"
<1>1. 0 \in 0 .. MaxExecutions
    BY AutoRestartAssumption
<1>2. Idle \in ThreadRecords /\ [Idle EXCEPT !.pc = "done"] \in ThreadRecords
    BY <1>1 DEF Idle, ThreadRecords, Places, Goals
<1>3. ASSUME NEW pc \in Places, NEW goal \in Goals
      PROVE  /\ [Idle EXCEPT !.pc = pc, !.goal = goal] \in ThreadRecords
             /\ [Idle EXCEPT !.pc = pc, !.goal = goal].pc = pc
  <2>1. [Idle EXCEPT !.pc = pc, !.goal = goal] \in ThreadRecords
      BY <1>2 DEF ThreadRecords
  <2>2. [Idle EXCEPT !.pc = pc, !.goal = goal].pc = pc
      BY DEF Idle
  <2> QED BY <2>1, <2>2
<1> QED BY <1>2, <1>3 DEF Idle

(* What a thread that moves on becomes.                                      *)
LEMMA BecomesTypes ==
    ASSUME ThreadTyped, NEW t \in Threads, NEW pc \in Places, Becomes(t, pc)
    PROVE  /\ ThreadTyped'
           /\ thread'[t].pc = pc /\ thread'[t].launched = thread[t].launched
           /\ \A s \in Threads : s # t => thread'[s] = thread[s]
BY DEF ThreadTyped, ThreadRecords, Becomes

(* What a thread that is over becomes.                                       *)
LEMMA EndsTypes ==
    ASSUME ThreadTyped, OperationTyped, NEW t \in Threads, Ends(t)
    PROVE  /\ ThreadTyped' /\ OperationTyped'
           /\ thread'[t].pc \in {"idle", "done"}
           /\ t \in Callers => thread'[t].pc = "idle"
           /\ \A s \in Threads : s # t => thread'[s] = thread[s]
<1>1. /\ thread' = [thread EXCEPT ![t] = thread'[t]]
      /\ thread'[t] \in {Idle, [Idle EXCEPT !.pc = "done"]}
      /\ t \in Callers => thread'[t] = Idle
    BY DEF Ends, ThreadTyped
<1>2. thread'[t] \in ThreadRecords
    BY <1>1, IdleTypes
<1>3. ThreadTyped' /\ \A s \in Threads : s # t => thread'[s] = thread[s]
    BY <1>1, <1>2 DEF ThreadTyped
<1>4. OperationTyped'
    BY DEF Ends, OperationTyped
<1> QED BY <1>1, <1>3, <1>4, IdleTypes

(* A call begins.                                                            *)
LEMMA CallTypes ==
    ASSUME ThreadTyped, NEW t \in Threads, NEW pc \in Places, NEW goal \in Goals,
           thread' = [thread EXCEPT ![t] = [Idle EXCEPT !.pc = pc, !.goal = goal]]
    PROVE  /\ ThreadTyped' /\ thread'[t].pc = pc
           /\ \A s \in Threads : s # t => thread'[s] = thread[s]
BY IdleTypes DEF ThreadTyped

(* A start that the node accepts.                                            *)
LEMMA OpensTypes ==
    ASSUME NodeTyped, NEW kind \in {"game", "install"}, Opens(kind)
    PROVE  /\ execution + 1 \in Executions /\ execution' = execution + 1
           /\ run' \in [Executions -> Runs] /\ execution' \in 0 .. MaxExecutions
           /\ run'[execution + 1] = [NoRun EXCEPT !.kind = kind, !.alive = TRUE]
           /\ run'[execution + 1].alive /\ run'[execution + 1].kind = kind
           /\ \A e \in Executions : e # execution + 1 => run'[e] = run[e]
<1>1. /\ execution + 1 \in Executions /\ execution' = execution + 1
      /\ execution' \in 0 .. MaxExecutions
    BY AutoRestartAssumption DEF NodeTyped, Opens, Executions
<1>2. [NoRun EXCEPT !.kind = kind, !.alive = TRUE] \in Runs
    BY DEF NoRun, Runs
<1> QED BY <1>1, <1>2 DEF Opens, NodeTyped, NoRun

(* The bus is a queue.                                                       *)
LEMMA TakenFromBus ==
    ASSUME NodeTyped, bus # <<>>
    PROVE  /\ Head(bus) = bus[1] /\ bus[1] \in Events /\ Tail(bus) \in Seq(Events)
           /\ Len(bus) \in Nat /\ 1 \in 1 .. Len(bus)
           /\ \A i \in 1 .. Len(Tail(bus)) :
                  Tail(bus)[i] = bus[i + 1] /\ i + 1 \in 1 .. Len(bus) /\ i < i + 1 /\ 1 < i + 1
           /\ \A i, j \in 1 .. Len(Tail(bus)) : i < j => i + 1 < j + 1
           /\ \A i \in 1 .. Len(bus) :
                  i = 1 \/ (1 < i /\ i - 1 \in 1 .. Len(Tail(bus)) /\ Tail(bus)[i - 1] = bus[i])
BY DEF NodeTyped

LEMMA PutOnBus ==
    ASSUME NodeTyped, NEW event \in Events, bus' = Append(bus, event)
    PROVE  /\ bus' \in Seq(Events) /\ Len(bus) \in Nat /\ Len(bus') = Len(bus) + 1
           /\ bus'[Len(bus) + 1] = event
           /\ \A i \in 1 .. Len(bus) : bus'[i] = bus[i]
BY DEF NodeTyped

(* The fields of an event.                                                   *)
LEMMA EventTypes ==
    ASSUME NEW event \in Events
    PROVE  /\ event.execution \in Executions /\ event.kind \in {"game", "install"}
           /\ event.clean \in BOOLEAN /\ event.identified \in BOOLEAN
           /\ event.intentional \in BOOLEAN
BY DEF Events

(* A call that goes on after its stop, or is over.                           *)
LEMMA ResumesTypes ==
    ASSUME ThreadTyped, OperationTyped, NEW t \in Callers, Resumes(t)
    PROVE  /\ ThreadTyped' /\ OperationTyped'
           /\ thread'[t].pc \in {"idle", "offline?"}
           /\ \A s \in Threads : s # t => thread'[s] = thread[s]
<1>1. "offline?" \in Places /\ t \in Threads
    BY ThreadKinds DEF Places
<1>2. CASE thread[t].goal = "stop"
    BY <1>1, <1>2, EndsTypes DEF Resumes
<1>3. CASE thread[t].goal # "stop"
    BY <1>1, <1>3, BecomesTypes DEF Resumes, OperationTyped
<1> QED BY <1>2, <1>3

(* Every step keeps the types.                                               *)
LEMMA TypesAreKept ==
    ASSUME TypeOK, ThreadInv, RunInv, Next
    PROVE  TypeOK'
<1> USE ThreadKinds DEF node, registers, entry, history
<1>0. ThreadTyped /\ OperationTyped /\ NodeTyped /\ EntryTyped /\ HistoryTyped /\ RestTyped
    BY TypeParts DEF Typed
<1>1. ASSUME NEW t \in Threads, Load(t)
      PROVE  Typed'
  <2>1. ThreadTyped' /\ OperationTyped'
      BY <1>0, <1>1, BecomesTypes, EndsTypes DEF Load, Places, OperationTyped
  <2>2. NodeTyped'
      BY <1>0, <1>1 DEF Load, NodeTyped
  <2>3. EntryTyped'
      BY <1>0, <1>1 DEF Load, EntryTyped
  <2>4. HistoryTyped'
      BY <1>0, <1>1 DEF Load, HistoryTyped
  <2>5. RestTyped'
      BY <1>0, <1>1 DEF Load, RestTyped
  <2> QED BY <2>1, <2>2, <2>3, <2>4, <2>5 DEF Typed
<1>2. ASSUME NEW t \in Threads, StartBlocked(t)
      PROVE  Typed'
  <2>1. ThreadTyped' /\ OperationTyped'
      BY <1>0, <1>2, EndsTypes DEF StartBlocked, Places, OperationTyped
  <2>2. NodeTyped'
      BY <1>0, <1>2 DEF StartBlocked, NodeTyped
  <2>3. EntryTyped'
      BY <1>0, <1>2, AutoRestartAssumption DEF StartBlocked, EntryTyped
  <2>4. HistoryTyped'
      BY <1>0, <1>2 DEF StartBlocked, HistoryTyped, Verdicts
  <2>5. RestTyped'
      BY <1>0, <1>2 DEF StartBlocked, RestTyped
  <2> QED BY <2>1, <2>2, <2>3, <2>4, <2>5 DEF Typed
<1>3. ASSUME NEW t \in Threads, StartFails(t)
      PROVE  Typed'
  <2>1. ThreadTyped' /\ OperationTyped'
      BY <1>0, <1>3, EndsTypes DEF StartFails, Places, OperationTyped
  <2>2. NodeTyped'
      BY <1>0, <1>3 DEF StartFails, NodeTyped
  <2>3. EntryTyped'
      BY <1>0, <1>3 DEF StartFails, EntryTyped
  <2>4. HistoryTyped'
      BY <1>0, <1>3 DEF StartFails, HistoryTyped
  <2>5. RestTyped'
      BY <1>0, <1>3 DEF StartFails, RestTyped
  <2> QED BY <2>1, <2>2, <2>3, <2>4, <2>5 DEF Typed
<1>4. ASSUME NEW t \in Threads, Launch(t)
      PROVE  Typed'
  <2>1. ThreadTyped' /\ OperationTyped'
    <3>1. execution + 1 \in 0 .. MaxExecutions /\ operation' = operation
        BY <1>0, <1>4, OpensTypes DEF Launch, Executions
    <3>2. thread' = [thread EXCEPT ![t].pc = "launched", ![t].launched = execution + 1]
        BY <1>4 DEF Launch
    <3>3. thread[t] \in ThreadRecords /\ "launched" \in Places
        BY <1>0, <1>4, ThreadKinds DEF ThreadTyped, Places
    <3>4. [thread[t] EXCEPT !.pc = "launched", !.launched = execution + 1] \in ThreadRecords
        BY <3>1, <3>3 DEF ThreadRecords
    <3> QED BY <1>0, <3>1, <3>2, <3>3, <3>4 DEF ThreadTyped, OperationTyped
  <2>2. NodeTyped'
      BY <1>0, <1>4, OpensTypes DEF Launch, NodeTyped
  <2>3. EntryTyped'
      BY <1>0, <1>4 DEF Launch, EntryTyped
  <2>4. HistoryTyped'
      BY <1>0, <1>4, OpensTypes DEF Launch, HistoryTyped
  <2>5. RestTyped'
      BY <1>0, <1>4 DEF Launch, RestTyped
  <2> QED BY <2>1, <2>2, <2>3, <2>4, <2>5 DEF Typed
<1>5. ASSUME NEW t \in Threads, LaunchUnanswered(t)
      PROVE  Typed'
  <2>1. ThreadTyped' /\ OperationTyped'
      BY <1>0, <1>5, EndsTypes DEF LaunchUnanswered, Places, OperationTyped
  <2>2. NodeTyped'
      BY <1>0, <1>5, OpensTypes DEF LaunchUnanswered, NodeTyped
  <2>3. EntryTyped'
      BY <1>0, <1>5 DEF LaunchUnanswered, EntryTyped
  <2>4. HistoryTyped'
      BY <1>0, <1>5 DEF LaunchUnanswered, HistoryTyped
  <2>5. RestTyped'
      BY <1>0, <1>5 DEF LaunchUnanswered, RestTyped
  <2> QED BY <2>1, <2>2, <2>3, <2>4, <2>5 DEF Typed
<1>6. ASSUME NEW t \in Threads, ClearIntent(t)
      PROVE  Typed'
  <2>1. ThreadTyped' /\ OperationTyped'
      BY <1>0, <1>6, BecomesTypes DEF ClearIntent, Places, OperationTyped
  <2>2. NodeTyped'
      BY <1>0, <1>6 DEF ClearIntent, NodeTyped
  <2>3. EntryTyped'
      BY <1>0, <1>6 DEF ClearIntent, EntryTyped
  <2>4. HistoryTyped'
      BY <1>0, <1>6 DEF ClearIntent, HistoryTyped
  <2>5. RestTyped'
      BY <1>0, <1>6 DEF ClearIntent, RestTyped
  <2> QED BY <2>1, <2>2, <2>3, <2>4, <2>5 DEF Typed
<1>7. ASSUME NEW t \in Threads, RecordStarted(t)
      PROVE  Typed'
  <2>1. ThreadTyped' /\ OperationTyped'
      BY <1>0, <1>7, EndsTypes DEF RecordStarted, Places, OperationTyped
  <2>2. NodeTyped'
      BY <1>0, <1>7 DEF RecordStarted, NodeTyped
  <2>3. EntryTyped'
      BY <1>0, <1>7, AutoRestartAssumption DEF RecordStarted, EntryTyped
  <2>4. HistoryTyped'
      BY <1>0, <1>7 DEF RecordStarted, HistoryTyped, ThreadInv
  <2>5. RestTyped'
      BY <1>0, <1>7 DEF RecordStarted, RestTyped
  <2> QED BY <2>1, <2>2, <2>3, <2>4, <2>5 DEF Typed
<1>8. ASSUME NEW c \in Callers, UserStarts(c)
      PROVE  Typed'
  <2>1. ThreadTyped' /\ OperationTyped'
      BY <1>0, <1>8, CallTypes DEF UserStarts, Places, OperationTyped, Called, Goals
  <2>2. NodeTyped'
      BY <1>0, <1>8 DEF UserStarts, NodeTyped
  <2>3. EntryTyped'
      BY <1>0, <1>8 DEF UserStarts, EntryTyped
  <2>4. HistoryTyped'
      BY <1>0, <1>8 DEF UserStarts, HistoryTyped
  <2>5. RestTyped'
      BY <1>0, <1>8, AutoRestartAssumption DEF UserStarts, RestTyped, Called
  <2> QED BY <2>1, <2>2, <2>3, <2>4, <2>5 DEF Typed
<1>9. ASSUME NEW c \in Callers, UserStops(c)
      PROVE  Typed'
  <2>1. ThreadTyped' /\ OperationTyped'
    <3>1. PICK goal \in {"stop", "remove"} :
              thread' = [thread EXCEPT ![c] = [Idle EXCEPT !.pc = "marked", !.goal = goal]]
        BY <1>9 DEF UserStops
    <3>2. c \in Threads /\ "marked" \in Places /\ goal \in Goals
        BY DEF Threads, Places, Goals
    <3>3. ThreadTyped'
        BY <1>0, <3>1, <3>2, CallTypes
    <3> QED BY <1>0, <1>9, <3>3 DEF UserStops, OperationTyped
  <2>2. NodeTyped'
      BY <1>0, <1>9 DEF UserStops, NodeTyped
  <2>3. EntryTyped'
      BY <1>0, <1>9 DEF UserStops, EntryTyped
  <2>4. HistoryTyped'
      BY <1>0, <1>9 DEF UserStops, HistoryTyped, Verdicts, Mark
  <2>5. RestTyped'
      BY <1>0, <1>9, AutoRestartAssumption DEF UserStops, RestTyped, Called, Mark
  <2> QED BY <2>1, <2>2, <2>3, <2>4, <2>5 DEF Typed
<1>10. ASSUME NEW c \in Callers, UserRestarts(c)
      PROVE  Typed'
  <2>1. ThreadTyped' /\ OperationTyped'
      BY <1>0, <1>10, CallTypes DEF UserRestarts, Called, Places, Goals, OperationTyped
  <2>2. NodeTyped'
      BY <1>0, <1>10 DEF UserRestarts, NodeTyped
  <2>3. EntryTyped'
      BY <1>0, <1>10 DEF UserRestarts, EntryTyped
  <2>4. HistoryTyped'
      BY <1>0, <1>10 DEF UserRestarts, HistoryTyped
  <2>5. RestTyped'
      BY <1>0, <1>10, AutoRestartAssumption DEF UserRestarts, RestTyped, Called
  <2> QED BY <2>1, <2>2, <2>3, <2>4, <2>5 DEF Typed
<1>11. ASSUME NEW c \in Callers, StopForRestart(c)
      PROVE  Typed'
  <2>1. ThreadTyped' /\ OperationTyped'
      BY <1>0, <1>11, BecomesTypes DEF StopForRestart, Places, OperationTyped
  <2>2. NodeTyped'
      BY <1>0, <1>11 DEF StopForRestart, NodeTyped
  <2>3. EntryTyped'
      BY <1>0, <1>11 DEF StopForRestart, EntryTyped
  <2>4. HistoryTyped'
      BY <1>0, <1>11 DEF StopForRestart, HistoryTyped, Verdicts, Mark
  <2>5. RestTyped'
      BY <1>0, <1>11 DEF StopForRestart, RestTyped, Mark
  <2> QED BY <2>1, <2>2, <2>3, <2>4, <2>5 DEF Typed
<1>12. ASSUME NEW c \in Callers, StopFails(c)
      PROVE  Typed'
  <2>1. ThreadTyped' /\ OperationTyped'
      BY <1>0, <1>12, EndsTypes DEF StopFails, Places, OperationTyped
  <2>2. NodeTyped'
      BY <1>0, <1>12 DEF StopFails, NodeTyped
  <2>3. EntryTyped'
      BY <1>0, <1>12 DEF StopFails, EntryTyped
  <2>4. HistoryTyped'
      BY <1>0, <1>12 DEF StopFails, HistoryTyped
  <2>5. RestTyped'
      BY <1>0, <1>12 DEF StopFails, RestTyped
  <2> QED BY <2>1, <2>2, <2>3, <2>4, <2>5 DEF Typed
<1>13. ASSUME NEW c \in Callers, StopFindsNothing(c)
      PROVE  Typed'
  <2>1. ThreadTyped' /\ OperationTyped'
      BY <1>0, <1>13, ResumesTypes DEF StopFindsNothing, Places, OperationTyped
  <2>2. NodeTyped'
      BY <1>0, <1>13 DEF StopFindsNothing, NodeTyped
  <2>3. EntryTyped'
      BY <1>0, <1>13 DEF StopFindsNothing, EntryTyped
  <2>4. HistoryTyped'
      BY <1>0, <1>13 DEF StopFindsNothing, HistoryTyped
  <2>5. RestTyped'
      BY <1>0, <1>13 DEF StopFindsNothing, RestTyped
  <2> QED BY <2>1, <2>2, <2>3, <2>4, <2>5 DEF Typed
<1>14. ASSUME NEW c \in Callers, StopFindsIdle(c)
      PROVE  Typed'
  <2>1. ThreadTyped' /\ OperationTyped'
      BY <1>0, <1>14, ResumesTypes DEF StopFindsIdle, Places, OperationTyped
  <2>2. NodeTyped'
      BY <1>0, <1>14 DEF StopFindsIdle, NodeTyped
  <2>3. EntryTyped'
      BY <1>0, <1>14 DEF StopFindsIdle, EntryTyped
  <2>4. HistoryTyped'
      BY <1>0, <1>14 DEF StopFindsIdle, HistoryTyped
  <2>5. RestTyped'
      BY <1>0, <1>14 DEF StopFindsIdle, RestTyped
  <2> QED BY <2>1, <2>2, <2>3, <2>4, <2>5 DEF Typed
<1>15. ASSUME NEW c \in Callers, StopReaches(c)
      PROVE  Typed'
  <2>1. ThreadTyped' /\ OperationTyped'
      BY <1>0, <1>15, BecomesTypes DEF StopReaches, Places, OperationTyped
  <2>2. NodeTyped'
    <3>1. run' = [run EXCEPT ![execution].asked = TRUE] /\ UNCHANGED <<execution, bus>>
        BY <1>15 DEF StopReaches
    <3> QED BY <1>0, <3>1 DEF NodeTyped, Runs
  <2>3. EntryTyped'
      BY <1>0, <1>15 DEF StopReaches, EntryTyped
  <2>4. HistoryTyped'
      BY <1>0, <1>15 DEF StopReaches, HistoryTyped
  <2>5. RestTyped'
      BY <1>0, <1>15 DEF StopReaches, RestTyped
  <2> QED BY <2>1, <2>2, <2>3, <2>4, <2>5 DEF Typed
<1>16. ASSUME NEW c \in Callers, StopReturns(c)
      PROVE  Typed'
  <2>1. ThreadTyped' /\ OperationTyped'
      BY <1>0, <1>16, ResumesTypes DEF StopReturns, Places, OperationTyped
  <2>2. NodeTyped'
      BY <1>0, <1>16 DEF StopReturns, NodeTyped
  <2>3. EntryTyped'
      BY <1>0, <1>16 DEF StopReturns, EntryTyped
  <2>4. HistoryTyped'
      BY <1>0, <1>16 DEF StopReturns, HistoryTyped
  <2>5. RestTyped'
      BY <1>0, <1>16 DEF StopReturns, RestTyped
  <2> QED BY <2>1, <2>2, <2>3, <2>4, <2>5 DEF Typed
<1>17. ASSUME NEW c \in Callers, SeenOffline(c)
      PROVE  Typed'
  <2>1. ThreadTyped' /\ OperationTyped'
      BY <1>0, <1>17, BecomesTypes DEF SeenOffline, Places, OperationTyped
  <2>2. NodeTyped'
      BY <1>0, <1>17 DEF SeenOffline, NodeTyped
  <2>3. EntryTyped'
      BY <1>0, <1>17 DEF SeenOffline, EntryTyped
  <2>4. HistoryTyped'
      BY <1>0, <1>17 DEF SeenOffline, HistoryTyped
  <2>5. RestTyped'
      BY <1>0, <1>17 DEF SeenOffline, RestTyped
  <2> QED BY <2>1, <2>2, <2>3, <2>4, <2>5 DEF Typed
<1>18. ASSUME NEW c \in Callers, DeleteServer(c)
      PROVE  Typed'
  <2>1. ThreadTyped' /\ OperationTyped'
      BY <1>0, <1>18, EndsTypes DEF DeleteServer, Places, OperationTyped
  <2>2. NodeTyped'
      BY <1>0, <1>18 DEF DeleteServer, NodeTyped
  <2>3. EntryTyped'
      BY <1>0, <1>18 DEF DeleteServer, EntryTyped
  <2>4. HistoryTyped'
      BY <1>0, <1>18 DEF DeleteServer, HistoryTyped
  <2>5. RestTyped'
      BY <1>0, <1>18 DEF DeleteServer, RestTyped
  <2> QED BY <2>1, <2>2, <2>3, <2>4, <2>5 DEF Typed
<1>19. ASSUME NEW c \in Callers, WaitTimesOut(c)
      PROVE  Typed'
  <2>1. ThreadTyped' /\ OperationTyped'
      BY <1>0, <1>19, EndsTypes DEF WaitTimesOut, Places, OperationTyped
  <2>2. NodeTyped'
      BY <1>0, <1>19 DEF WaitTimesOut, NodeTyped
  <2>3. EntryTyped'
      BY <1>0, <1>19 DEF WaitTimesOut, EntryTyped
  <2>4. HistoryTyped'
      BY <1>0, <1>19 DEF WaitTimesOut, HistoryTyped
  <2>5. RestTyped'
      BY <1>0, <1>19 DEF WaitTimesOut, RestTyped
  <2> QED BY <2>1, <2>2, <2>3, <2>4, <2>5 DEF Typed
<1>20. ASSUME NEW c \in Callers, RegisterHook(c)
      PROVE  Typed'
  <2>1. ThreadTyped' /\ OperationTyped'
      BY <1>0, <1>20, CallTypes DEF RegisterHook, Places, OperationTyped, Called, Goals
  <2>2. NodeTyped'
      BY <1>0, <1>20 DEF RegisterHook, NodeTyped
  <2>3. EntryTyped'
      BY <1>0, <1>20 DEF RegisterHook, EntryTyped
  <2>4. HistoryTyped'
      BY <1>0, <1>20 DEF RegisterHook, HistoryTyped
  <2>5. RestTyped'
      BY <1>0, <1>20, AutoRestartAssumption DEF RegisterHook, RestTyped, Called
  <2> QED BY <2>1, <2>2, <2>3, <2>4, <2>5 DEF Typed
<1>21. ASSUME NEW c \in Callers, LaunchInstaller(c)
      PROVE  Typed'
  <2>1. ThreadTyped' /\ OperationTyped'
      BY <1>0, <1>21, EndsTypes DEF LaunchInstaller, Places, OperationTyped
  <2>2. NodeTyped'
      BY <1>0, <1>21, OpensTypes DEF LaunchInstaller, NodeTyped
  <2>3. EntryTyped'
      BY <1>0, <1>21 DEF LaunchInstaller, EntryTyped
  <2>4. HistoryTyped'
      BY <1>0, <1>21 DEF LaunchInstaller, HistoryTyped
  <2>5. RestTyped'
      BY <1>0, <1>21 DEF LaunchInstaller, RestTyped
  <2> QED BY <2>1, <2>2, <2>3, <2>4, <2>5 DEF Typed
<1>22. ASSUME NEW e \in Executions, CooldownEnds(e)
      PROVE  Typed'
  <2>1. ThreadTyped' /\ OperationTyped'
      BY <1>0, <1>22, BecomesTypes, EndsTypes DEF CooldownEnds, Places, OperationTyped
  <2>2. NodeTyped'
      BY <1>0, <1>22 DEF CooldownEnds, NodeTyped
  <2>3. EntryTyped'
      BY <1>0, <1>22 DEF CooldownEnds, EntryTyped
  <2>4. HistoryTyped'
      BY <1>0, <1>22 DEF CooldownEnds, HistoryTyped
  <2>5. RestTyped'
      BY <1>0, <1>22 DEF CooldownEnds, RestTyped
  <2> QED BY <2>1, <2>2, <2>3, <2>4, <2>5 DEF Typed
<1>23. ASSUME HandleOffline
      PROVE  Typed'
  <2>1. ThreadTyped' /\ OperationTyped'
    <3>1. \/ thread' = thread
          \/ thread' = [thread EXCEPT ![Hook].pc = "post-install"]
        BY <1>23 DEF HandleOffline
    <3>2. [thread EXCEPT ![Hook].pc = "post-install"] \in [Threads -> ThreadRecords]
        BY <1>0 DEF ThreadTyped, ThreadRecords, Places
    <3>3. operation' = operation
        BY <1>23 DEF HandleOffline
    <3> QED BY <1>0, <3>1, <3>2, <3>3 DEF ThreadTyped, OperationTyped
  <2>2. NodeTyped'
      BY <1>0, <1>23, TakenFromBus DEF HandleOffline, NodeTyped
  <2>3. EntryTyped'
      BY <1>0, <1>23 DEF HandleOffline, EntryTyped
  <2>4. HistoryTyped'
      BY <1>0, <1>23, TakenFromBus, EventTypes DEF HandleOffline, HistoryTyped, Verdict,
          Verdicts
  <2>5. RestTyped'
      BY <1>0, <1>23, TakenFromBus, EventTypes DEF HandleOffline, RestTyped, Verdict, HookFires
  <2> QED BY <2>1, <2>2, <2>3, <2>4, <2>5 DEF Typed
<1>24. ASSUME IgnoreExit
      PROVE  Typed'
  <2>1. ThreadTyped' /\ OperationTyped'
      BY <1>0, <1>24 DEF IgnoreExit, ThreadTyped, OperationTyped
  <2>2. NodeTyped'
      BY <1>0, <1>24 DEF IgnoreExit, NodeTyped
  <2>3. EntryTyped'
      BY <1>0, <1>24 DEF IgnoreExit, EntryTyped
  <2>4. HistoryTyped'
      BY <1>0, <1>24 DEF IgnoreExit, Answers, HistoryTyped, Verdicts
  <2>5. RestTyped'
      BY <1>0, <1>24, AutoRestartAssumption DEF IgnoreExit, RestTyped, Answers
  <2> QED BY <2>1, <2>2, <2>3, <2>4, <2>5 DEF Typed
<1>25. ASSUME GiveUp
      PROVE  Typed'
  <2>1. ThreadTyped' /\ OperationTyped'
      BY <1>0, <1>25 DEF GiveUp, ThreadTyped, OperationTyped
  <2>2. NodeTyped'
      BY <1>0, <1>25 DEF GiveUp, NodeTyped
  <2>3. EntryTyped'
      BY <1>0, <1>25, AutoRestartAssumption DEF GiveUp, EntryTyped, Used
  <2>4. HistoryTyped'
      BY <1>0, <1>25 DEF GiveUp, Answers, HistoryTyped, Verdicts
  <2>5. RestTyped'
      BY <1>0, <1>25, AutoRestartAssumption DEF GiveUp, RestTyped, Answers
  <2> QED BY <2>1, <2>2, <2>3, <2>4, <2>5 DEF Typed
<1>26. ASSUME ScheduleRestart
      PROVE  Typed'
  <2>1. ThreadTyped' /\ OperationTyped'
      BY <1>0, <1>26 DEF ScheduleRestart, ThreadTyped, ThreadRecords, OperationTyped, Places,
          Delay, RestTyped, Executions
  <2>2. NodeTyped'
      BY <1>0, <1>26 DEF ScheduleRestart, NodeTyped
  <2>3. EntryTyped'
      BY <1>0, <1>26, AutoRestartAssumption DEF ScheduleRestart, EntryTyped, Used
  <2>4. HistoryTyped'
      BY <1>0, <1>26 DEF ScheduleRestart, Answers, HistoryTyped, Verdicts
  <2>5. RestTyped'
      BY <1>0, <1>26, AutoRestartAssumption DEF ScheduleRestart, RestTyped, Answers
  <2> QED BY <2>1, <2>2, <2>3, <2>4, <2>5 DEF Typed
<1>27. ASSUME PostInstall
      PROVE  Typed'
  <2>1. ThreadTyped' /\ OperationTyped'
      BY <1>0, <1>27, BecomesTypes, EndsTypes DEF PostInstall, Places, OperationTyped
  <2>2. NodeTyped'
      BY <1>0, <1>27 DEF PostInstall, NodeTyped
  <2>3. EntryTyped'
      BY <1>0, <1>27 DEF PostInstall, EntryTyped
  <2>4. HistoryTyped'
      BY <1>0, <1>27 DEF PostInstall, HistoryTyped
  <2>5. RestTyped'
      BY <1>0, <1>27 DEF PostInstall, RestTyped
  <2> QED BY <2>1, <2>2, <2>3, <2>4, <2>5 DEF Typed
<1>28. ASSUME ProcessExits
      PROVE  Typed'
  <2>1. ThreadTyped' /\ OperationTyped'
      BY <1>0, <1>28 DEF ProcessExits, ThreadTyped, OperationTyped
  <2>2. NodeTyped'
      <3>1. run' \in [Executions -> Runs] /\ execution' = execution
        <4>1. run' = [run EXCEPT ![execution].alive = FALSE] /\ execution' = execution
            BY <1>28 DEF ProcessExits
        <4> QED BY <1>0, <4>1 DEF NodeTyped, Runs
      <3>2. execution \in Executions
          BY <1>0, <1>28 DEF ProcessExits, Alive, NodeTyped, Executions
      <3>3. PICK clean \in BOOLEAN :
                bus' = Append(bus, [execution |-> execution, kind |-> run[execution].kind,
                                    clean |-> clean, identified |-> reports,
                                    intentional |-> reports /\ run[execution].asked])
          BY <1>28 DEF ProcessExits
      <3>4. run[execution].kind \in {"game", "install"}
          BY <1>0, <1>28, <3>2 DEF RunInv, NodeTyped, Runs
      <3> QED
          BY <1>0, <3>1, <3>2, <3>3, <3>4, PutOnBus DEF NodeTyped, Events, RestTyped, Runs
  <2>3. EntryTyped'
      BY <1>0, <1>28 DEF ProcessExits, EntryTyped
  <2>4. HistoryTyped'
      BY <1>0, <1>28 DEF ProcessExits, HistoryTyped
  <2>5. RestTyped'
      BY <1>0, <1>28 DEF ProcessExits, RestTyped
  <2> QED BY <2>1, <2>2, <2>3, <2>4, <2>5 DEF Typed
<1>29. ASSUME IntentExpires
      PROVE  Typed'
  <2>1. ThreadTyped' /\ OperationTyped'
      BY <1>0, <1>29 DEF IntentExpires, ThreadTyped, OperationTyped
  <2>2. NodeTyped'
      BY <1>0, <1>29 DEF IntentExpires, NodeTyped
  <2>3. EntryTyped'
      BY <1>0, <1>29 DEF IntentExpires, EntryTyped
  <2>4. HistoryTyped'
      BY <1>0, <1>29 DEF IntentExpires, HistoryTyped
  <2>5. RestTyped'
      BY <1>0, <1>29 DEF IntentExpires, RestTyped
  <2> QED BY <2>1, <2>2, <2>3, <2>4, <2>5 DEF Typed
<1>30. ASSUME StableWindowPasses
      PROVE  Typed'
  <2>1. ThreadTyped' /\ OperationTyped'
      BY <1>0, <1>30 DEF StableWindowPasses, ThreadTyped, OperationTyped
  <2>2. NodeTyped'
      BY <1>0, <1>30 DEF StableWindowPasses, Alive, NodeTyped, Runs
  <2>3. EntryTyped'
      BY <1>0, <1>30, AutoRestartAssumption DEF StableWindowPasses, EntryTyped
  <2>4. HistoryTyped'
      BY <1>0, <1>30 DEF StableWindowPasses, HistoryTyped
  <2>5. RestTyped'
      BY <1>0, <1>30 DEF StableWindowPasses, RestTyped
  <2> QED BY <2>1, <2>2, <2>3, <2>4, <2>5 DEF Typed
<1>31. Typed'
    BY <1>1, <1>2, <1>3, <1>4, <1>5, <1>6, <1>7, <1>8, <1>9, <1>10, <1>11, <1>12, <1>13, <1>14,
        <1>15, <1>16, <1>17, <1>18, <1>19, <1>20, <1>21, <1>22, <1>23, <1>24, <1>25, <1>26,
        <1>27, <1>28, <1>29, <1>30 DEF Next, StartStep, CallStep
<1> QED
    BY <1>31 DEF TypeOK, Typed, ThreadTyped, OperationTyped, NodeTyped, EntryTyped,
        HistoryTyped, RestTyped, ThreadRecords, Runs, Places, Goals, Verdicts

-----------------------------------------------------------------------------
(* What the steps do to the executions and their answers.                    *)

(* Thread t does not begin a restart, nor come out of an accepted start.     *)
Follows(t) ==
    /\ t \in Executions /\ thread'[t].pc # "idle" => thread[t].pc # "idle"
    /\ thread'[t].pc \in {"launched", "cleared"} =>
           /\ thread[t].pc \in {"launched", "cleared"}
           /\ thread'[t].launched = thread[t].launched
    /\ thread'[t].pc = "cleared" /\ marked' => thread[t].pc = "cleared"

(* The steps of threads only, some of which withdraw an intent.              *)
Calm ==
    /\ UNCHANGED <<reports, node, deciding, entry, history>>
    /\ marked' => marked
    /\ \A t \in Threads : Follows(t)

Marks ==
    /\ Mark
    /\ UNCHANGED <<reports, node, deciding, entry, settled, answer>>
    /\ \A t \in Threads : Follows(t)

Opened ==
    /\ \E kind \in {"game", "install"} : Opens(kind)
    /\ UNCHANGED <<reports, bus, deciding, marked, entry, settled, answer>>
    /\ disturbed \subseteq disturbed'
    /\ \A t \in Threads :
           \/ Follows(t)
           \/ /\ thread'[t].pc = "launched" /\ thread'[t].launched = execution + 1
              /\ t \in Executions => thread[t].pc # "idle"

(* handleServerExit makes up its mind.                                       *)
Decided ==
    /\ deciding # 0
    /\ \E verdict \in {"ignored", "limit", "restart"} :
           /\ Answers(verdict)
           /\ verdict = "ignored" => attempts' = attempts
           /\ verdict = "limit" => attempts' = Used
           /\ verdict = "restart" => Used < MaxRetries /\ attempts' = Used + 1
           /\ \A t \in Threads :
                  Follows(t) \/ (t = deciding /\ verdict = "restart" /\ thread'[t].pc = Delay)
    /\ UNCHANGED <<reports, node, marked, lastStart, settled, disturbed>>

Effect ==
    \/ Calm \/ Marks \/ Opened \/ Decided
    \/ \E t \in Threads : StartBlocked(t) \/ RecordStarted(t)
    \/ \E c \in Callers : StopReaches(c)
    \/ HandleOffline \/ ProcessExits \/ StableWindowPasses

(* Every step is one of these.                                               *)
LEMMA StepsHaveEffects ==
    ASSUME TypeOK, ThreadInv, Next
    PROVE  Effect
<1> USE ThreadKinds DEF node, registers, entry, history
<1>0. ThreadTyped /\ OperationTyped /\ NodeTyped /\ EntryTyped /\ HistoryTyped /\ RestTyped
    BY TypeParts DEF Typed
<1>1. ASSUME NEW t \in Threads, Load(t)
      PROVE  Calm
    BY <1>0, <1>1, BecomesTypes, EndsTypes DEF Load, Calm, Follows, Places
<1>2. ASSUME NEW t \in Threads, StartFails(t)
      PROVE  Calm
    BY <1>0, <1>2, EndsTypes DEF StartFails, Calm, Follows, Places
<1>3. ASSUME NEW t \in Threads, ClearIntent(t)
      PROVE  Calm
    BY <1>0, <1>3, BecomesTypes DEF ClearIntent, Calm, Follows, Places
<1>4. ASSUME NEW c \in Callers, UserStarts(c)
      PROVE  Calm
  <2>1. /\ thread'[c].pc \notin {"launched", "cleared"}
        /\ \A t \in Threads : t # c => thread'[t] = thread[t]
      BY <1>0, <1>4, CallTypes DEF UserStarts, Places, Called, Goals
  <2>2. \A t \in Threads : Follows(t)
      BY <2>1 DEF Follows
  <2> QED BY <1>4, <2>2 DEF UserStarts, Called, Calm
<1>5. ASSUME NEW c \in Callers, UserRestarts(c)
      PROVE  Calm
  <2>1. /\ thread'[c].pc \notin {"launched", "cleared"}
        /\ \A t \in Threads : t # c => thread'[t] = thread[t]
      BY <1>0, <1>5, CallTypes DEF UserRestarts, Places, Called, Goals
  <2>2. \A t \in Threads : Follows(t)
      BY <2>1 DEF Follows
  <2> QED BY <1>5, <2>2 DEF UserRestarts, Called, Calm
<1>6. ASSUME NEW c \in Callers, StopFails(c)
      PROVE  Calm
    BY <1>0, <1>6, EndsTypes DEF StopFails, Calm, Follows, Places
<1>7. ASSUME NEW c \in Callers, StopFindsNothing(c)
      PROVE  Calm
    BY <1>0, <1>7, ResumesTypes DEF StopFindsNothing, Calm, Follows, Places
<1>8. ASSUME NEW c \in Callers, StopFindsIdle(c)
      PROVE  Calm
    BY <1>0, <1>8, ResumesTypes DEF StopFindsIdle, Calm, Follows, Places
<1>9. ASSUME NEW c \in Callers, StopReturns(c)
      PROVE  Calm
    BY <1>0, <1>9, ResumesTypes DEF StopReturns, Calm, Follows, Places
<1>10. ASSUME NEW c \in Callers, SeenOffline(c)
      PROVE  Calm
    BY <1>0, <1>10, BecomesTypes DEF SeenOffline, Calm, Follows, Places
<1>11. ASSUME NEW c \in Callers, DeleteServer(c)
      PROVE  Calm
    BY <1>0, <1>11, EndsTypes DEF DeleteServer, Calm, Follows, Places
<1>12. ASSUME NEW c \in Callers, WaitTimesOut(c)
      PROVE  Calm
    BY <1>0, <1>12, EndsTypes DEF WaitTimesOut, Calm, Follows, Places
<1>13. ASSUME NEW c \in Callers, RegisterHook(c)
      PROVE  Calm
  <2>1. /\ thread'[c].pc \notin {"launched", "cleared"}
        /\ \A t \in Threads : t # c => thread'[t] = thread[t]
      BY <1>0, <1>13, CallTypes DEF RegisterHook, Places, Called, Goals
  <2>2. \A t \in Threads : Follows(t)
      BY <2>1 DEF Follows
  <2> QED BY <1>13, <2>2 DEF RegisterHook, Called, Calm
<1>14. ASSUME NEW e \in Executions, CooldownEnds(e)
      PROVE  Calm
    BY <1>0, <1>14, BecomesTypes, EndsTypes DEF CooldownEnds, Calm, Follows, Places
<1>15. ASSUME PostInstall
      PROVE  Calm
    BY <1>0, <1>15, BecomesTypes, EndsTypes DEF PostInstall, Calm, Follows, Places
<1>16. ASSUME IntentExpires
      PROVE  Calm
    BY <1>0, <1>16 DEF IntentExpires, Calm, Follows
<1>17. ASSUME NEW c \in Callers, UserStops(c)
      PROVE  Marks
  <2>1. /\ thread'[c].pc \notin {"launched", "cleared"}
        /\ \A t \in Threads : t # c => thread'[t] = thread[t]
      BY <1>0, <1>17, CallTypes DEF UserStops, Places, Called, Goals
  <2>2. \A t \in Threads : Follows(t)
      BY <2>1 DEF Follows
  <2> QED BY <1>17, <2>2 DEF UserStops, Called, Marks
<1>18. ASSUME NEW c \in Callers, StopForRestart(c)
      PROVE  Marks
    BY <1>0, <1>18, BecomesTypes DEF StopForRestart, Marks, Follows, Places
<1>19. ASSUME NEW t \in Threads, Launch(t)
      PROVE  Opened
    BY <1>0, <1>19 DEF Launch, Opened, Follows, ThreadTyped
<1>20. ASSUME NEW t \in Threads, LaunchUnanswered(t)
      PROVE  Opened
    BY <1>0, <1>20, EndsTypes DEF LaunchUnanswered, Opened, Follows, Places
<1>21. ASSUME NEW c \in Callers, LaunchInstaller(c)
      PROVE  Opened
    BY <1>0, <1>21, EndsTypes DEF LaunchInstaller, Opened, Follows, Places
<1>22. ASSUME IgnoreExit
      PROVE  Decided
    BY <1>0, <1>22 DEF IgnoreExit, Decided, Follows, Answers
<1>23. ASSUME GiveUp
      PROVE  Decided
    BY <1>0, <1>23 DEF GiveUp, Decided, Follows, Answers
<1>24. ASSUME ScheduleRestart
      PROVE  Decided
    BY <1>0, <1>24 DEF ScheduleRestart, Decided, Follows, Answers, Delay, ThreadTyped
<1> QED
    BY <1>1, <1>2, <1>3, <1>4, <1>5, <1>6, <1>7, <1>8, <1>9, <1>10, <1>11, <1>12, <1>13, <1>14,
        <1>15, <1>16, <1>17, <1>18, <1>19, <1>20, <1>21, <1>22, <1>23, <1>24 DEF Next,
        StartStep, CallStep, Effect

-----------------------------------------------------------------------------
(* Every exit is answered once and in order.                                 *)

(* The parts of the state the order speaks of.                               *)
OrderKept ==
    /\ UNCHANGED <<execution, bus, deciding>>
    /\ \A e \in Executions :
           /\ run'[e].alive = run[e].alive /\ run'[e].kind = run[e].kind
           /\ Answered(e)' <=> Answered(e)

(* A step that leaves those alone keeps the order.                           *)
LEMMA OrderIsFramed ==
    ASSUME TypeOK, OrderInv, OrderKept
    PROVE  OrderInv'
<1>1. \A i \in 1 .. Len(bus) : bus[i].execution \in Executions
    BY DEF OrderInv, QueueInv, Over
<1>2. \A e \in Executions : Over(e)' <=> Over(e)
    BY DEF OrderKept, Over
<1>3. RunInv'
    BY DEF OrderInv, RunInv, OrderKept
<1>4. QueueInv'
    BY <1>1, <1>2 DEF OrderInv, QueueInv, OrderKept
<1>5. DecidingInv'
    BY <1>2 DEF OrderInv, DecidingInv, OrderKept, Over
<1>6. AnswerInv'
    BY <1>2 DEF OrderInv, AnswerInv, OrderKept
<1> QED BY <1>3, <1>4, <1>5, <1>6 DEF OrderInv

(* What comes before an exit that is to be answered has been answered.       *)
LEMMA EarlierAreAnswered ==
    ASSUME TypeOK, OrderInv, NEW e \in Executions,
           \/ e = deciding
           \/ deciding = 0 /\ bus # <<>> /\ e = bus[1].execution
    PROVE  /\ \A f \in Executions : f < e => Answered(f)
           /\ \A f \in Executions : Answered(f) => f < e
           /\ Over(e) /\ ~Answered(e)
<1> USE ThreadKinds
<1>0. NodeTyped /\ execution \in Nat
    BY TypeParts, AutoRestartAssumption DEF Typed, NodeTyped
<1>1. Over(e) /\ ~Answered(e)
    BY <1>0, TakenFromBus DEF OrderInv, DecidingInv, QueueInv
<1>2. ASSUME NEW i \in 1 .. Len(bus)
      PROVE  e <= bus[i].execution /\ bus[i].execution \in Executions
  <2>1. bus[i].execution \in Executions /\ bus[i].execution \in Nat /\ e \in Nat /\ e # 0
      BY DEF OrderInv, QueueInv, Over
  <2>2. CASE e = deciding
      BY <2>1, <2>2 DEF OrderInv, DecidingInv
  <2>3. CASE bus # <<>> /\ e = bus[1].execution
    <3>1. 1 \in 1 .. Len(bus) /\ (i = 1 \/ 1 < i)
        BY <1>0, <2>3, TakenFromBus
    <3> QED BY <2>1, <2>3, <3>1 DEF OrderInv, QueueInv
  <2> QED BY <2>2, <2>3
<1>3. ASSUME NEW f \in Executions, f < e
      PROVE  Answered(f)
  <2>1. Over(f)
      BY <1>0, <1>1, <1>3 DEF OrderInv, RunInv, Over
  <2>2. f # deciding
      BY <1>3
  <2> QED BY <1>2, <1>3, <2>1, <2>2 DEF OrderInv, AnswerInv
<1>4. ASSUME NEW f \in Executions, Answered(f)
      PROVE  f < e
    BY <1>1, <1>4 DEF OrderInv, AnswerInv
<1> QED BY <1>1, <1>3, <1>4

(* The order when the next exit is answered, or is being decided from now on. *)
LEMMA AnswersKeepOrder ==
    ASSUME TypeOK, OrderInv, UNCHANGED <<execution, run>>,
           NEW e \in Executions, NEW verdict \in Verdicts \ {"none"},
           answer' = [answer EXCEPT ![e] = verdict], deciding' = 0,
           \/ e = deciding /\ bus' = bus
           \/ deciding = 0 /\ bus # <<>> /\ e = bus[1].execution /\ bus' = Tail(bus)
    PROVE  OrderInv'
<1> USE ThreadKinds
<1>0. NodeTyped /\ answer \in [Executions -> Verdicts]
    BY TypeParts DEF Typed, HistoryTyped
<1>1. /\ \A f \in Executions : f < e => Answered(f)
      /\ \A f \in Executions : Answered(f) => f < e
      /\ Over(e) /\ ~Answered(e)
    BY EarlierAreAnswered
<1>2. \A f \in Executions : (Over(f)' <=> Over(f)) /\ (Answered(f)' <=> Answered(f) \/ f = e)
    BY <1>0 DEF Over, Answered, Verdicts
<1>3. \A i \in 1 .. Len(bus') : \E j \in 1 .. Len(bus) : bus'[i] = bus[j] /\ bus[j].execution # e
  <2>1. CASE deciding = 0 /\ bus # <<>> /\ e = bus[1].execution /\ bus' = Tail(bus)
    <3>1. ASSUME NEW i \in 1 .. Len(bus')
          PROVE  /\ bus'[i] = bus[i + 1] /\ i + 1 \in 1 .. Len(bus)
                 /\ bus[1].execution < bus[i + 1].execution
        BY <1>0, <2>1, TakenFromBus DEF OrderInv, QueueInv
    <3>2. \A i \in 1 .. Len(bus) : bus[i].execution \in Executions
        BY DEF OrderInv, QueueInv, Over
    <3>3. 1 \in 1 .. Len(bus)
        BY <1>0, <2>1, TakenFromBus
    <3> QED BY <2>1, <3>1, <3>2, <3>3
  <2>2. CASE e = deciding /\ bus' = bus
      BY <2>2 DEF OrderInv, DecidingInv, QueueInv, Over
  <2> QED BY <2>1, <2>2
<1>4. RunInv'
    BY DEF OrderInv, RunInv
<1>5. QueueInv'
  <2>1. (\A i \in 1 .. Len(bus) : Over(bus[i].execution) /\ ~Answered(bus[i].execution))'
    <3>1. \A i \in 1 .. Len(bus) : Over(bus[i].execution) /\ ~Answered(bus[i].execution)
        BY DEF OrderInv, QueueInv
    <3>2. ASSUME NEW i \in 1 .. Len(bus')
          PROVE  (Over(bus[i].execution) /\ ~Answered(bus[i].execution))'
      <4>1. PICK j \in 1 .. Len(bus) : bus'[i] = bus[j] /\ bus[j].execution # e
          BY <1>3
      <4>2. PICK f \in Executions : f = bus[j].execution
          BY <3>1 DEF Over
      <4>3. Over(f) /\ ~Answered(f) /\ f # e
          BY <3>1, <4>1, <4>2
      <4>4. Over(f)' /\ ~Answered(f)'
          BY <1>2, <4>3
      <4>5. f = bus'[i].execution
          BY <4>1, <4>2
      <4> QED BY <4>4, <4>5 DEF Over, Answered
    <3> QED BY <3>2
  <2>2. \A i, j \in 1 .. Len(bus') : i < j => bus'[i].execution < bus'[j].execution
    <3>1. CASE bus' = bus
        BY <3>1 DEF OrderInv, QueueInv
    <3>2. CASE bus # <<>> /\ bus' = Tail(bus)
        BY <1>0, <3>2, TakenFromBus DEF OrderInv, QueueInv
    <3> QED BY <3>1, <3>2
  <2> QED BY <2>1, <2>2 DEF QueueInv
<1>6. DecidingInv'
    BY DEF DecidingInv
<1>7. AnswerInv'
  <2>1. ASSUME NEW f \in Executions, Over(f)', ~Answered(f)'
        PROVE  \E i \in 1 .. Len(bus') : bus'[i].execution = f
    <3>1. Over(f) /\ ~Answered(f) /\ f # e
        BY <1>2, <2>1
    <3>2. CASE e = deciding /\ bus' = bus
        BY <3>1, <3>2 DEF OrderInv, AnswerInv
    <3>3. CASE deciding = 0 /\ bus # <<>> /\ e = bus[1].execution /\ bus' = Tail(bus)
      <4>1. PICK i \in 1 .. Len(bus) : bus[i].execution = f
          BY <3>1, <3>3 DEF OrderInv, AnswerInv
      <4>2. i - 1 \in 1 .. Len(Tail(bus)) /\ Tail(bus)[i - 1] = bus[i]
          BY <1>0, <3>1, <3>3, <4>1, TakenFromBus
      <4> QED BY <3>3, <4>1, <4>2
    <3> QED BY <3>2, <3>3
  <2>2. \A f \in Executions : Answered(f)' => Over(f)'
      BY <1>1, <1>2 DEF OrderInv, AnswerInv
  <2>3. \A f, g \in Executions : Answered(f)' /\ g < f => Answered(g)'
      BY <1>1, <1>2 DEF OrderInv, AnswerInv
  <2> QED BY <2>1, <2>2, <2>3 DEF AnswerInv
<1> QED BY <1>4, <1>5, <1>6, <1>7 DEF OrderInv

(* The next exit is taken from the bus to be decided.                        *)
LEMMA TakingKeepsOrder ==
    ASSUME TypeOK, OrderInv, UNCHANGED <<execution, run, answer>>,
           deciding = 0, bus # <<>>, deciding' = bus[1].execution, bus' = Tail(bus)
    PROVE  OrderInv'
<1> USE ThreadKinds
<1>0. NodeTyped
    BY TypeParts DEF Typed
<1>1. PICK e \in Executions : e = bus[1].execution
    BY <1>0, TakenFromBus, EventTypes
<1>2. Over(e) /\ ~Answered(e)
    BY <1>1, EarlierAreAnswered
<1>3. \A f \in Executions : (Over(f)' <=> Over(f)) /\ (Answered(f)' <=> Answered(f))
    BY DEF Over, Answered
<1>4. RunInv'
    BY DEF OrderInv, RunInv
<1>5. ASSUME NEW i \in 1 .. Len(bus')
      PROVE  (/\ bus[i].execution \in Executions
              /\ Over(bus[i].execution) /\ ~Answered(bus[i].execution))'
  <2>1. i + 1 \in 1 .. Len(bus) /\ bus'[i] = bus[i + 1]
      BY <1>0, TakenFromBus
  <2>2. PICK f \in Executions : f = bus[i + 1].execution /\ Over(f) /\ ~Answered(f)
      BY <2>1 DEF OrderInv, QueueInv, Over
  <2>3. f = bus'[i].execution /\ Over(f)' /\ ~Answered(f)'
      BY <1>3, <2>1, <2>2
  <2> QED BY <2>3 DEF Over, Answered
<1>6. \A i, j \in 1 .. Len(bus') : i < j => bus'[i].execution < bus'[j].execution
    BY <1>0, TakenFromBus DEF OrderInv, QueueInv
<1>7. QueueInv'
    BY <1>5, <1>6 DEF QueueInv
<1>8. DecidingInv'
  <2>1. (Over(e) /\ ~Answered(e))' /\ deciding' = e
      BY <1>1, <1>2, <1>3
  <2>2. Over(deciding)' /\ ~Answered(deciding)'
      BY <2>1 DEF Over, Answered
  <2>3. \A i \in 1 .. Len(bus') : bus[1].execution < bus'[i].execution
      BY <1>0, TakenFromBus DEF OrderInv, QueueInv
  <2> QED BY <2>2, <2>3 DEF DecidingInv
<1>9. AnswerInv'
  <2>1. ASSUME NEW f \in Executions, Over(f), ~Answered(f), f # e
        PROVE  \E i \in 1 .. Len(bus') : bus'[i].execution = f
    <3>1. PICK i \in 1 .. Len(bus) : bus[i].execution = f
        BY <2>1 DEF OrderInv, AnswerInv
    <3>2. i - 1 \in 1 .. Len(Tail(bus)) /\ Tail(bus)[i - 1] = bus[i]
        BY <1>0, <1>1, <2>1, <3>1, TakenFromBus
    <3> QED BY <3>1, <3>2
  <2>2. \A f \in Executions : Answered(f)' => Over(f)'
      BY <1>3 DEF OrderInv, AnswerInv
  <2>3. \A f, g \in Executions : Answered(f)' /\ g < f => Answered(g)'
      BY <1>3 DEF OrderInv, AnswerInv
  <2> QED BY <1>1, <1>3, <2>1, <2>2, <2>3 DEF AnswerInv
<1> QED BY <1>4, <1>7, <1>8, <1>9 DEF OrderInv

(* The latest execution ends and its exit joins the queue.                   *)
LEMMA ExitsKeepOrder ==
    ASSUME TypeOK, OrderInv, ProcessExits
    PROVE  OrderInv'
<1> USE ThreadKinds DEF node, history
<1>0. NodeTyped /\ execution \in Nat
    BY TypeParts, AutoRestartAssumption DEF Typed, NodeTyped
<1>1. execution \in Executions /\ ~Answered(execution) /\ ~Over(execution) /\ execution # deciding
    BY <1>0 DEF ProcessExits, Alive, Executions, OrderInv, AnswerInv, DecidingInv, Over,
        NodeTyped
<1>2. \A f \in Executions : Over(f)' <=> Over(f) \/ f = execution
    BY <1>0, <1>1 DEF ProcessExits, Over, NodeTyped, Runs
<1>3. /\ UNCHANGED <<execution, deciding, answer>>
      /\ \A f \in Executions : Answered(f)' <=> Answered(f)
    BY DEF ProcessExits, Answered
<1>4. /\ Len(bus) \in Nat /\ Len(bus') = Len(bus) + 1
      /\ bus'[Len(bus) + 1].execution = execution
      /\ \A i \in 1 .. Len(bus) : bus'[i] = bus[i]
    BY <1>0 DEF ProcessExits, NodeTyped
<1>5. ASSUME NEW i \in 1 .. Len(bus)
      PROVE  /\ bus[i].execution \in Executions /\ bus[i].execution < execution
             /\ Over(bus[i].execution) /\ ~Answered(bus[i].execution)
  <2>1. PICK f \in Executions : f = bus[i].execution /\ Over(f) /\ ~Answered(f)
      BY DEF OrderInv, QueueInv, Over
  <2>2. f \in Nat /\ f <= execution /\ f # execution
      BY <1>1, <2>1 DEF Over
  <2> QED BY <1>0, <2>1, <2>2
<1>6. RunInv'
    BY <1>0, <1>1, <1>3 DEF ProcessExits, OrderInv, RunInv, NodeTyped, Runs
<1>7. ASSUME NEW i \in 1 .. Len(bus')
      PROVE  (Over(bus[i].execution) /\ ~Answered(bus[i].execution))'
  <2>1. PICK f \in Executions : f = bus'[i].execution /\ (Over(f) \/ f = execution) /\ ~Answered(f)
    <3>1. CASE i = Len(bus) + 1
        BY <1>1, <1>4, <3>1
    <3>2. CASE i # Len(bus) + 1
      <4>1. i \in 1 .. Len(bus)
          BY <1>4, <3>2
      <4> QED BY <1>4, <1>5, <4>1
    <3> QED BY <3>1, <3>2
  <2>2. Over(f)' /\ ~Answered(f)'
      BY <1>2, <1>3, <2>1
  <2> QED BY <2>1, <2>2 DEF Over, Answered
<1>8. \A i, j \in 1 .. Len(bus') : i < j => bus'[i].execution < bus'[j].execution
  <2> SUFFICES ASSUME NEW i \in 1 .. Len(bus'), NEW j \in 1 .. Len(bus'), i < j
               PROVE  bus'[i].execution < bus'[j].execution
      OBVIOUS
  <2>1. i \in 1 .. Len(bus) /\ bus'[i] = bus[i]
      BY <1>4
  <2>2. CASE j = Len(bus) + 1
      BY <1>4, <1>5, <2>1, <2>2
  <2>3. CASE j # Len(bus) + 1
    <3>1. j \in 1 .. Len(bus) /\ bus'[j] = bus[j]
        BY <1>4, <2>3
    <3> QED BY <2>1, <3>1 DEF OrderInv, QueueInv
  <2> QED BY <2>2, <2>3
<1>9. QueueInv'
    BY <1>7, <1>8 DEF QueueInv
<1>10. DecidingInv'
  <2>1. ASSUME deciding # 0
        PROVE  Over(deciding)' /\ ~Answered(deciding)' /\ deciding < execution
    <3>1. PICK f \in Executions : f = deciding /\ Over(f) /\ ~Answered(f)
        BY <2>1 DEF OrderInv, DecidingInv, Over
    <3>2. Over(f)' /\ ~Answered(f)' /\ f = deciding'
        BY <1>2, <1>3, <3>1
    <3>3. deciding < execution
        BY <1>0, <1>1, <3>1 DEF Over
    <3> QED BY <1>3, <3>1, <3>2, <3>3 DEF Over, Answered
  <2>2. ASSUME deciding # 0, NEW i \in 1 .. Len(bus')
        PROVE  deciding < bus'[i].execution
      BY <1>4, <2>1, <2>2 DEF OrderInv, DecidingInv
  <2> QED BY <1>3, <2>1, <2>2 DEF DecidingInv
<1>11. AnswerInv'
  <2>1. ASSUME NEW f \in Executions, Over(f)', ~Answered(f)', f # deciding
        PROVE  \E i \in 1 .. Len(bus') : bus'[i].execution = f
    <3>1. CASE f = execution
        BY <1>4, <3>1
    <3>2. CASE f # execution
      <4>1. PICK i \in 1 .. Len(bus) : bus[i].execution = f
          BY <1>2, <1>3, <2>1, <3>2 DEF OrderInv, AnswerInv
      <4> QED BY <1>4, <4>1
    <3> QED BY <3>1, <3>2
  <2>2. \A f \in Executions : Answered(f)' => Over(f)'
      BY <1>2, <1>3 DEF OrderInv, AnswerInv
  <2>3. \A f, g \in Executions : Answered(f)' /\ g < f => Answered(g)'
      BY <1>3 DEF OrderInv, AnswerInv
  <2> QED BY <1>3, <2>1, <2>2, <2>3 DEF AnswerInv
<1> QED BY <1>6, <1>9, <1>10, <1>11 DEF OrderInv

(* A new execution begins.                                                   *)
LEMMA OpeningKeepsOrder ==
    ASSUME TypeOK, OrderInv, NEW kind \in {"game", "install"}, Opens(kind),
           UNCHANGED <<bus, deciding, answer>>
    PROVE  OrderInv'
<1> USE ThreadKinds
<1>0. NodeTyped /\ execution \in Nat
    BY TypeParts, AutoRestartAssumption DEF Typed, NodeTyped
<1>1. /\ execution + 1 \in Executions /\ execution' = execution + 1
      /\ run'[execution + 1].alive /\ run'[execution + 1].kind = kind
      /\ \A e \in Executions : e # execution + 1 => run'[e] = run[e]
    BY <1>0, OpensTypes
<1>2. \A e \in Executions : (Over(e)' <=> Over(e)) /\ (Answered(e)' <=> Answered(e))
    BY <1>0, <1>1 DEF Over, Answered
<1>3. \A i \in 1 .. Len(bus) : bus[i].execution \in Executions
    BY DEF OrderInv, QueueInv, Over
<1>4. RunInv'
  <2>1. execution # 0 => ~run[execution].alive
      BY DEF Opens, Alive
  <2>2. \A e \in Executions : e <= execution => ~run[e].alive
      BY <1>0, <2>1 DEF OrderInv, RunInv
  <2> QED BY <1>0, <1>1, <2>2 DEF OrderInv, RunInv
<1>5. QueueInv'
    BY <1>2, <1>3 DEF OrderInv, QueueInv
<1>6. DecidingInv'
  <2>1. ASSUME deciding # 0
        PROVE  Over(deciding)' /\ ~Answered(deciding)'
    <3>1. PICK f \in Executions : f = deciding /\ Over(f) /\ ~Answered(f)
        BY <2>1 DEF OrderInv, DecidingInv, Over
    <3>2. Over(f)' /\ ~Answered(f)' /\ f = deciding'
        BY <1>2, <3>1
    <3> QED BY <3>2 DEF Over, Answered
  <2> QED BY <2>1 DEF OrderInv, DecidingInv
<1>7. AnswerInv'
    BY <1>2 DEF OrderInv, AnswerInv
<1> QED BY <1>4, <1>5, <1>6, <1>7 DEF OrderInv

(* What HandleOffline does to the order.                                     *)
LEMMA HandledExits ==
    ASSUME TypeOK, OrderInv, HandleOffline
    PROVE  /\ bus # <<>> /\ deciding = 0 /\ bus' = Tail(bus) /\ bus[1] \in Events
           /\ \/ /\ Verdict(bus[1]) = "none" /\ deciding' = bus[1].execution /\ answer' = answer
              \/ /\ Verdict(bus[1]) \in {"asked", "skipped", "ignored"} /\ deciding' = 0
                 /\ answer' = [answer EXCEPT ![bus[1].execution] = Verdict(bus[1])]
           /\ marked' = (marked /\ Verdict(bus[1]) \notin {"asked", "skipped"})
           /\ disturbed' = disturbed \ {bus[1].execution}
           /\ \A t \in Threads : Follows(t)
           /\ UNCHANGED <<reports, execution, run, entry, settled>>
<1>0. NodeTyped /\ ThreadTyped /\ answer \in [Executions -> Verdicts]
    BY TypeParts DEF Typed, HistoryTyped
<1>1. bus # <<>> /\ Head(bus) = bus[1] /\ bus[1] \in Events /\ bus[1].execution \in Executions
    BY <1>0, TakenFromBus, EventTypes DEF HandleOffline
<1>2. answer[bus[1].execution] = "none"
    BY <1>1, EarlierAreAnswered DEF HandleOffline, Answered
<1>3. \A t \in Threads : Follows(t)
    BY <1>0, ThreadKinds DEF HandleOffline, Follows, ThreadTyped, ThreadRecords
<1>4. Verdict(bus[1]) \in {"none", "asked", "skipped", "ignored"}
    BY DEF Verdict
<1>5. Verdict(bus[1]) = "none" => answer' = answer
    BY <1>0, <1>1, <1>2 DEF HandleOffline
<1> QED BY <1>1, <1>3, <1>4, <1>5 DEF HandleOffline, entry

(* Every step keeps the order.                                               *)
LEMMA OrderIsKept ==
    ASSUME TypeOK, OrderInv, ThreadInv, Effect
    PROVE  OrderInv'
<1> USE ThreadKinds DEF node, registers, entry, history
<1>0. NodeTyped /\ HistoryTyped
    BY TypeParts DEF Typed
<1>1. ASSUME Calm \/ Marks
      PROVE  OrderInv'
  <2>1. OrderKept
      BY <1>1 DEF Calm, Marks, OrderKept, Answered
  <2> QED BY <2>1, OrderIsFramed
<1>2. ASSUME NEW t \in Threads, StartBlocked(t) \/ RecordStarted(t)
      PROVE  OrderInv'
  <2>1. OrderKept
      BY <1>0, <1>2 DEF StartBlocked, RecordStarted, OrderKept, Answered, ThreadInv, Restarted,
                        HistoryTyped
  <2> QED BY <2>1, OrderIsFramed
<1>3. ASSUME NEW c \in Callers, StopReaches(c)
      PROVE  OrderInv'
  <2>1. OrderKept
      BY <1>0, <1>3 DEF StopReaches, OrderKept, Answered, NodeTyped, Runs
  <2> QED BY <2>1, OrderIsFramed
<1>4. ASSUME StableWindowPasses
      PROVE  OrderInv'
  <2>1. OrderKept
      BY <1>0, <1>4 DEF StableWindowPasses, OrderKept, Answered, NodeTyped, Runs
  <2> QED BY <2>1, OrderIsFramed
<1>5. CASE Opened
    BY <1>5, OpeningKeepsOrder DEF Opened
<1>6. CASE ProcessExits
    BY <1>6, ExitsKeepOrder
<1>7. CASE HandleOffline
  <2>1. bus[1].execution \in Executions
      BY <1>7, HandledExits, EventTypes
  <2>2. CASE deciding' # 0
      BY <1>7, <2>2, HandledExits, TakingKeepsOrder
  <2>3. CASE deciding' = 0
      BY <1>7, <2>1, <2>3, HandledExits, AnswersKeepOrder DEF Verdicts
  <2> QED BY <2>2, <2>3
<1>8. CASE Decided
  <2>1. PICK verdict \in {"ignored", "limit", "restart"} : Answers(verdict)
      BY <1>8 DEF Decided
  <2>2. deciding \in Executions
      BY <1>8 DEF Decided, OrderInv, DecidingInv, Over
  <2>3. verdict \in Verdicts \ {"none"}
      BY DEF Verdicts
  <2> QED BY <1>8, <2>1, <2>2, <2>3, AnswersKeepOrder DEF Decided, Answers
<1> QED BY <1>1, <1>2, <1>3, <1>4, <1>5, <1>6, <1>7, <1>8 DEF Effect

-----------------------------------------------------------------------------
(* A stop that was asked for is not answered with a restart.                 *)

(* The parts of the state the reports speak of.                              *)
ReportKept ==
    /\ UNCHANGED <<reports, bus, deciding>>
    /\ \A e \in Executions : Over(e) => run'[e].asked = run[e].asked
    /\ \A e \in Executions : Restarted(e)' <=> Restarted(e)

(* A step that leaves those alone keeps ReportInv.                           *)
LEMMA ReportIsFramed ==
    ASSUME OrderInv, ReportInv, ReportKept
    PROVE  ReportInv'
<1>1. \A i \in 1 .. Len(bus) : bus[i].execution \in Executions /\ Over(bus[i].execution)
    BY DEF OrderInv, QueueInv, Over
<1>2. deciding # 0 => deciding \in Executions /\ Over(deciding)
    BY DEF OrderInv, DecidingInv, Over
<1>3. \A e \in Executions : Restarted(e) => Over(e)
    BY DEF OrderInv, AnswerInv, Answered, Restarted
<1> QED BY <1>1, <1>2, <1>3 DEF ReportInv, ReportKept

(* Every step keeps ReportInv.                                               *)
LEMMA ReportIsKept ==
    ASSUME TypeOK, OrderInv, ThreadInv, ReportInv, Effect
    PROVE  ReportInv'
<1> USE ThreadKinds DEF node, registers, entry, history
<1>0. NodeTyped /\ HistoryTyped /\ execution \in Nat
    BY TypeParts, AutoRestartAssumption DEF Typed, NodeTyped
<1>1. CASE Calm \/ Marks
  <2>1. ReportKept
      BY <1>1 DEF Calm, Marks, ReportKept, Restarted
  <2> QED BY <2>1, ReportIsFramed
<1>2. ASSUME NEW t \in Threads, StartBlocked(t) \/ RecordStarted(t)
      PROVE  ReportInv'
  <2>1. ReportKept
      BY <1>0, <1>2 DEF StartBlocked, RecordStarted, ReportKept, Restarted, ThreadInv,
          HistoryTyped
  <2> QED BY <2>1, ReportIsFramed
<1>3. ASSUME NEW c \in Callers, StopReaches(c)
      PROVE  ReportInv'
  <2>1. ReportKept
      BY <1>0, <1>3 DEF StopReaches, ReportKept, Restarted, NodeTyped, Runs, Over, Alive
  <2> QED BY <2>1, ReportIsFramed
<1>4. CASE StableWindowPasses
  <2>1. ReportKept
      BY <1>0, <1>4 DEF StableWindowPasses, ReportKept, Restarted, NodeTyped, Runs
  <2> QED BY <2>1, ReportIsFramed
<1>5. CASE Opened
  <2>1. PICK kind \in {"game", "install"} : Opens(kind)
      BY <1>5 DEF Opened
  <2>2. ReportKept
      BY <1>0, <1>5, <2>1, OpensTypes DEF Opened, ReportKept, Restarted, Over
  <2> QED BY <2>2, ReportIsFramed
<1>6. CASE ProcessExits
  <2>1. \A e \in Executions : run'[e].asked = run[e].asked
      BY <1>0, <1>6 DEF ProcessExits, NodeTyped, Runs
  <2>2. /\ Len(bus) \in Nat /\ Len(bus') = Len(bus) + 1
        /\ bus'[Len(bus) + 1].execution = execution
        /\ bus'[Len(bus) + 1].identified = reports
        /\ bus'[Len(bus) + 1].intentional = (reports /\ run[execution].asked)
        /\ \A i \in 1 .. Len(bus) : bus'[i] = bus[i]
      BY <1>0, <1>6 DEF ProcessExits, NodeTyped
  <2>3. execution \in Executions /\ run[execution].asked \in BOOLEAN
      BY <1>0, <1>6 DEF ProcessExits, Alive, Executions, NodeTyped, Runs
  <2>4. UNCHANGED <<reports, deciding, answer>>
      BY <1>6 DEF ProcessExits
  <2>5. ASSUME reports, NEW i \in 1 .. Len(bus')
        PROVE  bus'[i].identified /\ bus'[i].intentional = run'[bus'[i].execution].asked
    <3>1. CASE i = Len(bus) + 1
        BY <2>1, <2>2, <2>3, <2>5, <3>1
    <3>2. CASE i # Len(bus) + 1
      <4>1. i \in 1 .. Len(bus) /\ bus[i].execution \in Executions
          BY <2>2, <3>2 DEF OrderInv, QueueInv, Over
      <4>2. bus[i].identified /\ bus[i].intentional = run[bus[i].execution].asked
          BY <2>4, <2>5, <4>1 DEF ReportInv
      <4>3. bus'[i] = bus[i]
          BY <2>2, <4>1
      <4> QED BY <2>1, <4>1, <4>2, <4>3
    <3> QED BY <3>1, <3>2
  <2>6. deciding # 0 => deciding \in Executions
      BY DEF OrderInv, DecidingInv, Over
  <2> QED BY <2>1, <2>4, <2>5, <2>6 DEF ReportInv, Restarted
<1>7. CASE HandleOffline
  <2>1. bus[1].execution \in Executions /\ 1 \in 1 .. Len(bus)
      BY <1>0, <1>7, HandledExits, EventTypes, TakenFromBus
  <2>2. ASSUME reports, NEW i \in 1 .. Len(bus')
        PROVE  bus'[i].identified /\ bus'[i].intentional = run'[bus'[i].execution].asked
    <3>1. i + 1 \in 1 .. Len(bus) /\ bus'[i] = bus[i + 1]
        BY <1>0, <1>7, HandledExits, TakenFromBus
    <3> QED BY <1>7, <2>2, <3>1, HandledExits DEF ReportInv
  <2>3. ASSUME reports, deciding' # 0
        PROVE  ~run'[deciding'].asked
      BY <1>7, <2>1, <2>3, HandledExits DEF ReportInv, Verdict
  <2>4. \A e \in Executions : Restarted(e)' => Restarted(e)
      BY <1>0, <1>7, HandledExits DEF Restarted, HistoryTyped
  <2> QED BY <1>7, <2>2, <2>3, <2>4, HandledExits DEF ReportInv
<1>8. CASE Decided
  <2>1. deciding \in Executions
      BY <1>8 DEF Decided, OrderInv, DecidingInv, Over
  <2>2. \A e \in Executions : Restarted(e)' => Restarted(e) \/ e = deciding
      BY <1>0, <1>8, <2>1 DEF Decided, Answers, Restarted, HistoryTyped
  <2> QED BY <1>8, <2>2 DEF ReportInv, Decided, Answers
<1> QED BY <1>1, <1>2, <1>3, <1>4, <1>5, <1>6, <1>7, <1>8 DEF Effect

(* The threads of executions are automatic restarts.                         *)
LEMMA ThreadsAreKept ==
    ASSUME TypeOK, OrderInv, ThreadInv, Effect
    PROVE  ThreadInv'
<1> USE ThreadKinds DEF node, registers, entry, history
<1>0. /\ NodeTyped /\ HistoryTyped /\ ThreadTyped /\ OperationTyped
      /\ execution \in Nat /\ execution + 1 \in Nat
    BY TypeParts, AutoRestartAssumption DEF Typed, NodeTyped
<1>1. CASE Calm \/ Marks
    BY <1>1 DEF Calm, Marks, Mark, ThreadInv, Follows, Restarted
<1>2. ASSUME NEW t \in Threads, StartBlocked(t) \/ RecordStarted(t)
      PROVE  ThreadInv'
  <2>1. \A s \in Threads : s # t => thread'[s] = thread[s]
      BY <1>0, <1>2, EndsTypes DEF StartBlocked, RecordStarted
  <2>2. thread'[t].pc \in {"idle", "done"} /\ thread[t].pc # "idle"
      BY <1>0, <1>2, EndsTypes DEF StartBlocked, RecordStarted
  <2>3. \A e \in Executions : Restarted(e)' <=> Restarted(e)
      BY <1>0, <1>2 DEF StartBlocked, RecordStarted, Restarted, ThreadInv, HistoryTyped
  <2>4. \A e \in settled' : e <= execution
      BY <1>2 DEF StartBlocked, RecordStarted, ThreadInv
  <2>5. execution' = execution
      BY <1>2 DEF StartBlocked, RecordStarted
  <2> QED BY <2>1, <2>2, <2>3, <2>4, <2>5 DEF ThreadInv
<1>3. ASSUME NEW c \in Callers, StopReaches(c)
      PROVE  ThreadInv'
  <2>1. \A t \in Threads : t # c => thread'[t] = thread[t]
      BY <1>0, <1>3, BecomesTypes DEF StopReaches, Places
  <2>2. thread'[c].pc = "stopping"
      BY <1>0, <1>3, BecomesTypes DEF StopReaches, Places
  <2> QED BY <1>3, <2>1, <2>2 DEF StopReaches, ThreadInv, Restarted
<1>4. CASE StableWindowPasses \/ ProcessExits
    BY <1>4 DEF StableWindowPasses, ProcessExits, ThreadInv, Restarted
<1>5. CASE Opened
  <2>1. PICK kind \in {"game", "install"} : Opens(kind)
      BY <1>5 DEF Opened
  <2>2. execution' = execution + 1 /\ execution + 1 \in Executions
      BY <1>0, <2>1, OpensTypes
  <2>3. \A e \in Executions : e <= execution => e <= execution + 1
      BY <1>0
  <2>4. \A e \in settled : e \in Executions
      BY <1>0 DEF HistoryTyped
  <2>5. \A e \in Executions : thread'[e].pc # "idle" => thread[e].pc # "idle"
      BY <1>5 DEF Opened, Follows
  <2>6. ASSUME NEW t \in Threads, thread'[t].pc \in {"launched", "cleared"}
        PROVE  thread'[t].launched \in Executions /\ thread'[t].launched <= execution'
    <3>1. CASE Follows(t)
        BY <2>2, <2>3, <2>6, <3>1 DEF Follows, ThreadInv
    <3>2. CASE thread'[t].launched = execution + 1
        BY <1>0, <2>2, <3>2
    <3> QED BY <1>5, <3>1, <3>2 DEF Opened
  <2> QED BY <1>5, <2>2, <2>3, <2>4, <2>5, <2>6 DEF Opened, ThreadInv, Restarted
<1>6. CASE HandleOffline
  <2>1. \A e \in Executions : Restarted(e) => Restarted(e)'
    <3>1. ~Answered(bus[1].execution) /\ bus[1].execution \in Executions
        BY <1>6, HandledExits, EventTypes, EarlierAreAnswered
    <3> QED BY <1>0, <1>6, <3>1, HandledExits DEF Restarted, HistoryTyped, Answered
  <2> QED BY <1>6, <2>1, HandledExits DEF ThreadInv, Follows
<1>7. CASE Decided
  <2>1. PICK verdict \in {"ignored", "limit", "restart"} :
            /\ Answers(verdict)
            /\ \A t \in Threads :
                   Follows(t) \/ (t = deciding /\ verdict = "restart" /\ thread'[t].pc = Delay)
      BY <1>7 DEF Decided
  <2>2. deciding \in Executions /\ ~Answered(deciding)
      BY <1>7 DEF Decided, OrderInv, DecidingInv, Over
  <2>3. \A e \in Executions : Restarted(e) \/ (e = deciding /\ verdict = "restart") => Restarted(e)'
      BY <1>0, <2>1, <2>2 DEF Answers, Restarted, Answered, HistoryTyped
  <2>4. \A e \in Executions : thread'[e].pc # "idle" => Restarted(e)'
      BY <2>1, <2>3 DEF ThreadInv, Follows
  <2>5. \A t \in Threads : thread'[t].pc \in {"launched", "cleared"} => Follows(t)
      BY <2>1 DEF Delay
  <2> QED BY <1>7, <2>4, <2>5 DEF Decided, ThreadInv, Follows
<1> QED BY <1>1, <1>2, <1>3, <1>4, <1>5, <1>6, <1>7 DEF Effect

-----------------------------------------------------------------------------
(* The register of stop intents.                                             *)

(* Every step keeps MarkInv.                                                 *)
LEMMA MarkIsKept ==
    ASSUME TypeOK, OrderInv, ThreadInv, MarkInv, Effect
    PROVE  MarkInv'
<1> USE ThreadKinds DEF node, registers, entry, history
<1>0. /\ NodeTyped /\ HistoryTyped /\ ThreadTyped /\ OperationTyped
      /\ execution \in Nat /\ execution + 1 \in Nat
    BY TypeParts, AutoRestartAssumption DEF Typed, NodeTyped
<1>1. CASE Calm
    BY <1>1 DEF Calm, MarkInv, Clearing, Follows, Answered
<1>2. CASE Marks
    BY <1>0, <1>2 DEF Marks, Mark, MarkInv, Answered, OrderInv, RunInv
<1>3. ASSUME NEW t \in Threads, StartBlocked(t) \/ RecordStarted(t)
      PROVE  MarkInv'
  <2>1. /\ \A s \in Threads : s # t => thread'[s] = thread[s]
        /\ thread'[t].pc \in {"idle", "done"}
      BY <1>0, <1>3, EndsTypes DEF StartBlocked, RecordStarted
  <2>2. \A e \in Executions : Clearing(e)' => Clearing(e)
      BY <2>1 DEF Clearing
  <2>3. \A e \in Executions : e \in settled' => e \in settled \/ Clearing(e)
      BY <1>3 DEF StartBlocked, RecordStarted, Clearing
  <2>4. \A e \in Executions : Answered(e)' <=> Answered(e)
      BY <1>0, <1>3 DEF StartBlocked, RecordStarted, Answered, Restarted, ThreadInv,
          HistoryTyped
  <2>5. UNCHANGED <<execution, marked, disturbed>>
      BY <1>3 DEF StartBlocked, RecordStarted
  <2> QED BY <2>2, <2>3, <2>4, <2>5 DEF MarkInv
<1>4. ASSUME NEW c \in Callers, StopReaches(c)
      PROVE  MarkInv'
  <2>1. /\ \A t \in Threads : t # c => thread'[t] = thread[t]
        /\ thread'[c].pc = "stopping"
      BY <1>0, <1>4, BecomesTypes DEF StopReaches, Places
  <2>2. \A e \in Executions : Clearing(e)' => Clearing(e)
      BY <2>1 DEF Clearing
  <2> QED BY <1>4, <2>2 DEF StopReaches, MarkInv, Answered
<1>5. CASE StableWindowPasses \/ ProcessExits
    BY <1>5 DEF StableWindowPasses, ProcessExits, MarkInv, Answered, Clearing
<1>6. CASE Opened
  <2>1. PICK kind \in {"game", "install"} : Opens(kind)
      BY <1>6 DEF Opened
  <2>2. execution' = execution + 1
      BY <1>0, <2>1, OpensTypes
  <2>3. marked' => \A e \in Executions : Clearing(e)' => Clearing(e)
      BY <1>6 DEF Opened, Clearing, Follows
  <2>4. \A e \in Executions : e \in settled \/ Clearing(e) => e <= execution
      BY DEF ThreadInv, Clearing
  <2> QED BY <1>6, <2>3, <2>4 DEF Opened, MarkInv, Answered
<1>7. CASE HandleOffline
  <2>1. marked => Verdict(bus[1]) \in {"asked", "skipped"}
      BY DEF Verdict
  <2> QED BY <1>7, <2>1, HandledExits DEF MarkInv
<1>8. CASE Decided
  <2>1. PICK verdict \in {"ignored", "limit", "restart"} :
            /\ Answers(verdict)
            /\ \A t \in Threads :
                   Follows(t) \/ (t = deciding /\ verdict = "restart" /\ thread'[t].pc = Delay)
      BY <1>8 DEF Decided
  <2>2. marked' => \A e \in Executions : Clearing(e)' => Clearing(e)
      BY <2>1 DEF Clearing, Follows, Delay
  <2>3. deciding \in Executions /\ ~Answered(deciding)
      BY <1>8 DEF Decided, OrderInv, DecidingInv, Over
  <2>4. \A e \in Executions : Answered(e) => Answered(e)'
      BY <1>0, <2>1, <2>3 DEF Answers, Answered, HistoryTyped
  <2> QED BY <1>8, <2>2, <2>4 DEF Decided, MarkInv
<1> QED BY <1>1, <1>2, <1>3, <1>4, <1>5, <1>6, <1>7, <1>8 DEF Effect

-----------------------------------------------------------------------------
(* The counter of restarts.                                                  *)

(* Whether an exit that has been answered reset the counter is settled.      *)
BrokenStays == \A e \in Executions : Answered(e) => Answered(e)' /\ (Broken(e)' <=> Broken(e))

(* Only handleServerExit and a blocked start touch the counter.              *)
LEMMA EffectsOnTheCounter ==
    ASSUME TypeOK, OrderInv, ThreadInv, Effect
    PROVE  /\ BrokenStays
           /\ \/ Decided
              \/ /\ \A e \in Executions : Restarted(e)' <=> Restarted(e)
                 /\ \/ attempts' = attempts
                       /\ \A e \in Executions : answer'[e] = "blocked" <=> answer[e] = "blocked"
                    \/ attempts' = MaxRetries
<1> USE ThreadKinds DEF node, registers, entry, history
<1>0. /\ NodeTyped /\ HistoryTyped /\ execution \in Nat
    BY TypeParts, AutoRestartAssumption DEF Typed, NodeTyped
<1>1. CASE Calm \/ Marks
    BY <1>1 DEF Calm, Marks, Mark, BrokenStays, Broken, Answered, Restarted
<1>2. ASSUME NEW t \in Threads, StartBlocked(t)
      PROVE  /\ BrokenStays
             /\ attempts' = MaxRetries \/ (attempts' = attempts /\ answer' = answer)
             /\ \A e \in Executions : Restarted(e)' <=> Restarted(e)
  <2>1. t \in Executions => Restarted(t)
      BY <1>2 DEF StartBlocked, ThreadInv
  <2>2. attempts' = MaxRetries \/ (t \notin Executions /\ attempts' = attempts /\ answer' = answer)
      BY <1>2 DEF StartBlocked
  <2>3. \A e \in Executions : (Answered(e)' <=> Answered(e)) /\ (Restarted(e)' <=> Restarted(e))
      BY <1>0, <1>2, <2>1 DEF StartBlocked, Answered, Restarted, HistoryTyped
  <2>4. UNCHANGED <<run, settled>>
      BY <1>2 DEF StartBlocked
  <2>5. BrokenStays
      BY <2>3, <2>4 DEF BrokenStays, Broken
  <2> QED BY <2>2, <2>3, <2>5
<1>3. ASSUME NEW t \in Threads, RecordStarted(t)
      PROVE  BrokenStays /\ answer' = answer /\ attempts' = attempts
    BY <1>3 DEF RecordStarted, BrokenStays, Broken, Answered
<1>4. ASSUME NEW c \in Callers, StopReaches(c)
      PROVE  BrokenStays /\ answer' = answer /\ attempts' = attempts
    BY <1>0, <1>4 DEF StopReaches, BrokenStays, Broken, Answered, NodeTyped, Runs
<1>5. ASSUME StableWindowPasses \/ ProcessExits
      PROVE  BrokenStays /\ answer' = answer /\ attempts' = attempts
  <2>1. \A e \in Executions : Answered(e) => ~run[e].alive
      BY DEF OrderInv, AnswerInv, Over
  <2>2. \A e \in Executions : ~run[e].alive => run'[e].stable = run[e].stable
      BY <1>0, <1>5 DEF StableWindowPasses, ProcessExits, NodeTyped, Runs, Alive
  <2>3. answer' = answer /\ attempts' = attempts /\ settled' = settled
      BY <1>5 DEF StableWindowPasses, ProcessExits
  <2> QED BY <2>1, <2>2, <2>3 DEF BrokenStays, Broken, Answered
<1>6. ASSUME Opened
      PROVE  BrokenStays /\ answer' = answer /\ attempts' = attempts
  <2>1. PICK kind \in {"game", "install"} : Opens(kind)
      BY <1>6 DEF Opened
  <2>2. \A e \in Executions : Answered(e) => run'[e] = run[e]
      BY <1>0, <2>1, OpensTypes DEF OrderInv, AnswerInv, Over
  <2> QED BY <1>6, <2>2 DEF Opened, BrokenStays, Broken, Answered
<1>7. ASSUME HandleOffline
      PROVE  /\ BrokenStays /\ attempts' = attempts
             /\ \A e \in Executions : answer'[e] = "blocked" <=> answer[e] = "blocked"
             /\ \A e \in Executions : Restarted(e)' <=> Restarted(e)
  <2>1. bus[1].execution \in Executions /\ answer[bus[1].execution] = "none"
      BY <1>7, HandledExits, EventTypes, EarlierAreAnswered DEF Answered
  <2> QED
      BY <1>0, <1>7, <2>1, HandledExits DEF BrokenStays, Broken, Answered, Restarted,
          HistoryTyped
<1>8. ASSUME Decided
      PROVE  BrokenStays
  <2>1. deciding \in Executions /\ ~Answered(deciding)
      BY <1>8 DEF Decided, OrderInv, DecidingInv, Over
  <2> QED BY <1>0, <1>8, <2>1 DEF Decided, Answers, BrokenStays, Broken, Answered, HistoryTyped
<1> QED BY <1>1, <1>2, <1>3, <1>4, <1>5, <1>6, <1>7, <1>8 DEF Effect, Calm, Marks, Restarted

(* Every step keeps StableInv.                                               *)
LEMMA StableIsKept ==
    ASSUME TypeOK, OrderInv, ThreadInv, StableInv, Effect
    PROVE  StableInv'
<1> USE ThreadKinds DEF node, registers, entry, history
<1>0. NodeTyped /\ HistoryTyped /\ execution \in Nat
    BY TypeParts, AutoRestartAssumption DEF Typed, NodeTyped
<1>1. CASE Calm \/ Marks
    BY <1>1 DEF Calm, Marks, Mark, StableInv, Broken, Answered
<1>2. ASSUME NEW t \in Threads, StartBlocked(t) \/ RecordStarted(t)
      PROVE  StableInv'
    BY <1>0, <1>2 DEF StartBlocked, RecordStarted, StableInv, Broken, Answered, ThreadInv,
        Restarted,
                      HistoryTyped
<1>3. ASSUME NEW c \in Callers, StopReaches(c)
      PROVE  StableInv'
    BY <1>0, <1>3 DEF StopReaches, StableInv, Broken, Answered, NodeTyped, Runs
<1>4. CASE ProcessExits
    BY <1>0, <1>4 DEF ProcessExits, StableInv, Broken, Answered, NodeTyped, Runs
<1>5. CASE StableWindowPasses
  <2>1. ASSUME NEW e \in Executions, e \in settled, ~Answered(e)
        PROVE  run'[e].stable
    <3>1. ~Over(e)
        BY <1>0, <1>5, <2>1 DEF StableWindowPasses, OrderInv, AnswerInv
    <3>2. e <= execution /\ run[e].alive
        BY <2>1, <3>1 DEF ThreadInv, Over
    <3>3. e = execution
        BY <1>0, <3>2 DEF OrderInv, RunInv
    <3> QED BY <1>0, <1>5, <3>2, <3>3 DEF StableWindowPasses, Alive, NodeTyped, Runs
  <2> QED BY <1>5, <2>1 DEF StableWindowPasses, StableInv, Broken, Answered
<1>6. CASE Opened
  <2>1. PICK kind \in {"game", "install"} : Opens(kind)
      BY <1>6 DEF Opened
  <2>2. \A e \in Executions : e \in settled => run'[e] = run[e]
      BY <1>0, <2>1, OpensTypes DEF ThreadInv
  <2> QED BY <1>6, <2>2 DEF Opened, StableInv, Broken, Answered
<1>7. CASE HandleOffline
  <2>1. \A e \in Executions : Answered(e) => Answered(e)'
      BY EffectsOnTheCounter DEF BrokenStays
  <2> QED BY <1>7, <2>1, HandledExits DEF StableInv, Broken
<1>8. CASE Decided
  <2>1. \A e \in Executions : Answered(e) => Answered(e)'
      BY EffectsOnTheCounter DEF BrokenStays
  <2> QED BY <1>8, <2>1 DEF Decided, StableInv, Broken
<1> QED BY <1>1, <1>2, <1>3, <1>4, <1>5, <1>6, <1>7, <1>8 DEF Effect

(* What a decision does to the counter.                                      *)
LEMMA DecisionsCount ==
    ASSUME TypeOK, OrderInv, StableInv, Decided
    PROVE  /\ deciding \in Executions /\ ~Answered(deciding)
           /\ \A e \in Executions : Answered(e) => e < deciding
           /\ \A e \in Executions : e # deciding => answer'[e] = answer[e]
           /\ answer'[deciding] \in {"ignored", "limit", "restart"}
           /\ \A e \in Executions : Broken(e)' <=> Broken(e)
           /\ answer'[deciding] = "ignored" => attempts' = attempts
           /\ answer'[deciding] = "limit" =>
                  attempts' = attempts \/ (attempts' = 0 /\ Broken(deciding))
           /\ answer'[deciding] = "restart" =>
                  \/ attempts < MaxRetries /\ attempts' = attempts + 1
                  \/ attempts' = 1 /\ MaxRetries > 0 /\ Broken(deciding)
<1> USE ThreadKinds
<1>0. HistoryTyped /\ EntryTyped
    BY TypeParts DEF Typed
<1>1. deciding \in Executions
    BY DEF Decided, OrderInv, DecidingInv, Over
<1>2. ~Answered(deciding) /\ \A e \in Executions : Answered(e) => e < deciding
    BY <1>1, EarlierAreAnswered
<1>3. PICK verdict \in {"ignored", "limit", "restart"} :
          /\ Answers(verdict)
          /\ verdict = "ignored" => attempts' = attempts
          /\ verdict = "limit" => attempts' = Used
          /\ verdict = "restart" => Used < MaxRetries /\ attempts' = Used + 1
    BY DEF Decided
<1>4. answer'[deciding] = verdict /\ \A e \in Executions : e # deciding => answer'[e] = answer[e]
    BY <1>0, <1>1, <1>3 DEF Answers, HistoryTyped
<1>5. Used = attempts \/ (Used = 0 /\ Broken(deciding))
    BY <1>1, <1>2 DEF Used, StableInv
<1>6. \A e \in Executions : Broken(e)' <=> Broken(e)
    BY DEF Decided, Broken, node
<1> QED BY <1>1, <1>2, <1>3, <1>4, <1>5, <1>6 DEF Answered

(* Every step keeps BlockedInv.                                              *)
LEMMA BlockedIsKept ==
    ASSUME TypeOK, OrderInv, ThreadInv, StableInv, BlockedInv, Effect
    PROVE  BlockedInv'
<1>0. BrokenStays
    BY EffectsOnTheCounter
<1>1. CASE Decided
  <2>0. attempts \in Nat /\ MaxRetries \in Nat
      BY TypeParts, AutoRestartAssumption DEF Typed, EntryTyped
  <2>1. ASSUME NEW e \in Executions, answer'[e] = "blocked", attempts' # MaxRetries
        PROVE  \E g \in Executions : e < g /\ Answered(g)' /\ Broken(g)'
    <3>1. answer[e] = "blocked" /\ e < deciding
        BY <1>1, <2>1, DecisionsCount DEF Answered
    <3>2. CASE \E g \in Executions : e < g /\ Answered(g) /\ Broken(g)
        BY <1>0, <3>2 DEF BrokenStays
    <3>3. CASE attempts = MaxRetries
      <4>1. PICK d \in Executions : d = deciding
          BY <1>1, DecisionsCount
      <4>2. Broken(d)
          BY <1>1, <2>0, <2>1, <3>3, <4>1, DecisionsCount
      <4>3. Broken(d)' /\ Answered(d)'
          BY <1>1, <4>1, <4>2, DecisionsCount DEF Answered
      <4> QED BY <3>1, <4>1, <4>3
    <3> QED BY <3>1, <3>2, <3>3 DEF BlockedInv
  <2> QED BY <2>1 DEF BlockedInv
<1>2. CASE ~Decided
    BY <1>0, <1>2, EffectsOnTheCounter DEF BlockedInv, BrokenStays
<1> QED BY <1>1, <1>2

(* The series of restarts in terms of the exits that reset the counter.      *)
LEMMA SeriesAre ==
    ASSUME NEW last \in Executions \cup {0}, NEW e \in Executions
    PROVE  e \in Series(last) <=>
               /\ last < e /\ Restarted(e)
               /\ \A g \in Executions : last < g /\ g <= e => ~Broken(g)
<1>1. \A g : g \in last + 1 .. e <=> g \in Executions /\ last < g /\ g <= e
    BY AutoRestartAssumption DEF Executions
<1> QED BY <1>1, AutoRestartAssumption DEF Series, Broken, Executions

(* The same of the next state.                                               *)
LEMMA SeriesWillBe ==
    ASSUME NEW last \in Executions \cup {0}, NEW e \in Executions
    PROVE  e \in Series(last)' <=>
               /\ last < e /\ Restarted(e)'
               /\ \A g \in Executions : last < g /\ g <= e => ~Broken(g)'
<1>1. \A g : g \in last + 1 .. e <=> g \in Executions /\ last < g /\ g <= e
    BY AutoRestartAssumption DEF Executions
<1> QED BY <1>1, AutoRestartAssumption DEF Series, Broken, Executions

(* A series has a length.                                                    *)
LEMMA SeriesAreFinite ==
    ASSUME NEW last \in Executions \cup {0}
    PROVE  IsFiniteSet(Series(last)) /\ Cardinality(Series(last)) \in Nat
<1>1. IsFiniteSet(Executions)
    BY FS_Interval, AutoRestartAssumption DEF Executions
<1>2. Series(last) \subseteq Executions
    BY DEF Series
<1>3. IsFiniteSet(Series(last))
    BY <1>1, <1>2, FS_Subset
<1> QED BY <1>3, FS_CardinalityType

(* A series that no restart joins stays as it is.                            *)
LEMMA SeriesStays ==
    ASSUME OrderInv, BrokenStays, NEW last \in Executions \cup {0},
           \A e \in Executions :
               last < e /\ (\A g \in Executions : last < g /\ g <= e => ~Broken(g)') =>
                   (Restarted(e)' <=> Restarted(e)),
           \A e \in Executions : Restarted(e) => Restarted(e)'
    PROVE  Series(last)' = Series(last)
<1> USE ThreadKinds
<1>1. ASSUME NEW e \in Executions, Restarted(e)
      PROVE  \A g \in Executions : g <= e => (Broken(g)' <=> Broken(g))
  <2>1. \A g \in Executions : g <= e => Answered(g)
      BY <1>1 DEF OrderInv, AnswerInv, Answered, Restarted
  <2> QED BY <2>1 DEF BrokenStays
<1>2. \A e \in Executions : e \in Series(last)' <=> e \in Series(last)
    BY <1>1, SeriesAre, SeriesWillBe
<1>3. Series(last) \subseteq Executions /\ Series(last)' \subseteq Executions
    BY DEF Series
<1> QED BY <1>2, <1>3

(* Every step keeps CountInv.                                                *)
LEMMA CountIsKept ==
    ASSUME TypeOK, TypeOK', OrderInv, ThreadInv, StableInv, CountInv, Effect
    PROVE  CountInv'
<1> USE ThreadKinds
<1>0. /\ attempts \in Nat /\ attempts' \in Nat /\ MaxRetries \in Nat
      /\ attempts <= MaxRetries /\ attempts' <= MaxRetries
    BY TypeParts, AutoRestartAssumption DEF TypeOK
<1>1. BrokenStays
    BY EffectsOnTheCounter
<1> SUFFICES ASSUME NEW last \in Executions \cup {0}
             PROVE  (/\ Cardinality(Series(last)) <= MaxRetries
                     /\ Unbroken(last) => Cardinality(Series(last)) <= attempts)'
    BY DEF CountInv
<1>2. /\ Cardinality(Series(last)) \in Nat
      /\ Cardinality(Series(last)) <= MaxRetries
      /\ Unbroken(last) => Cardinality(Series(last)) <= attempts
    BY SeriesAreFinite DEF CountInv
<1>3. Unbroken(last)' => Unbroken(last)
    BY <1>1 DEF Unbroken, BrokenStays
<1>4. ASSUME Series(last)' = Series(last), attempts <= attempts' \/ ~Unbroken(last)'
      PROVE  (/\ Cardinality(Series(last)) <= MaxRetries
              /\ Unbroken(last) => Cardinality(Series(last)) <= attempts)'
    BY <1>0, <1>2, <1>3, <1>4
<1>5. CASE ~Decided
  <2>1. \A e \in Executions : Restarted(e)' <=> Restarted(e)
      BY <1>5, EffectsOnTheCounter
  <2>2. attempts <= attempts'
      BY <1>0, <1>5, EffectsOnTheCounter
  <2> QED BY <1>1, <1>4, <2>1, <2>2, SeriesStays
<1>6. CASE Decided
  <2>1. PICK d \in Executions : d = deciding
      BY <1>6, DecisionsCount
  <2>2. /\ ~Answered(d) /\ Answered(d)'
        /\ \A e \in Executions : Answered(e) => e < d
        /\ \A e \in Executions : e # d => (Restarted(e)' <=> Restarted(e))
        /\ \A e \in Executions : Broken(e)' <=> Broken(e)
      BY <1>6, <2>1, DecisionsCount DEF Answered, Restarted
  <2>3. \A e \in Executions : Restarted(e) => Restarted(e)'
      BY <2>2 DEF Answered, Restarted
  <2>4. \A e \in Executions : Restarted(e)' => e <= d
      BY <2>2 DEF Answered, Restarted
  <2>5. CASE d <= last
    <3>1. \A e \in Executions : last < e => ~Restarted(e)' /\ ~Restarted(e)
        BY <2>2, <2>3, <2>4, <2>5
    <3>2. Series(last)' = {}
        BY <3>1 DEF Series
    <3>3. Cardinality(Series(last)') = 0
        BY <3>2, FS_EmptySet
    <3> QED BY <1>0, <3>3
  <2>6. CASE last < d /\ Broken(d)
    <3>1. Series(last)' = Series(last)
      <4>1. \A e \in Executions :
                last < e /\ (\A g \in Executions : last < g /\ g <= e => ~Broken(g)') => e # d
          BY <2>2, <2>6
      <4> QED BY <1>1, <2>2, <2>3, <4>1, SeriesStays
    <3>2. ~Unbroken(last)'
        BY <2>2, <2>6 DEF Unbroken
    <3> QED BY <1>4, <3>1, <3>2
  <2>7. CASE last < d /\ ~Broken(d) /\ ~(Restarted(d)' /\ Unbroken(last))
    <3>1. Series(last)' = Series(last)
      <4>1. CASE ~Restarted(d)'
          BY <1>1, <2>2, <2>3, <4>1, SeriesStays
      <4>2. CASE ~Unbroken(last)
        <5>1. PICK g \in Executions : last < g /\ Answered(g) /\ Broken(g)
            BY <4>2 DEF Unbroken
        <5>2. g <= d /\ Broken(g)'
            BY <2>2, <5>1
        <5>3. \A e \in Executions :
                  last < e /\ (\A f \in Executions : last < f /\ f <= e => ~Broken(f)') => e # d
            BY <5>1, <5>2
        <5> QED BY <1>1, <2>2, <2>3, <5>3, SeriesStays
      <4> QED BY <2>7, <4>1, <4>2
    <3>2. attempts <= attempts' \/ ~Unbroken(last)'
        BY <1>0, <1>3, <1>6, <2>1, <2>7, DecisionsCount DEF Restarted
    <3> QED BY <1>4, <3>1, <3>2
  <2>8. CASE last < d /\ ~Broken(d) /\ Restarted(d)' /\ Unbroken(last)
    <3>1. attempts' = attempts + 1
        BY <1>6, <2>1, <2>8, DecisionsCount DEF Restarted
    <3>2. Series(last)' \subseteq Series(last) \cup {d}
      <4>1. \A e \in Executions : e \in Series(last)' /\ e # d => e \in Series(last)
          BY <2>2, SeriesAre, SeriesWillBe
      <4> QED BY <4>1 DEF Series
    <3>3. Cardinality(Series(last)') <= Cardinality(Series(last)) + 1
      <4>1. IsFiniteSet(Series(last))
          BY SeriesAreFinite
      <4>2. /\ IsFiniteSet(Series(last) \cup {d})
            /\ Cardinality(Series(last) \cup {d}) <= Cardinality(Series(last)) + 1
            /\ Cardinality(Series(last) \cup {d}) \in Nat
        <5>1. /\ IsFiniteSet(Series(last) \cup {d})
              /\ Cardinality(Series(last) \cup {d}) \in
                     {Cardinality(Series(last)), Cardinality(Series(last)) + 1}
            BY <4>1, FS_AddElement
        <5> QED BY <1>2, <5>1
      <4>3. Cardinality(Series(last)') <= Cardinality(Series(last) \cup {d})
          BY <3>2, <4>2, FS_Subset
      <4>4. Cardinality(Series(last)') \in Nat
          BY <3>2, <4>2, FS_Subset, FS_CardinalityType
      <4> QED BY <1>2, <4>2, <4>3, <4>4
    <3>4. Cardinality(Series(last)') \in Nat
      <4>1. IsFiniteSet(Series(last) \cup {d})
          BY SeriesAreFinite, FS_AddElement
      <4> QED BY <3>2, <4>1, FS_Subset, FS_CardinalityType
    <3> QED BY <1>0, <1>2, <2>8, <3>1, <3>3, <3>4
  <2> QED BY <2>5, <2>6, <2>7, <2>8
<1> QED BY <1>5, <1>6

-----------------------------------------------------------------------------
(* The theorems.                                                             *)

(* The invariant holds at first.                                             *)
LEMMA InitInv == Init => IInv
<1> SUFFICES ASSUME Init
             PROVE  IInv
    OBVIOUS
<1> USE ThreadKinds
<1>1. /\ 0 \in 0 .. MaxExecutions /\ 1 \in 0 .. MaxExecutions /\ 0 \in 0 .. MaxCalls
      /\ 0 \in 0 .. MaxRetries /\ 1 .. execution \subseteq Executions /\ execution \in Nat
      /\ \A e \in Executions : e \in 1 .. execution <=> e <= execution
    BY AutoRestartAssumption DEF Init, Executions
<1>2. TypeOK
  <2>1. [NoRun EXCEPT !.kind = "game", !.alive = TRUE] \in Runs /\ NoRun \in Runs
      BY DEF NoRun, Runs
  <2>2. NodeTyped
      BY <1>1, <2>1 DEF Init, NodeTyped
  <2>3. ThreadTyped /\ OperationTyped
      BY IdleTypes DEF Init, ThreadTyped, OperationTyped
  <2>4. EntryTyped /\ HistoryTyped /\ RestTyped
      BY <1>1 DEF Init, EntryTyped, HistoryTyped, RestTyped, Verdicts
  <2> QED BY <2>2, <2>3, <2>4, TypeParts DEF Typed
<1>3. \A e \in Executions : ~Answered(e) /\ ~Restarted(e)
    BY DEF Init, Answered, Restarted
<1>4. \A e \in Executions :
          IF e = execution THEN run[e].alive /\ run[e].kind = "game"
                           ELSE ~run[e].alive /\ run[e].kind = "none"
    BY DEF Init, NoRun
<1>5. bus = <<>> /\ Len(bus) = 0 /\ deciding = 0
    BY DEF Init
<1>6. OrderInv
  <2>1. RunInv
      BY <1>1, <1>4 DEF Init, RunInv
  <2>2. \A e \in Executions : ~Over(e)
      BY <1>1, <1>4 DEF Init, Over
  <2> QED BY <1>3, <1>5, <2>1, <2>2 DEF OrderInv, QueueInv, DecidingInv, AnswerInv
<1>7. ReportInv
    BY <1>3, <1>5 DEF ReportInv
<1>8. ThreadInv
    BY <1>1 DEF Init, ThreadInv, Idle
<1>9. MarkInv /\ StableInv /\ BlockedInv
    BY <1>3 DEF Init, MarkInv, StableInv, BlockedInv, Answered
<1>10. CountInv
  <2>1. \A last \in Executions \cup {0} : Series(last) = {}
      BY <1>3 DEF Series
  <2>2. attempts = 0 /\ MaxRetries \in Nat
      BY AutoRestartAssumption DEF Init
  <2> QED BY <2>1, <2>2, FS_EmptySet DEF CountInv
<1> QED BY <1>2, <1>6, <1>7, <1>8, <1>9, <1>10 DEF IInv

(* A step that changes nothing keeps it.                                     *)
LEMMA StutterInv == IInv /\ UNCHANGED vars => IInv'
<1> SUFFICES ASSUME IInv, UNCHANGED vars
             PROVE  IInv'
    OBVIOUS
<1> USE DEF vars, node, registers, entry, history
<1>1. TypeOK'
    BY DEF IInv, TypeOK
<1>2. OrderInv'
    BY DEF IInv, OrderInv, RunInv, QueueInv, DecidingInv, AnswerInv, Over, Answered
<1>3. ReportInv' /\ ThreadInv' /\ MarkInv'
    BY DEF IInv, ReportInv, ThreadInv, MarkInv, Restarted, Clearing, Answered
<1>4. StableInv' /\ BlockedInv'
    BY DEF IInv, StableInv, BlockedInv, Broken, Answered
<1>5. CountInv'
    BY DEF IInv, CountInv, Series, Unbroken, Restarted, Broken, Answered
<1> QED BY <1>1, <1>2, <1>3, <1>4, <1>5 DEF IInv

(* The inductive invariant holds in every state, for any callers, limits and *)
(* numbers of executions, whatever the node reports.                         *)
THEOREM Invariant == Spec => []IInv
<1>1. IInv /\ [Next]_vars => IInv'
  <2> SUFFICES ASSUME IInv, Next
               PROVE  IInv'
      BY StutterInv
  <2>1. TypeOK' /\ Effect
      BY TypesAreKept, StepsHaveEffects DEF IInv, OrderInv
  <2>2. OrderInv' /\ ReportInv' /\ ThreadInv' /\ MarkInv' /\ StableInv' /\ BlockedInv' /\ CountInv'
      BY <2>1, OrderIsKept, ReportIsKept, ThreadsAreKept, MarkIsKept, StableIsKept,
          BlockedIsKept,
         CountIsKept DEF IInv
  <2> QED BY <2>1, <2>2 DEF IInv
<1> QED BY InitInv, <1>1, PTL DEF Spec

(* Every variable keeps its type; the counter never passes the limit.        *)
THEOREM TypeCorrect == Spec => []TypeOK
<1>1. IInv => TypeOK
    BY DEF IInv
<1> QED BY Invariant, <1>1, PTL

(* onStatusChanged never answers the exit of an execution that somebody      *)
(* asked to stop with an automatic restart, when the node reports intents.   *)
THEOREM StopsAreRespected == Spec => []StoppedServersAreNotRestarted
<1>1. IInv => StoppedServersAreNotRestarted
    BY DEF IInv, ReportInv, StoppedServersAreNotRestarted
<1> QED BY Invariant, <1>1, PTL

(* handleServerExit keeps to MaxRetries from one reset of its counter to the *)
(* next.                                                                     *)
THEOREM RetriesEnd == Spec => []RetriesAreBounded
<1>1. IInv => RetriesAreBounded
    BY DEF IInv, CountInv, Series, RetriesAreBounded
<1> QED BY Invariant, <1>1, PTL

(* What the action properties say of a step.                                 *)
Seen == \A e \in settled : answer[e] = "none" /\ answer'[e] = "skipped" => e \in disturbed
OwnHook == reports /\ hooked /\ ~hooked' /\ bus' # bus => Head(bus).kind = "install"
NotRetried ==
    \A e, f \in Executions :
        /\ answer[e] = "blocked"
        /\ answer[f] = "none"
        /\ answer'[f] = "restart"
        => \E g \in e + 1 .. f : run[g].stable \/ g \notin settled

(* The register of intents explains an exit only by a stop call that was in  *)
(* flight during that execution.                                             *)
THEOREM CrashesAreSeen == Spec => CrashIsNotMistakenForStop
<1>1. IInv /\ [Next]_vars => [Seen]_vars
  <2> SUFFICES ASSUME IInv, Next
               PROVE  Seen
      BY DEF vars, Seen, node, history
  <2> USE ThreadKinds DEF node, registers, entry, history
  <2>0. Effect /\ HistoryTyped
      BY StepsHaveEffects, TypeParts DEF IInv, Typed
  <2> SUFFICES ASSUME NEW e \in settled, answer[e] = "none", answer'[e] = "skipped"
               PROVE  e \in disturbed
      BY DEF Seen
  <2>1. e \in Executions /\ ~Answered(e) /\ answer' # answer
      BY <2>0 DEF HistoryTyped, Answered
  <2>2. CASE HandleOffline
    <3>1. bus[1].execution = e /\ Verdict(bus[1]) = "skipped"
        BY <2>0, <2>1, <2>2, HandledExits, EventTypes DEF IInv, HistoryTyped
    <3>2. marked
        BY <3>1 DEF Verdict
    <3> QED BY <2>1, <3>2 DEF IInv, MarkInv, ThreadInv
  <2>3. CASE Decided
      BY <2>1, <2>3, DecisionsCount DEF IInv
  <2>4. CASE \E t \in Threads : StartBlocked(t)
      BY <2>0, <2>1, <2>4 DEF StartBlocked, HistoryTyped
  <2> QED
      BY <2>0, <2>1, <2>2, <2>3, <2>4 DEF Effect, Calm, Marks, Mark, Opened, RecordStarted,
          StopReaches, ProcessExits, StableWindowPasses
<1>2. [][Seen]_vars => CrashIsNotMistakenForStop
    BY PTL DEF Seen, CrashIsNotMistakenForStop
<1> QED BY Invariant, <1>1, <1>2, PTL DEF Spec

(* exitHookRegistry.take gives the hook of an installation to the exit of    *)
(* the installer only, when the node reports execution IDs.                  *)
THEOREM HooksAreTakenOnce == Spec => HookBelongsToTheInstaller
<1>1. IInv /\ [Next]_vars => [OwnHook]_vars
  <2> SUFFICES ASSUME IInv, Next
               PROVE  OwnHook
      BY DEF vars, OwnHook, node, registers
  <2>1. CASE HandleOffline
    <3>1. Head(bus) = bus[1] /\ 1 \in 1 .. Len(bus)
        BY <2>1, TypeParts, TakenFromBus DEF Typed, HandleOffline, IInv
    <3> QED BY <2>1, <3>1 DEF HandleOffline, HookFires, OwnHook, IInv, ReportInv
  <2>2. CASE ~HandleOffline
    <3>1. bus' = bus \/ hooked' = hooked \/ hooked'
        BY <2>2 DEF Next, StartStep, CallStep, node, registers, Load, StartBlocked,
            StartFails, Launch, LaunchUnanswered, ClearIntent, RecordStarted, UserStarts,
            UserStops, Mark, UserRestarts, StopForRestart, StopFails, StopFindsNothing,
            StopFindsIdle, StopReaches, StopReturns, SeenOffline, DeleteServer,
            WaitTimesOut, RegisterHook, LaunchInstaller, CooldownEnds, IgnoreExit, GiveUp,
            ScheduleRestart, PostInstall, ProcessExits, IntentExpires, StableWindowPasses
    <3> QED BY <3>1 DEF OwnHook
  <2> QED BY <2>1, <2>2
<1>2. [][OwnHook]_vars => HookBelongsToTheInstaller
    BY PTL DEF OwnHook, HookBelongsToTheInstaller
<1> QED BY Invariant, <1>1, <1>2, PTL DEF Spec

(* handleServerExit does not try again after a start that the configuration  *)
(* blocked, until its counter is reset.                                      *)
THEOREM BlockedStartsStayBlocked == Spec => BlockedStartsAreNotRetried
<1>1. IInv /\ [Next]_vars => [NotRetried]_vars
  <2> SUFFICES ASSUME IInv, Next
               PROVE  NotRetried
      BY DEF vars, NotRetried, history
  <2> SUFFICES ASSUME NEW e \in Executions, NEW f \in Executions,
                      answer[e] = "blocked", answer[f] = "none", answer'[f] = "restart"
               PROVE  \E g \in e + 1 .. f : run[g].stable \/ g \notin settled
      BY DEF NotRetried
  <2>1. Decided
      BY StepsHaveEffects, EffectsOnTheCounter DEF IInv, Restarted
  <2>2. f = deciding /\ e < f /\ \A g \in Executions : Answered(g) => g < f
      BY <2>1, DecisionsCount DEF IInv, Answered
  <2>3. \E g \in Executions : e < g /\ g <= f /\ Broken(g)
    <3>1. CASE \E g \in Executions : e < g /\ Answered(g) /\ Broken(g)
        BY <2>2, <3>1, ThreadKinds
    <3>2. CASE attempts = MaxRetries
      <4>1. attempts \in Nat
          BY TypeParts DEF IInv, Typed, EntryTyped
      <4>2. Broken(f)
          BY <2>1, <2>2, <3>2, <4>1, DecisionsCount DEF IInv
      <4> QED BY <2>2, <4>2, ThreadKinds
    <3> QED BY <3>1, <3>2 DEF IInv, BlockedInv
  <2> QED BY <2>3, AutoRestartAssumption DEF Executions, Broken
<1>2. [][NotRetried]_vars => BlockedStartsAreNotRetried
    BY PTL DEF NotRetried, BlockedStartsAreNotRetried
<1> QED BY Invariant, <1>1, <1>2, PTL DEF Spec

====
