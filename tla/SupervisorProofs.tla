---- MODULE SupervisorProofs ----
(*****************************************************************************)
(* Proofs about Supervisor for any number of callers and of executions.      *)
(*                                                                           *)
(* The invariant is inductive because it says who owns the command at every  *)
(* moment: a start call from the lookup to its return (the directory mutex), *)
(* the start call that prepares the execution (the instance mutex), and      *)
(* the goroutine of the current execution from spawn to finalizeExecution.   *)
(*****************************************************************************)
EXTENDS Supervisor, TLAPS

(* The places of a goroutine whose execution still owns the command, and     *)
(* those where its process may be alive.                                     *)
Owning == {"spawning", "announce", "announcing", "running", "reaped", "finalize"}
WithProcess == {"announce", "announcing", "running"}

(* Mutexes are held by the call they were handed to.                         *)
LockInv ==
    /\ \A s \in Starters :
         /\ starter[s] # "idle" => dirLock["server"] = s
         /\ starter[s] \in {"setup", "starting"} => instLock = s
    /\ \A p \in Stoppers :
         stopper[p].pc \in {"locked", "marked", "waiting"} => dirLock[stopper[p].dir] = p

(* What a start call may rely on where it is.                                *)
StarterInv ==
    \A s \in Starters :
        /\ starter[s] \in {"lookup", "found", "locked"} => cmd.generation < MaxExecutions
        /\ starter[s] \in {"setup", "starting"} => cmd.generation \in Executions
        /\ starter[s] = "setup" => run[cmd.generation].pc = "none" /\ cmd.status # "OFFLINE"

(* An execution whose goroutine has not finalized is the current one.        *)
OwnerInv ==
    \A g \in Executions :
        /\ run[g].pc \in Owning => /\ cmd.registered
                                   /\ cmd.generation = g
                                   /\ cmd.status # "OFFLINE"
                                   /\ cmd.attached = ~IsInternal(run[g].kind)
        /\ run[g].proc = "alive" => run[g].pc \in WithProcess /\ ~IsInternal(run[g].kind)

IInv == TypeOK /\ LockInv /\ StarterInv /\ OwnerInv

(* Every kind of start has a status, and it is not OFFLINE.                  *)
LEMMA StartStatusType ==
    ASSUME NEW kind \in AllKinds
    PROVE  StartStatus(kind) \in Statuses \ {"OFFLINE"}
BY DEF AllKinds, StartStatus, Statuses

(* The values the variables start from or are reset to are typed.           *)
LEMMA RecordTypes ==
    /\ Unregistered \in Commands
    /\ NoDraft \in Drafts
    /\ NoRun \in Runs
    /\ NoSnapshot \in Snapshots
<1>1. 0 \in 0 .. MaxExecutions
    BY SupervisorAssumption
<1>2. NoDraft \in Drafts
    BY <1>1 DEF NoDraft, Drafts, Statuses
<1>3. NoRun \in Runs
    BY <1>2 DEF NoRun, Runs, AllKinds, Statuses, Exited
<1>4. Unregistered \in Commands
    BY <1>1 DEF Unregistered, Commands, Directories, Statuses
<1>5. NoSnapshot \in Snapshots
    BY <1>1 DEF NoSnapshot, Snapshots, Statuses
<1> QED BY <1>2, <1>3, <1>4, <1>5

(* The initial state: nothing is registered and nobody holds a mutex.        *)
LEMMA InitIInv == Init => IInv
<1> SUFFICES ASSUME Init PROVE IInv
    OBVIOUS
<1>1. TypeOK
  <2>1. stopper \in [Stoppers -> StopCalls]
      BY SupervisorAssumption DEF Init, StopCalls, Directories
  <2>2. events \in Seq(Events)
      BY DEF Init
  <2> QED BY <2>1, <2>2, RecordTypes DEF Init, TypeOK
<1>2. LockInv /\ StarterInv
    BY DEF Init, LockInv, StarterInv
<1>3. OwnerInv
    BY DEF Init, OwnerInv, NoRun, Owning
<1> QED BY <1>1, <1>2, <1>3 DEF IInv

(* The executions' goroutines keep the record of their execution typed.      *)
LEMMA RunTypes ==
    ASSUME TypeOK, NEW g \in Executions, RunStep(g) \/ ReadyStep(g) \/ ProcessExits(g)
    PROVE  run' \in [Executions -> Runs]
<1>1. run[g] \in Runs /\ run \in [Executions -> Runs]
    BY DEF TypeOK
<1>2. /\ run[g].code \in Int
      /\ run[g].old \in Statuses
      /\ run[g].known \in BOOLEAN
      /\ run[g].kind \in AllKinds
    BY <1>1 DEF Runs
<1>3. cmd.status \in Statuses /\ cmd.generation \in 0 .. MaxExecutions /\ cmd.sequence \in Nat
    BY DEF TypeOK, Commands
<1>4. ASSUME NEW old \in Statuses, NEW new \in Statuses, NEW code \in Int, NEW known \in BOOLEAN
      PROVE  Draft(old, new, code, known) \in Drafts
    BY <1>3 DEF Draft, Drafts
<1>5. CASE SpawnSucceeds(g)
  <2>1. [run[g] EXCEPT !.pc = "announce", !.result = "ok",
                     !.proc = IF IsInternal(run[g].kind) THEN "none" ELSE "alive"] \in Runs
      BY <1>1 DEF Runs
  <2> QED BY <1>1, <1>5, <2>1 DEF SpawnSucceeds
<1>6. CASE AnnouncePublish(g)
  <2>1. [run[g] EXCEPT !.pc = "running", !.draft = NoDraft,
                     !.ready = IF run[g].kind = "readiness" THEN "waiting" ELSE @] \in Runs
    <3> DEFINE ready == IF run[g].kind = "readiness" THEN "waiting" ELSE run[g].ready
    <3>1. ready \in {"none", "waiting", "recording", "publishing", "done"}
        BY <1>1 DEF Runs
    <3> HIDE DEF ready
    <3>2. \A d \in Drafts : [run[g] EXCEPT !.pc = "running", !.draft = d, !.ready = ready] \in Runs
        BY <1>1, <3>1 DEF Runs
    <3>3. [run[g] EXCEPT !.pc = "running", !.draft = NoDraft, !.ready = ready] \in Runs
        BY <3>2, RecordTypes, Zenon
    <3> QED BY <3>3 DEF ready
  <2> QED BY <1>1, <1>6, <2>1 DEF AnnouncePublish
<1>7. CASE AnnounceNothing(g)
  <2>1. [run[g] EXCEPT !.pc = "running"] \in Runs
      BY <1>1 DEF Runs
  <2> QED BY <1>1, <1>7, <2>1 DEF AnnounceNothing
<1>8. CASE FinalizePublish(g)
  <2>1. [run[g] EXCEPT !.pc = "closing", !.draft = NoDraft] \in Runs
      BY <1>1, RecordTypes DEF Runs
  <2> QED BY <1>1, <1>8, <2>1 DEF FinalizePublish
<1>9. CASE FinalizeNothing(g)
  <2>1. [run[g] EXCEPT !.pc = "closing"] \in Runs
      BY <1>1 DEF Runs
  <2> QED BY <1>1, <1>9, <2>1 DEF FinalizeNothing
<1>10. CASE CloseExecution(g)
  <2>1. [run[g] EXCEPT !.pc = "done", !.closed = TRUE, !.cancelled = TRUE] \in Runs
      BY <1>1 DEF Runs
  <2> QED BY <1>1, <1>10, <2>1 DEF CloseExecution
<1>11. CASE ReadyPublish(g)
  <2>1. [run[g] EXCEPT !.ready = "done", !.draft = NoDraft] \in Runs
      BY <1>1, RecordTypes DEF Runs
  <2> QED BY <1>1, <1>11, <2>1 DEF ReadyPublish
<1>12. CASE AbandonReadiness(g)
  <2>1. [run[g] EXCEPT !.ready = "done"] \in Runs
      BY <1>1 DEF Runs
  <2> QED BY <1>1, <1>12, <2>1 DEF AbandonReadiness
<1>13. CASE AnnounceRecord(g)
  <2> DEFINE draft == Draft("OFFLINE", StartStatus(run[g].kind), 0, FALSE)
  <2>1. draft \in Drafts
    <3>1. "OFFLINE" \in Statuses /\ StartStatus(run[g].kind) \in Statuses
        BY <1>2, StartStatusType DEF Statuses
    <3>2. 0 \in Int /\ FALSE \in BOOLEAN
        OBVIOUS
    <3> QED BY <1>4, <3>1, <3>2, Zenon
  <2> HIDE DEF draft
  <2>2. [run[g] EXCEPT !.pc = "announcing", !.draft = draft] \in Runs
      BY <1>1, <2>1 DEF Runs
  <2> QED BY <1>1, <1>13, <2>2 DEF AnnounceRecord, draft
<1>14. CASE FinalizeRecord(g)
  <2> DEFINE draft == Draft(run[g].old, "OFFLINE", run[g].code, run[g].known)
  <2>1. draft \in Drafts
      BY <1>2, <1>4 DEF Statuses
  <2> HIDE DEF draft
  <2>2. [run[g] EXCEPT !.pc = "publishing", !.draft = draft] \in Runs
      BY <1>1, <2>1 DEF Runs
  <2> QED BY <1>1, <1>14, <2>2 DEF FinalizeRecord, draft
<1>15. CASE ReadyRecord(g)
  <2> DEFINE draft == Draft("PRE_START", "ONLINE", 0, FALSE)
  <2>1. draft \in Drafts
    <3>1. "PRE_START" \in Statuses /\ "ONLINE" \in Statuses
        BY DEF Statuses
    <3>2. 0 \in Int /\ FALSE \in BOOLEAN
        OBVIOUS
    <3> QED BY <1>4, <3>1, <3>2, Zenon
  <2> HIDE DEF draft
  <2>2. [run[g] EXCEPT !.ready = "publishing", !.draft = draft] \in Runs
      BY <1>1, <2>1 DEF Runs
  <2> QED BY <1>1, <1>15, <2>2 DEF ReadyRecord, draft
<1>16. CASE Reap(g)
  <2> DEFINE code == CASE run[g].proc = "clean"  -> 0
                       [] run[g].proc = "failed" -> 1
                       [] OTHER                  -> -1
             known == run[g].proc # "signaled" \/ ~cmd.intentional
  <2>1. code \in Int /\ known \in BOOLEAN
      OBVIOUS
  <2> HIDE DEF code, known
  <2>2. [run[g] EXCEPT !.pc = "reaped", !.cancelled = TRUE, !.code = code, !.known = known] \in Runs
      BY <1>1, <2>1 DEF Runs
  <2> QED BY <1>1, <1>16, <2>2 DEF Reap, code, known
<1>17. CASE Report(g)
  <2> DEFINE crash == IF /\ ~cmd.intentional
                         /\ run[g].code # 0
                         /\ cmd.status \in {"ONLINE", "PRE_START"}
                      THEN run[g].code ELSE 0
  <2>1. crash \in Int
      BY <1>2
  <2> HIDE DEF crash
  <2>2. [run[g] EXCEPT !.pc = "finalize", !.crash = crash] \in Runs
      BY <1>1, <2>1 DEF Runs
  <2> QED BY <1>1, <1>17, <2>2 DEF Report, crash
<1>18. CASE SpawnFails(g)
  <2> DEFINE code == 1
             known == TRUE
  <2>1. code \in Int /\ known \in BOOLEAN
      OBVIOUS
  <2> HIDE DEF code, known
  <2>2. [run[g] EXCEPT !.pc = "finalize", !.result = "error", !.code = code, !.known = known]
            \in Runs
      BY <1>1, <2>1 DEF Runs
  <2> QED BY <1>1, <1>18, <2>2 DEF SpawnFails, code, known
<1>19. CASE InternalEnds(g)
  <2>1. PICK code \in {0, 1} :
            run' = [run EXCEPT ![g].pc = "finalize", ![g].code = code, ![g].known = TRUE]
      BY <1>19 DEF InternalEnds
  <2> DEFINE known == TRUE
  <2>2. code \in Int /\ known \in BOOLEAN
      OBVIOUS
  <2> HIDE DEF known
  <2>3. [run[g] EXCEPT !.pc = "finalize", !.code = code, !.known = known] \in Runs
      BY <1>1, <2>2 DEF Runs
  <2> QED BY <1>1, <2>1, <2>3 DEF known
<1>20. CASE ProcessExits(g)
  <2>1. PICK outcome \in Exited : run' = [run EXCEPT ![g].proc = outcome]
      BY <1>20 DEF ProcessExits, Exited
  <2>2. [run[g] EXCEPT !.proc = outcome] \in Runs
      BY <1>1 DEF Runs
  <2> QED BY <1>1, <2>1, <2>2
<1>21. CASE FinalizeOffline(g)
  <2>1. [run[g] EXCEPT !.pc = "terminal", !.old = cmd.status] \in Runs
      BY <1>1, <1>3 DEF Runs
  <2>2. [run[g] EXCEPT !.pc = "done", !.cancelled = TRUE] \in Runs
      BY <1>1 DEF Runs
  <2> QED BY <1>1, <1>21, <2>1, <2>2 DEF FinalizeOffline
<1>22. CASE MarkReady(g)
  <2>1. [run[g] EXCEPT !.ready = "recording"] \in Runs
      BY <1>1 DEF Runs
  <2>2. [run[g] EXCEPT !.ready = "done"] \in Runs
      BY <1>1 DEF Runs
  <2> QED BY <1>1, <1>22, <2>1, <2>2 DEF MarkReady
<1> QED BY ONLY RunStep(g) \/ ReadyStep(g) \/ ProcessExits(g), <1>5, <1>6, <1>7, <1>8, <1>9,
       <1>10, <1>11, <1>12, <1>13, <1>14, <1>15, <1>16, <1>17, <1>18, <1>19, <1>20, <1>21,
       <1>22
       DEF RunStep, ReadyStep

(* What they write to the rest of the state is typed too.                    *)
LEMMA RunStepTypes ==
    ASSUME TypeOK, NEW g \in Executions, RunStep(g) \/ ReadyStep(g) \/ ProcessExits(g)
    PROVE  TypeOK'
<1>1. cmd \in Commands /\ run[g] \in Runs /\ run[g].draft \in Drafts
    BY DEF TypeOK, Runs
<1>2. run[g].code \in Int /\ run[g].old \in Statuses /\ run[g].known \in BOOLEAN
      /\ run[g].kind \in AllKinds
    BY <1>1 DEF Runs
<1>3. ASSUME NEW old \in Statuses, NEW new \in Statuses, NEW code \in Int, NEW known \in BOOLEAN,
             Record(old, new, code, known)
      PROVE  cmd' \in Commands
  <2> DEFINE sequence == cmd.sequence + 1
  <2>1. sequence \in Nat
      BY <1>1 DEF Commands
  <2> HIDE DEF sequence
  <2>2. [cmd EXCEPT !.previous = old, !.sequence = sequence, !.code = code, !.known = known]
          \in Commands
      BY <1>1, <2>1 DEF Commands
  <2> QED BY <1>1, <1>3, <2>2 DEF Record, sequence
<1>4. cmd' \in Commands
  <2>1. CASE AnnounceRecord(g)
    <3>1. "OFFLINE" \in Statuses /\ StartStatus(run[g].kind) \in Statuses
        BY <1>2, StartStatusType DEF Statuses
    <3>2. 0 \in Int /\ FALSE \in BOOLEAN
        OBVIOUS
    <3>3. Record("OFFLINE", StartStatus(run[g].kind), 0, FALSE)
        BY <2>1 DEF AnnounceRecord
    <3> QED BY <1>3, <3>1, <3>2, <3>3, Zenon
  <2>2. CASE FinalizeRecord(g)
      BY <1>2, <1>3, <2>2 DEF FinalizeRecord, Statuses
  <2>3. CASE ReadyRecord(g)
    <3>1. "PRE_START" \in Statuses /\ "ONLINE" \in Statuses
        BY DEF Statuses
    <3>2. 0 \in Int /\ FALSE \in BOOLEAN
        OBVIOUS
    <3>3. Record("PRE_START", "ONLINE", 0, FALSE)
        BY <2>3 DEF ReadyRecord
    <3> QED BY <1>3, <3>1, <3>2, <3>3, Zenon
  <2>4. CASE FinalizeOffline(g)
    <3>1. [cmd EXCEPT !.status = "OFFLINE", !.attached = FALSE] \in Commands
        BY <1>1 DEF Commands, Statuses
    <3> QED BY <1>1, <2>4, <3>1 DEF FinalizeOffline
  <2>5. CASE MarkReady(g)
    <3>1. [cmd EXCEPT !.status = "ONLINE"] \in Commands
        BY <1>1 DEF Commands, Statuses
    <3> QED BY <1>1, <2>5, <3>1 DEF MarkReady
  <2>6. CASE UNCHANGED cmd
      BY <1>1, <2>6
  <2> QED BY <2>1, <2>2, <2>3, <2>4, <2>5, <2>6
          DEF RunStep, ReadyStep, ProcessExits, SpawnSucceeds, SpawnFails, AnnouncePublish,
              AnnounceNothing, Reap, Report, InternalEnds, FinalizePublish, FinalizeNothing,
              CloseExecution, ReadyPublish, AbandonReadiness
<1>5. execLock' \in Starters \cup {Free} \cup ({"finalize", "ready"} \X Executions)
  <2>1. execLock' \in {execLock, Free, <<"finalize", g>>, <<"ready", g>>}
      BY DEF RunStep, ReadyStep, ProcessExits, SpawnSucceeds, SpawnFails, AnnounceRecord,
           AnnouncePublish, AnnounceNothing, Reap, Report, InternalEnds, FinalizeOffline,
           FinalizeRecord, FinalizePublish, FinalizeNothing, CloseExecution, MarkReady,
           ReadyRecord, ReadyPublish, AbandonReadiness, locks
  <2> QED BY <2>1 DEF TypeOK
<1>6. events' \in Seq(Events)
  <2>1. ASSUME Publish(g) PROVE events' \in Seq(Events)
    <3>1. cmd.intentional \in BOOLEAN
        BY <1>1 DEF Commands
    <3> QED BY <1>1, <2>1, <3>1 DEF Publish, Events, Drafts, TypeOK
  <2>2. ASSUME UNCHANGED seen PROVE events' \in Seq(Events)
      BY <2>2 DEF TypeOK, seen
  <2> QED BY <2>1, <2>2
          DEF RunStep, ReadyStep, ProcessExits, SpawnSucceeds, SpawnFails, AnnounceRecord,
              AnnouncePublish, AnnounceNothing, Reap, Report, InternalEnds, FinalizeOffline,
              FinalizeRecord, FinalizePublish, FinalizeNothing, CloseExecution, MarkReady,
              ReadyRecord, ReadyPublish, AbandonReadiness
<1>7. UNCHANGED <<instLock, dirLock, starter, stopper, snap, down>>
    BY DEF RunStep, ReadyStep, ProcessExits, SpawnSucceeds, SpawnFails, AnnounceRecord,
           AnnouncePublish, AnnounceNothing, Reap, Report, InternalEnds, FinalizeOffline,
           FinalizeRecord, FinalizePublish, FinalizeNothing, CloseExecution, MarkReady,
           ReadyRecord, ReadyPublish, AbandonReadiness, locks, callers, seen
<1> QED BY RunTypes, <1>4, <1>5, <1>6, <1>7 DEF TypeOK

(* The new execution of a start, and the fields it resets, are typed.        *)
LEMMA OpenExecutionTypes ==
    ASSUME TypeOK, cmd.generation < MaxExecutions, NEW kind \in Kinds, OpenExecution(kind)
    PROVE  cmd' \in Commands /\ run' \in [Executions -> Runs]
<1> DEFINE generation == cmd.generation + 1
           status == StartStatus(kind)
           zero == 0
<1>1. cmd \in Commands /\ run \in [Executions -> Runs] /\ kind \in AllKinds
    BY SupervisorAssumption DEF TypeOK
<1>2. generation \in 0 .. MaxExecutions /\ zero \in Nat /\ zero \in Int
    BY <1>1, SupervisorAssumption DEF Commands
<1>3. status \in Statuses /\ "UNKNOWN" \in Statuses /\ "server" \in Directories
    BY <1>1, StartStatusType DEF Statuses, Directories
<1> HIDE DEF generation, status, zero
<1>4. [cmd EXCEPT !.generation = generation, !.status = status, !.intentional = FALSE,
                  !.previous = "UNKNOWN", !.sequence = zero, !.code = zero, !.known = FALSE,
                  !.dir = "server"] \in Commands
    BY <1>1, <1>2, <1>3 DEF Commands
<1>5. [NoRun EXCEPT !.kind = kind] \in Runs
    BY <1>1, RecordTypes DEF Runs
<1> QED BY <1>1, <1>4, <1>5 DEF OpenExecution, generation, status, zero

(* Start calls.                                                              *)
LEMMA StartStepTypes ==
    ASSUME IInv, NEW s \in Starters, StartStep(s)
    PROVE  TypeOK'
<1>1. TypeOK /\ cmd \in Commands /\ run \in [Executions -> Runs]
    BY DEF IInv, TypeOK
<1>2. cmd' \in Commands /\ run' \in [Executions -> Runs]
  <2>1. CASE LookupNew(s) \/ PrepareKnown(s)
    <3>1. cmd.generation < MaxExecutions
        BY <2>1 DEF IInv, StarterInv, LookupNew, PrepareKnown
    <3>2. \E kind \in Kinds : OpenExecution(kind)
        BY <2>1 DEF LookupNew, PrepareKnown
    <3> QED BY <1>1, <3>1, <3>2, OpenExecutionTypes
  <2>2. CASE SetupFails(s)
    <3>1. [cmd EXCEPT !.status = "OFFLINE", !.attached = FALSE] \in Commands
        BY <1>1 DEF Commands, Statuses
    <3>2. ASSUME cmd.generation \in Executions
          PROVE  [run[cmd.generation] EXCEPT !.cancelled = TRUE] \in Runs
      <4>1. run[cmd.generation] \in Runs
          BY <1>1, <3>2
      <4> QED BY <4>1 DEF Runs
    <3> QED BY <1>1, <2>2, <3>1, <3>2, RecordTypes DEF SetupFails
  <2>3. CASE SetupSucceeds(s)
    <3> DEFINE attached == ~IsInternal(run[cmd.generation].kind)
    <3>1. attached \in BOOLEAN
        BY DEF IsInternal
    <3> HIDE DEF attached
    <3>2. [cmd EXCEPT !.registered = TRUE, !.attached = attached] \in Commands
        BY <1>1, <3>1 DEF Commands
    <3>3. ASSUME cmd.generation \in Executions
          PROVE  [run[cmd.generation] EXCEPT !.pc = "spawning"] \in Runs
      <4>1. run[cmd.generation] \in Runs
          BY <1>1, <3>3
      <4> QED BY <4>1 DEF Runs
    <3> QED BY <1>1, <2>3, <3>2, <3>3 DEF SetupSucceeds, attached
  <2>4. CASE UNCHANGED <<cmd, run>>
      BY <1>1, <2>4
  <2> QED BY <2>1, <2>2, <2>3, <2>4
          DEF StartStep, BeginStart, LookupKnown, LockExecution, RefuseStart, FinishStart
<1>3. /\ instLock' \in Starters \cup {Free}
      /\ execLock' \in Starters \cup {Free} \cup ({"finalize", "ready"} \X Executions)
  <2>1. instLock' \in {instLock, Free, s} /\ execLock' \in {execLock, Free, s}
      BY DEF StartStep, BeginStart, LookupNew, LookupKnown, LockExecution, RefuseStart,
             PrepareKnown, SetupFails, SetupSucceeds, FinishStart, ReleaseStart, locks
  <2> QED BY <1>1, <2>1 DEF TypeOK
<1>4. dirLock' \in [Directories -> Starters \cup Stoppers \cup {Free}]
  <2>1. \/ UNCHANGED dirLock
        \/ dirLock' = [dirLock EXCEPT !["server"] = Free]
        \/ dirLock' = [dirLock EXCEPT !["server"] = s]
      BY DEF StartStep, BeginStart, LookupNew, LookupKnown, LockExecution, RefuseStart,
             PrepareKnown, SetupFails, SetupSucceeds, FinishStart, ReleaseStart, locks
  <2> QED BY <1>1, <2>1 DEF TypeOK
<1>5. starter' \in [Starters -> {"idle", "lookup", "found", "locked", "setup", "starting"}]
  <2>1. \E pc \in {"idle", "lookup", "found", "locked", "setup", "starting"} :
            starter' = [starter EXCEPT ![s] = pc]
      BY DEF StartStep, BeginStart, LookupNew, LookupKnown, LockExecution, RefuseStart,
             PrepareKnown, SetupFails, SetupSucceeds, FinishStart, ReleaseStart
  <2> QED BY <1>1, <2>1 DEF TypeOK
<1>6. UNCHANGED <<stopper, events, snap, down>>
    BY DEF StartStep, BeginStart, LookupNew, LookupKnown, LockExecution, RefuseStart,
           PrepareKnown, SetupFails, SetupSucceeds, FinishStart, seen
<1> QED BY <1>1, <1>2, <1>3, <1>4, <1>5, <1>6 DEF TypeOK

(* Stop calls.                                                               *)
LEMMA StopStepTypes ==
    ASSUME TypeOK, NEW p \in Stoppers, StopStep(p)
    PROVE  TypeOK'
<1>1. cmd \in Commands /\ run \in [Executions -> Runs] /\ stopper \in [Stoppers -> StopCalls]
    BY DEF TypeOK
<1>2. cmd.dir \in Directories /\ cmd.generation \in 0 .. MaxExecutions
    BY <1>1 DEF Commands
<1>3. cmd' \in Commands
  <2>1. [cmd EXCEPT !.intentional = TRUE] \in Commands
      BY <1>1 DEF Commands
  <2> QED BY <1>1, <2>1
          DEF StopStep, BeginStop, LockStop, MarkIntentional, CaptureTarget, NothingToStop,
              StopFinished, StopTimesOut
<1>4. run' \in [Executions -> Runs]
  <2>1. ASSUME NEW g \in Executions
        PROVE  /\ [run[g] EXCEPT !.asked = TRUE] \in Runs
               /\ [run[g] EXCEPT !.cancelled = TRUE] \in Runs
    <3>1. run[g] \in Runs
        BY <1>1
    <3> QED BY <3>1 DEF Runs
  <2>2. CASE CaptureTarget(p)
      BY <1>1, <2>1, <2>2 DEF CaptureTarget
  <2>3. CASE StopTimesOut(p)
      BY <1>1, <2>1, <2>3 DEF StopTimesOut
  <2> QED BY <1>1, <2>2, <2>3
          DEF StopStep, BeginStop, LockStop, MarkIntentional, NothingToStop, StopFinished
<1>5. stopper' \in [Stoppers -> StopCalls]
  <2>1. stopper[p] \in StopCalls
      BY <1>1
  <2> DEFINE zero == 0
  <2>2. zero \in 0 .. MaxExecutions
      BY SupervisorAssumption
  <2> HIDE DEF zero
  <2>3. /\ [pc |-> "found", dir |-> cmd.dir, execution |-> zero] \in StopCalls
        /\ [pc |-> "idle", dir |-> "cwd", execution |-> zero] \in StopCalls
      BY <1>2, <2>2 DEF StopCalls, Directories
  <2>4. /\ [stopper[p] EXCEPT !.pc = "locked"] \in StopCalls
        /\ [stopper[p] EXCEPT !.pc = "marked"] \in StopCalls
        /\ [stopper[p] EXCEPT !.pc = "waiting", !.execution = cmd.generation] \in StopCalls
      BY <1>2, <2>1 DEF StopCalls
  <2> QED BY <1>1, <2>3, <2>4
          DEF StopStep, BeginStop, LockStop, MarkIntentional, CaptureTarget, NothingToStop,
              StopFinished, StopTimesOut, ReleaseStop, zero
<1>6. dirLock' \in [Directories -> Starters \cup Stoppers \cup {Free}]
  <2>1. \/ UNCHANGED dirLock
        \/ dirLock' = [dirLock EXCEPT ![stopper[p].dir] = Free]
        \/ dirLock' = [dirLock EXCEPT ![stopper[p].dir] = p]
      BY DEF StopStep, BeginStop, LockStop, MarkIntentional, CaptureTarget, NothingToStop,
             StopFinished, StopTimesOut, ReleaseStop, locks
  <2> QED BY <2>1 DEF TypeOK
<1>7. UNCHANGED <<instLock, execLock, starter, events, snap, down>>
    BY DEF StopStep, BeginStop, LockStop, MarkIntentional, CaptureTarget, NothingToStop,
           StopFinished, StopTimesOut, locks, seen
<1> QED BY <1>3, <1>4, <1>5, <1>6, <1>7 DEF TypeOK

(* Snapshot readers.                                                         *)
LEMMA ReadStepTypes ==
    ASSUME TypeOK, NEW r \in Readers,
           ReadLifecycle(r) \/ ReadStatus(r)
    PROVE  TypeOK'
<1>1. cmd \in Commands /\ snap \in [Readers -> Snapshots]
    BY DEF TypeOK
<1>2. snap' \in [Readers -> Snapshots]
  <2>1. CASE ReadLifecycle(r)
    <3>1. [f \in DOMAIN NoSnapshot |-> IF f = "status" THEN "unread" ELSE Lifecycle[f]]
            \in Snapshots
        BY <1>1 DEF Snapshots, Commands, Lifecycle, NoSnapshot
    <3> QED BY <1>1, <2>1, <3>1 DEF ReadLifecycle
  <2>2. CASE ReadStatus(r)
    <3>1. snap[r] \in Snapshots /\ cmd.status \in Statuses
        BY <1>1 DEF Commands
    <3>2. [snap[r] EXCEPT !.status = cmd.status] \in Snapshots
        BY <3>1 DEF Snapshots
    <3> QED BY <1>1, <2>2, <3>2 DEF ReadStatus
  <2> QED BY <2>1, <2>2
<1> QED BY <1>2 DEF TypeOK, ReadLifecycle, ReadStatus, locks, callers

(* An execution's goroutines.  Only finalizeExecution takes a status other   *)
(* than OFFLINE away, and only from the execution that still owns it.        *)
LEMMA RunStepInv ==
    ASSUME IInv, NEW g \in Executions, RunStep(g) \/ ReadyStep(g) \/ ProcessExits(g)
    PROVE  IInv'
<1>1. TypeOK'
    BY RunStepTypes DEF IInv
<1>2. LockInv'
  <2>1. UNCHANGED <<instLock, dirLock, starter, stopper>>
      BY DEF RunStep, ReadyStep, ProcessExits, SpawnSucceeds, SpawnFails, AnnounceRecord,
             AnnouncePublish, AnnounceNothing, Reap, Report, InternalEnds, FinalizeOffline,
             FinalizeRecord, FinalizePublish, FinalizeNothing, CloseExecution, MarkReady,
             ReadyRecord, ReadyPublish, AbandonReadiness, locks, callers
  <2> QED BY <2>1 DEF IInv, LockInv
<1>3. cmd \in Commands /\ run \in [Executions -> Runs]
    BY DEF IInv, TypeOK
<1>4. CASE SpawnSucceeds(g)
  <2>1. StarterInv'
      BY <1>4, <1>3
         DEF IInv, SpawnSucceeds, StarterInv, OwnerInv, LockInv, Owning, Commands, callers
  <2>2. OwnerInv'
      BY <1>4, <1>3
         DEF IInv, SpawnSucceeds, OwnerInv, Commands, Runs, Owning, WithProcess, IsInternal
  <2> QED BY <1>1, <1>2, <2>1, <2>2 DEF IInv
<1>5. CASE SpawnFails(g)
  <2>1. StarterInv'
      BY <1>5, <1>3
         DEF IInv, SpawnFails, StarterInv, OwnerInv, LockInv, Owning, Commands, callers
  <2>2. OwnerInv'
      BY <1>5, <1>3
         DEF IInv, SpawnFails, OwnerInv, Commands, Runs, Owning, WithProcess, IsInternal
  <2> QED BY <1>1, <1>2, <2>1, <2>2 DEF IInv
<1>6. CASE AnnounceRecord(g)
  <2>1. StarterInv'
      BY <1>6, <1>3
         DEF IInv, AnnounceRecord, Record, StarterInv, OwnerInv, LockInv, Owning, Commands,
             callers
  <2>2. OwnerInv'
      BY <1>6, <1>3
         DEF IInv, AnnounceRecord, Record, OwnerInv, Commands, Runs, Owning, WithProcess,
             IsInternal
  <2> QED BY <1>1, <1>2, <2>1, <2>2 DEF IInv
<1>7. CASE AnnouncePublish(g)
  <2>1. StarterInv'
      BY <1>7, <1>3
         DEF IInv, AnnouncePublish, StarterInv, OwnerInv, LockInv, Owning, Commands, callers
  <2>2. OwnerInv'
      BY <1>7, <1>3
         DEF IInv, AnnouncePublish, OwnerInv, Commands, Runs, Owning, WithProcess,
             IsInternal
  <2> QED BY <1>1, <1>2, <2>1, <2>2 DEF IInv
<1>8. CASE AnnounceNothing(g)
  <2>1. StarterInv'
      BY <1>8, <1>3
         DEF IInv, AnnounceNothing, StarterInv, OwnerInv, LockInv, Owning, Commands, callers
  <2>2. OwnerInv'
      BY <1>8, <1>3
         DEF IInv, AnnounceNothing, OwnerInv, Commands, Runs, Owning, WithProcess,
             IsInternal
  <2> QED BY <1>1, <1>2, <2>1, <2>2 DEF IInv
<1>9. CASE Reap(g)
  <2>1. StarterInv'
      BY <1>9, <1>3 DEF IInv, Reap, StarterInv, OwnerInv, LockInv, Owning, Commands, callers
  <2>2. OwnerInv'
    <3>1. /\ run'[g].pc = "reaped" /\ run'[g].proc = run[g].proc
          /\ run'[g].kind = run[g].kind /\ run[g].pc = "running" /\ run[g].proc # "alive"
          /\ \A e \in Executions : e # g => run'[e] = run[e]
        BY <1>9, <1>3 DEF Reap, Runs
    <3>2. UNCHANGED cmd
        BY <1>9 DEF Reap
    <3> QED BY <3>1, <3>2 DEF IInv, OwnerInv, Owning
  <2> QED BY <1>1, <1>2, <2>1, <2>2 DEF IInv
<1>10. CASE Report(g)
  <2>1. StarterInv'
      BY <1>10, <1>3 DEF IInv, Report, StarterInv, OwnerInv, LockInv, Owning, Commands, callers
  <2>2. OwnerInv'
      BY <1>10, <1>3
         DEF IInv, Report, OwnerInv, Commands, Runs, Owning, WithProcess, IsInternal
  <2> QED BY <1>1, <1>2, <2>1, <2>2 DEF IInv
<1>11. CASE InternalEnds(g)
  <2>1. StarterInv'
      BY <1>11, <1>3
         DEF IInv, InternalEnds, StarterInv, OwnerInv, LockInv, Owning, Commands, callers
  <2>2. OwnerInv'
      BY <1>11, <1>3
         DEF IInv, InternalEnds, OwnerInv, Commands, Runs, Owning, WithProcess, IsInternal
  <2> QED BY <1>1, <1>2, <2>1, <2>2 DEF IInv
<1>12. CASE FinalizeOffline(g)
  <2>1. StarterInv'
    <3>1. starter' = starter /\ cmd'.generation = cmd.generation /\ run[g].pc = "finalize"
        BY <1>12, <1>3 DEF FinalizeOffline, Commands, callers
    <3>2. \A s \in Starters : starter[s] = "setup" => cmd' = cmd
        BY <1>12 DEF IInv, StarterInv, FinalizeOffline
    <3>3. \A h \in Executions : run[h].pc = "none" => run'[h].pc = "none"
        BY <1>12, <1>3 DEF FinalizeOffline, Runs
    <3> QED BY <3>1, <3>2, <3>3 DEF IInv, StarterInv
  <2>2. OwnerInv'
      BY <1>12, <1>3
         DEF IInv, FinalizeOffline, OwnerInv, Commands, Runs, Owning, WithProcess,
             IsInternal
  <2> QED BY <1>1, <1>2, <2>1, <2>2 DEF IInv
<1>13. CASE FinalizeRecord(g)
  <2>1. StarterInv'
      BY <1>13, <1>3
         DEF IInv, FinalizeRecord, Record, StarterInv, OwnerInv, LockInv, Owning, Commands,
             callers
  <2>2. OwnerInv'
      BY <1>13, <1>3
         DEF IInv, FinalizeRecord, Record, OwnerInv, Commands, Runs, Owning, WithProcess,
             IsInternal
  <2> QED BY <1>1, <1>2, <2>1, <2>2 DEF IInv
<1>14. CASE FinalizePublish(g)
  <2>1. StarterInv'
      BY <1>14, <1>3
         DEF IInv, FinalizePublish, StarterInv, OwnerInv, LockInv, Owning, Commands, callers
  <2>2. OwnerInv'
      BY <1>14, <1>3
         DEF IInv, FinalizePublish, OwnerInv, Commands, Runs, Owning, WithProcess,
             IsInternal
  <2> QED BY <1>1, <1>2, <2>1, <2>2 DEF IInv
<1>15. CASE FinalizeNothing(g)
  <2>1. StarterInv'
      BY <1>15, <1>3
         DEF IInv, FinalizeNothing, StarterInv, OwnerInv, LockInv, Owning, Commands, callers
  <2>2. OwnerInv'
      BY <1>15, <1>3
         DEF IInv, FinalizeNothing, OwnerInv, Commands, Runs, Owning, WithProcess,
             IsInternal
  <2> QED BY <1>1, <1>2, <2>1, <2>2 DEF IInv
<1>16. CASE CloseExecution(g)
  <2>1. StarterInv'
      BY <1>16, <1>3
         DEF IInv, CloseExecution, StarterInv, OwnerInv, LockInv, Owning, Commands, callers
  <2>2. OwnerInv'
      BY <1>16, <1>3
         DEF IInv, CloseExecution, OwnerInv, Commands, Runs, Owning, WithProcess, IsInternal
  <2> QED BY <1>1, <1>2, <2>1, <2>2 DEF IInv
<1>17. CASE MarkReady(g)
  <2>1. /\ cmd'.generation = cmd.generation /\ cmd'.registered = cmd.registered
        /\ cmd'.attached = cmd.attached
        /\ cmd'.status = cmd.status \/ cmd'.status = "ONLINE"
      BY <1>17, <1>3 DEF MarkReady, Commands
  <2>2. /\ DOMAIN run' = Executions
        /\ \A e \in Executions : UNCHANGED <<run[e].pc, run[e].proc, run[e].kind>>
      BY <1>17, <1>3 DEF MarkReady, Runs
  <2>3. StarterInv'
      BY <1>17, <2>1, <2>2 DEF IInv, MarkReady, StarterInv, callers
  <2>4. OwnerInv'
      BY <2>1, <2>2 DEF IInv, OwnerInv, IsInternal
  <2> QED BY <1>1, <1>2, <2>3, <2>4 DEF IInv
<1>18. CASE ReadyRecord(g)
  <2>1. StarterInv'
      BY <1>18, <1>3
         DEF IInv, ReadyRecord, Record, StarterInv, OwnerInv, LockInv, Owning, Commands,
             callers
  <2>2. OwnerInv'
      BY <1>18, <1>3
         DEF IInv, ReadyRecord, Record, OwnerInv, Commands, Runs, Owning, WithProcess,
             IsInternal
  <2> QED BY <1>1, <1>2, <2>1, <2>2 DEF IInv
<1>19. CASE ReadyPublish(g)
  <2>1. StarterInv'
      BY <1>19, <1>3
         DEF IInv, ReadyPublish, StarterInv, OwnerInv, LockInv, Owning, Commands, callers
  <2>2. OwnerInv'
      BY <1>19, <1>3
         DEF IInv, ReadyPublish, OwnerInv, Commands, Runs, Owning, WithProcess, IsInternal
  <2> QED BY <1>1, <1>2, <2>1, <2>2 DEF IInv
<1>20. CASE AbandonReadiness(g)
  <2>1. StarterInv'
      BY <1>20, <1>3
         DEF IInv, AbandonReadiness, StarterInv, OwnerInv, LockInv, Owning, Commands,
             callers
  <2>2. OwnerInv'
      BY <1>20, <1>3
         DEF IInv, AbandonReadiness, OwnerInv, Commands, Runs, Owning, WithProcess,
             IsInternal
  <2> QED BY <1>1, <1>2, <2>1, <2>2 DEF IInv
<1>21. CASE ProcessExits(g)
  <2>1. StarterInv'
      BY <1>21, <1>3
         DEF IInv, ProcessExits, StarterInv, OwnerInv, LockInv, Owning, Commands, callers
  <2>2. OwnerInv'
      BY <1>21, <1>3
         DEF IInv, ProcessExits, OwnerInv, Commands, Runs, Owning, WithProcess, IsInternal
  <2> QED BY <1>1, <1>2, <2>1, <2>2 DEF IInv
<1> QED BY ONLY RunStep(g) \/ ReadyStep(g) \/ ProcessExits(g), <1>4, <1>5, <1>6, <1>7, <1>8,
       <1>9, <1>10, <1>11, <1>12, <1>13, <1>14, <1>15, <1>16, <1>17, <1>18, <1>19, <1>20,
       <1>21
       DEF RunStep, ReadyStep

(* What opening an execution does to the command and to the executions.      *)
LEMMA OpenExecutionEffect ==
    ASSUME TypeOK, cmd.generation < MaxExecutions, NEW kind \in Kinds, OpenExecution(kind)
    PROVE  /\ cmd'.generation \in Executions
           /\ cmd'.status # "OFFLINE"
           /\ run'[cmd'.generation].pc = "none"
           /\ run'[cmd'.generation].proc = "none"
           /\ \A e \in Executions : e # cmd'.generation => run'[e] = run[e]
<1>1. cmd \in Commands /\ run \in [Executions -> Runs] /\ kind \in AllKinds
    BY SupervisorAssumption DEF TypeOK
<1>2. cmd'.generation = cmd.generation + 1 /\ cmd'.generation \in Executions
    BY <1>1, SupervisorAssumption DEF OpenExecution, Commands, Executions
<1>3. cmd'.status # "OFFLINE"
    BY <1>1, StartStatusType DEF OpenExecution, Commands
<1>4. run' = [run EXCEPT ![cmd'.generation] = [NoRun EXCEPT !.kind = kind]]
    BY <1>2 DEF OpenExecution
<1> QED BY <1>1, <1>2, <1>3, <1>4 DEF NoRun

(* Start calls.  The directory mutex makes the caller the only one between   *)
(* lookup and return, and a command that is not busy has no execution left   *)
(* that owns it.                                                             *)
LEMMA StartStepInv ==
    ASSUME IInv, NEW s \in Starters, StartStep(s)
    PROVE  IInv'
<1>1. TypeOK'
    BY StartStepTypes
<1>2. cmd \in Commands /\ run \in [Executions -> Runs] /\ cmd' \in Commands
    BY <1>1 DEF IInv, TypeOK
<1>3. CASE BeginStart(s)
  <2>1. LockInv'
      BY <1>3, SupervisorAssumption
         DEF IInv, BeginStart, LockInv, TypeOK, StopCalls, Directories, locks, callers
  <2>2. StarterInv'
      BY <1>3, <1>2, SupervisorAssumption, StartStatusType
         DEF IInv, BeginStart, StarterInv, OwnerInv, LockInv, TypeOK, Commands, Executions,
             Owning,
             NoRun, locks, callers
  <2>3. UNCHANGED <<cmd, run>>
      BY <1>3 DEF BeginStart
  <2>4. OwnerInv'
      BY <2>3 DEF IInv, OwnerInv
  <2> QED BY <1>1, <2>1, <2>2, <2>4 DEF IInv
<1>4. CASE LookupNew(s)
  <2>1. LockInv'
      BY <1>4, SupervisorAssumption DEF IInv, LookupNew, LockInv, TypeOK, locks, callers
  <2>2. cmd.generation < MaxExecutions /\ TypeOK
      BY <1>4 DEF IInv, StarterInv, LookupNew
  <2>3. PICK kind \in Kinds : OpenExecution(kind)
      BY <1>4 DEF LookupNew
  <2>4. \A e \in Executions : run[e].pc \notin Owning /\ run[e].proc # "alive"
      BY <1>4 DEF IInv, OwnerInv, LookupNew, Owning, WithProcess
  <2>5. \A e \in Executions : run'[e].pc \notin Owning /\ run'[e].proc # "alive"
      BY <2>2, <2>3, <2>4, OpenExecutionEffect DEF Owning
  <2>6. \A t \in Starters : starter'[t] # "idle" => t = s /\ starter'[t] = "setup"
      BY <1>4 DEF IInv, LockInv, TypeOK, LookupNew
  <2>7. StarterInv'
      BY <2>2, <2>3, <2>6, OpenExecutionEffect DEF StarterInv
  <2>8. OwnerInv'
      BY <2>5 DEF OwnerInv
  <2> QED BY <1>1, <2>1, <2>7, <2>8 DEF IInv
<1>5. CASE LookupKnown(s)
  <2>1. LockInv'
      BY <1>5, SupervisorAssumption
         DEF IInv, LookupKnown, LockInv, TypeOK, StopCalls, Directories, locks, callers
  <2>2. StarterInv'
      BY <1>5, <1>2, SupervisorAssumption, StartStatusType
         DEF IInv, LookupKnown, StarterInv, OwnerInv, LockInv, TypeOK, Commands,
             Executions, Owning,
             NoRun, locks, callers
  <2>3. UNCHANGED <<cmd, run>>
      BY <1>5 DEF LookupKnown
  <2>4. OwnerInv'
      BY <2>3 DEF IInv, OwnerInv
  <2> QED BY <1>1, <2>1, <2>2, <2>4 DEF IInv
<1>6. CASE LockExecution(s)
  <2>1. LockInv'
      BY <1>6, SupervisorAssumption
         DEF IInv, LockExecution, LockInv, TypeOK, StopCalls, Directories, locks, callers
  <2>2. StarterInv'
      BY <1>6, <1>2, SupervisorAssumption, StartStatusType
         DEF IInv, LockExecution, StarterInv, OwnerInv, LockInv, TypeOK, Commands,
             Executions, Owning,
             NoRun, locks, callers
  <2>3. UNCHANGED <<cmd, run>>
      BY <1>6 DEF LockExecution
  <2>4. OwnerInv'
      BY <2>3 DEF IInv, OwnerInv
  <2> QED BY <1>1, <2>1, <2>2, <2>4 DEF IInv
<1>7. CASE RefuseStart(s)
  <2>1. LockInv'
      BY <1>7, SupervisorAssumption
         DEF IInv, RefuseStart, ReleaseStart, LockInv, TypeOK, StopCalls, Directories,
             locks, callers
  <2>2. StarterInv'
      BY <1>7, <1>2, SupervisorAssumption, StartStatusType
         DEF IInv, RefuseStart, ReleaseStart, StarterInv, OwnerInv, LockInv, TypeOK,
             Commands, Executions, Owning,
             NoRun, locks, callers
  <2>3. UNCHANGED <<cmd, run>>
      BY <1>7 DEF RefuseStart
  <2>4. OwnerInv'
      BY <2>3 DEF IInv, OwnerInv
  <2> QED BY <1>1, <2>1, <2>2, <2>4 DEF IInv
<1>8. CASE PrepareKnown(s)
  <2>1. LockInv'
      BY <1>8, SupervisorAssumption DEF IInv, PrepareKnown, LockInv, TypeOK, locks, callers
  <2>2. cmd.generation < MaxExecutions /\ TypeOK
      BY <1>8 DEF IInv, StarterInv, PrepareKnown
  <2>3. PICK kind \in Kinds : OpenExecution(kind)
      BY <1>8 DEF PrepareKnown
  <2>4. \A e \in Executions : run[e].pc \notin Owning /\ run[e].proc # "alive"
      BY <1>8 DEF IInv, OwnerInv, PrepareKnown, Busy, Owning, WithProcess
  <2>5. \A e \in Executions : run'[e].pc \notin Owning /\ run'[e].proc # "alive"
      BY <2>2, <2>3, <2>4, OpenExecutionEffect DEF Owning
  <2>6. \A t \in Starters : starter'[t] # "idle" => t = s /\ starter'[t] = "setup"
      BY <1>8 DEF IInv, LockInv, TypeOK, PrepareKnown
  <2>7. StarterInv'
      BY <2>2, <2>3, <2>6, OpenExecutionEffect DEF StarterInv
  <2>8. OwnerInv'
      BY <2>5 DEF OwnerInv
  <2> QED BY <1>1, <2>1, <2>7, <2>8 DEF IInv
<1>9. CASE SetupFails(s)
  <2>1. LockInv'
      BY <1>9, SupervisorAssumption
         DEF IInv, SetupFails, ReleaseStart, LockInv, TypeOK, StopCalls, Directories,
             callers
  <2>2. \A t \in Starters : starter'[t] = "idle"
      BY <1>9 DEF IInv, LockInv, TypeOK, SetupFails, ReleaseStart
  <2>3. StarterInv'
      BY <2>2 DEF StarterInv
  <2>4. \A e \in Executions : run[e].pc \notin Owning /\ run[e].proc # "alive"
      BY <1>9 DEF IInv, OwnerInv, StarterInv, SetupFails, Owning, WithProcess
  <2>5. \A e \in Executions : run'[e].pc \notin Owning /\ run'[e].proc # "alive"
      BY <1>9, <1>2, <2>4 DEF SetupFails, NoRun, Runs, Owning
  <2>6. OwnerInv'
      BY <2>5 DEF OwnerInv
  <2> QED BY <1>1, <2>1, <2>3, <2>6 DEF IInv
<1>10. CASE SetupSucceeds(s)
  <2>1. LockInv'
      BY <1>10, SupervisorAssumption
         DEF IInv, SetupSucceeds, LockInv, TypeOK, StopCalls, Directories, locks, callers
  <2>2. StarterInv'
      BY <1>10, <1>2, SupervisorAssumption, StartStatusType
         DEF IInv, SetupSucceeds, StarterInv, OwnerInv, LockInv, TypeOK, Commands,
             Executions, Owning,
             NoRun, locks, callers
  <2>3. OwnerInv'
      BY <1>10, <1>2, SupervisorAssumption, StartStatusType
         DEF IInv, SetupSucceeds, OwnerInv, StarterInv, Commands, Runs, Executions, Owning,
             WithProcess, IsInternal, NoRun
  <2> QED BY <1>1, <2>1, <2>2, <2>3 DEF IInv
<1>11. CASE FinishStart(s)
  <2>1. LockInv'
      BY <1>11, SupervisorAssumption
         DEF IInv, FinishStart, ReleaseStart, LockInv, TypeOK, StopCalls, Directories,
             locks, callers
  <2>2. StarterInv'
      BY <1>11, <1>2, SupervisorAssumption, StartStatusType
         DEF IInv, FinishStart, ReleaseStart, StarterInv, OwnerInv, LockInv, TypeOK,
             Commands, Executions, Owning,
             NoRun, locks, callers
  <2>3. UNCHANGED <<cmd, run>>
      BY <1>11 DEF FinishStart
  <2>4. OwnerInv'
      BY <2>3 DEF IInv, OwnerInv
  <2> QED BY <1>1, <2>1, <2>2, <2>4 DEF IInv
<1> QED BY ONLY StartStep(s), <1>3, <1>4, <1>5, <1>6, <1>7, <1>8, <1>9, <1>10, <1>11
       DEF StartStep

(* Stop calls: they mark, ask and cancel, and change nothing a start or an   *)
(* execution relies on.                                                      *)
LEMMA StopStepInv ==
    ASSUME IInv, NEW p \in Stoppers, StopStep(p)
    PROVE  IInv'
<1>1. TypeOK'
    BY StopStepTypes DEF IInv
<1>2. cmd \in Commands /\ run \in [Executions -> Runs] /\ stopper \in [Stoppers -> StopCalls]
    BY DEF IInv, TypeOK
<1>3. LockInv'
  <2>1. UNCHANGED <<instLock, starter>>
      BY DEF StopStep, BeginStop, LockStop, MarkIntentional, CaptureTarget, NothingToStop,
             StopFinished, StopTimesOut, locks
  <2>2. ASSUME NEW d \in Directories, dirLock[d] = p, dirLock' = [dirLock EXCEPT ![d] = Free],
               stopper'[p].pc = "idle",
               \A q \in Stoppers : q # p => stopper'[q] = stopper[q]
        PROVE  LockInv'
      BY <2>1, <2>2, SupervisorAssumption DEF IInv, LockInv, TypeOK, Directories
  <2>3. CASE BeginStop(p)
      BY <1>2, <2>3 DEF IInv, LockInv, BeginStop, StopCalls, locks
  <2>4. CASE LockStop(p)
      BY <1>2, <2>4, SupervisorAssumption
         DEF IInv, LockInv, LockStop, TypeOK, StopCalls, Directories
  <2>5. CASE MarkIntentional(p)
      BY <1>2, <2>5 DEF IInv, LockInv, MarkIntentional, StopCalls, locks
  <2>6. CASE CaptureTarget(p)
      BY <1>2, <2>6 DEF IInv, LockInv, CaptureTarget, StopCalls, locks
  <2>7. CASE NothingToStop(p) \/ StopFinished(p) \/ StopTimesOut(p)
    <3>1. ReleaseStop(p) /\ dirLock[stopper[p].dir] = p /\ stopper[p].dir \in Directories
        BY <1>2, <2>7 DEF IInv, LockInv, NothingToStop, StopFinished, StopTimesOut, StopCalls
    <3> QED BY <1>2, <2>2, <3>1 DEF ReleaseStop
  <2> QED BY <2>3, <2>4, <2>5, <2>6, <2>7 DEF StopStep
<1>4. /\ UNCHANGED <<starter, cmd.generation, cmd.registered, cmd.status, cmd.attached>>
      /\ \A g \in Executions : UNCHANGED <<run[g].pc, run[g].proc, run[g].kind>>
  <2>1. cmd' = [cmd EXCEPT !.intentional = TRUE] \/ UNCHANGED cmd
      BY DEF StopStep, BeginStop, LockStop, MarkIntentional, CaptureTarget, NothingToStop,
             StopFinished, StopTimesOut
  <2>2. \/ UNCHANGED run
        \/ run' = [run EXCEPT ![cmd.generation].asked = TRUE]
        \/ run' = [run EXCEPT ![stopper[p].execution].cancelled = TRUE]
      BY DEF StopStep, BeginStop, LockStop, MarkIntentional, CaptureTarget, NothingToStop,
             StopFinished, StopTimesOut
  <2>3. UNCHANGED starter
      BY DEF StopStep, BeginStop, LockStop, MarkIntentional, CaptureTarget, NothingToStop,
             StopFinished, StopTimesOut
  <2> QED BY <1>2, <2>1, <2>2, <2>3 DEF Commands, Runs
<1>5. StarterInv'
    BY <1>4 DEF IInv, StarterInv, TypeOK, Commands
<1>6. OwnerInv'
    BY <1>4 DEF IInv, OwnerInv, IsInternal
<1> QED BY <1>1, <1>3, <1>5, <1>6 DEF IInv

(* A placeholder is created only where nothing is registered, so it replaces *)
(* no execution; the mutex it needs is the one a preparing start holds.      *)
LEMMA CreateShellInv == ASSUME IInv, CreateShell PROVE IInv'
<1>1. TypeOK'
  <2>1. [Unregistered EXCEPT !.registered = TRUE] \in Commands
      BY RecordTypes DEF Commands
  <2> QED BY <2>1 DEF IInv, TypeOK, CreateShell, locks, callers, seen
<1>2. LockInv'
    BY DEF IInv, CreateShell, LockInv, locks, callers
<1>3. \A s \in Starters : starter[s] \notin {"setup", "starting"}
    BY SupervisorAssumption DEF IInv, LockInv, CreateShell
<1>4. StarterInv'
    BY <1>3, SupervisorAssumption DEF StarterInv, CreateShell, Unregistered, callers
<1>5. OwnerInv'
    BY DEF IInv, CreateShell, OwnerInv, Owning, WithProcess
<1> QED BY <1>1, <1>2, <1>4, <1>5 DEF IInv

(* Readers, the shutdown and stuttering leave the command alone.             *)
LEMMA QuietStepInv ==
    ASSUME IInv,
           (\E r \in Readers : ReadLifecycle(r) \/ ReadStatus(r)) \/ ShutDown \/ UNCHANGED vars
    PROVE  IInv'
<1>1. TypeOK'
  <2>1. CASE \E r \in Readers : ReadLifecycle(r) \/ ReadStatus(r)
      BY <2>1, ReadStepTypes DEF IInv
  <2>2. CASE ShutDown
      BY <2>2 DEF IInv, TypeOK, ShutDown, locks, callers
  <2>3. CASE UNCHANGED vars
      BY <2>3 DEF IInv, TypeOK, vars, locks, callers, seen
  <2> QED BY <2>1, <2>2, <2>3
<1>2. UNCHANGED <<cmd, locks, callers, run>>
    BY DEF ReadLifecycle, ReadStatus, ShutDown, vars
<1> QED BY <1>1, <1>2 DEF IInv, LockInv, StarterInv, OwnerInv, locks, callers

(* The invariant is inductive.                                               *)
LEMMA NextIInv == IInv /\ [Next]_vars => IInv'
<1> SUFFICES ASSUME IInv, [Next]_vars PROVE IInv'
    OBVIOUS
<1> QED BY StartStepInv, StopStepInv, RunStepInv, CreateShellInv, QuietStepInv DEF Next

(* It holds in every reachable state.                                        *)
THEOREM Invariant == Spec => []IInv
<1> QED BY InitIInv, NextIInv, PTL DEF Spec

(* Every variable keeps its type: no interleaving of the callers and the     *)
(* goroutines of the executions writes a value outside of it.                *)
THEOREM TypeCorrect == Spec => []TypeOK
<1>1. IInv => TypeOK
    BY DEF IInv
<1> QED BY <1>1, Invariant, PTL

(* No start, stop, exit or readiness signal leaves a live process that the   *)
(* command no longer refers to, or two of them, or one shown as OFFLINE.     *)
THEOREM LiveProcessesAreSupervised == Spec => []LiveProcessIsSupervised
<1>1. IInv => LiveProcessIsSupervised
    BY DEF IInv, OwnerInv, LiveProcessIsSupervised, WithProcess, Owning
<1> QED BY <1>1, Invariant, PTL

====
