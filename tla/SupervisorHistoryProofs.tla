---- MODULE SupervisorHistoryProofs ----
(*****************************************************************************)
(* Proofs about what Supervisor records and publishes: its events implement  *)
(* ExecutionLog, and agree with the crash alert, the intent, the retained    *)
(* lifecycle and the snapshots.                                              *)
(*                                                                           *)
(* HInv adds to the invariant of SupervisorProofs where each execution is in *)
(* its history: what its last event was, which transition has been recorded  *)
(* and not published, and who may publish the next one.  At the end: calls   *)
(* and executions only ever go forward.                                      *)
(*****************************************************************************)
EXTENDS SupervisorProofs, SequenceTheorems

Opening == {"PRE_START", "ONLINE", "INSTALLING", "UPDATING"}

(* The places of an execution's goroutine after its announcement.            *)
Started == {"running", "reaped", "finalize"}
Finalizing == {"terminal", "publishing"}
Ended == {"closing", "done"}

Publishing(g) == run[g].ready \in {"recording", "publishing"}

(* A goroutine of the execution may still write to the command.              *)
Active(g) == run[g].pc \in Owning \cup Finalizing \/ Publishing(g)

(* The start of the execution has been published, its end has not.           *)
Announced(g) ==
    run[g].result = "ok" /\ ~IsSuppressed(run[g].kind) /\ run[g].pc \in Started \cup Finalizing

(* A transition of the execution is recorded in the command only.            *)
Pending(g) == run[g].pc \in {"announcing", "publishing"} \/ run[g].ready = "publishing"

(* The status readers of the events know.                                    *)
Shown(g) ==
    IF run[g].pc \in Finalizing THEN run[g].old
    ELSE IF Publishing(g) THEN "PRE_START" ELSE cmd.status

LastEvent == events[Len(events)]

(* Executions are opened one after another.                                  *)
OrderInv ==
    /\ \A g \in Executions : g > cmd.generation => run[g].pc = "none"
    /\ ~cmd.registered => events = <<>> /\ \A g \in Executions : run[g].pc = "none"
    /\ \A i \in DOMAIN events : events[i].execution \in 1 .. cmd.generation

(* A start call that has found the command idle still holds executionMutex.  *)
HolderInv == \A s \in Starters : starter[s] = "locked" => execLock = s

StatusInv ==
    /\ cmd.status \in Opening \cup {"OFFLINE"}
    /\ cmd.known => cmd.generation \in Executions
    /\ \A s \in Starters : starter[s] = "setup" => cmd.status = StartStatus(run[cmd.generation].kind)

(* executionMutex is held by the goroutine it was handed to.                 *)
LockOf(g) ==
    /\ run[g].pc \in Finalizing => execLock = <<"finalize", g>>
    /\ Publishing(g) => execLock = <<"ready", g>>

(* How an execution's fields hang together.                                  *)
RunOf(g) ==
    /\ run[g].pc \in {"none", "spawning"} => run[g].result = "none"
    /\ run[g].pc \in {"announce", "announcing", "running", "reaped"} => run[g].result = "ok"
    /\ run[g].result = "error" => run[g].pc \in {"finalize"} \cup Finalizing \cup Ended
    /\ run[g].pc \in {"announcing", "publishing"} => ~IsSuppressed(run[g].kind)
    /\ run[g].ready # "none" =>
          /\ run[g].pc \in Started \cup Finalizing \cup Ended
          /\ run[g].result = "ok" /\ run[g].kind = "readiness"
    /\ run[g].closed => run[g].pc = "done"

(* What the command says while the execution is in it.                       *)
CommandOf(g) ==
    /\ run[g].pc \in {"spawning", "announce", "announcing"} => cmd.status = StartStatus(run[g].kind)
    /\ run[g].pc \in Finalizing => cmd.generation = g /\ run[g].old \in Opening
    /\ Publishing(g) => cmd.generation = g /\ run[g].pc \in Started /\ cmd.status = "ONLINE"
    /\ cmd.generation = g =>
          /\ run[g].pc \in Finalizing \cup Ended => cmd.status = "OFFLINE" /\ ~cmd.attached
          /\ cmd.known => run[g].pc \in {"publishing"} \cup Ended /\ run[g].code = cmd.code

(* The transition that is recorded and not published is the command's.       *)
DraftOf(g) ==
    /\ Pending(g) => run[g].draft.execution = g /\ run[g].draft.sequence = cmd.sequence
    /\ run[g].pc = "announcing" => run[g].draft.old = "OFFLINE" /\ run[g].draft.new = cmd.status
    /\ run[g].pc = "publishing" =>
          /\ run[g].draft.old = run[g].old /\ run[g].draft.new = "OFFLINE"
          /\ run[g].draft.code = run[g].code /\ run[g].draft.known = run[g].known
          /\ cmd.previous = run[g].old /\ cmd.code = run[g].code /\ cmd.known = run[g].known
    /\ run[g].ready = "publishing" =>
          run[g].draft.old = "PRE_START" /\ run[g].draft.new = "ONLINE"

(* Where the events stand with the execution that owns the command.          *)
LogOf(g) ==
    /\ Announced(g) =>
          /\ events # <<>>
          /\ LastEvent.execution = g
          /\ LastEvent.new = Shown(g)
          /\ cmd.sequence = IF Pending(g) THEN LastEvent.sequence + 1 ELSE LastEvent.sequence
    /\ cmd.generation = g /\ ~Announced(g) /\ run[g].pc \notin Ended =>
          /\ \A i \in DOMAIN events : events[i].execution < g
          /\ cmd.sequence = IF Pending(g) THEN 1 ELSE 0

(* An execution that has ended has its OFFLINE event.                        *)
EndOf(g) ==
    run[g].pc \in Ended /\ ~IsSuppressed(run[g].kind) =>
        \E i \in DOMAIN events : events[i].execution = g /\ events[i].new = "OFFLINE"

(* A crash has been reported with what the execution ends with.              *)
CrashOf(g) ==
    /\ run[g].pc = "reaped" => run[g].known \/ cmd.intentional
    /\ run[g].crash # 0 =>
          /\ run[g].pc \in {"finalize"} \cup Finalizing \cup Ended
          /\ run[g].known /\ run[g].code = run[g].crash
          /\ run[g].pc = "finalize" => cmd.status \in Running
          /\ run[g].pc \in Finalizing => run[g].old \in Running

History(g) ==
    LockOf(g) /\ RunOf(g) /\ CommandOf(g) /\ DraftOf(g) /\ LogOf(g) /\ EndOf(g) /\ CrashOf(g)

(* An execution whose start is the last event owns the command.              *)
TopInv == events # <<>> /\ LastEvent.new # "OFFLINE" => Announced(LastEvent.execution)

(* An OFFLINE event is the end of its execution.                             *)
EndsInv ==
    \A i \in DOMAIN events : events[i].new = "OFFLINE" => run[events[i].execution].pc \in Ended

HInv ==
    /\ OrderInv
    /\ HolderInv
    /\ StatusInv
    /\ \A g \in Executions : History(g)
    /\ TopInv
    /\ EndsInv
    /\ RetainedLifecycleIsTheLastEvent
    /\ CrashAgreesWithEvent

(* A snapshot that knows an exit code was taken of an execution that ended.  *)
SnapInv ==
    \A r \in Readers : snap[r].known =>
        /\ snap[r].execution \in Executions
        /\ run[snap[r].execution].pc \in {"publishing"} \cup Ended
        /\ run[snap[r].execution].code = snap[r].code

(* The intent of a stop is with the command when its execution is asked.     *)
IntentInv ==
    /\ cmd.registered \/ (\E s \in Starters : starter[s] = "setup") => cmd.dir = "server"
    /\ \A p \in Stoppers :
          /\ stopper[p].pc # "idle" => stopper[p].dir = "server" /\ cmd.registered
          /\ stopper[p].pc \in {"marked", "waiting"} => cmd.intentional
    /\ \A g \in Executions : run[g].asked /\ cmd.generation = g => cmd.intentional
    /\ StopIsReportedAsIntended

-----------------------------------------------------------------------------
(* The basic facts.                                                          *)

LEMMA StartStatusOpens ==
    ASSUME NEW kind \in AllKinds
    PROVE  StartStatus(kind) \in Opening
BY DEF AllKinds, StartStatus, Opening

(* A goroutine that may write belongs to the current execution.              *)
LEMMA ActiveIsCurrent ==
    ASSUME OwnerInv, NEW g \in Executions, CommandOf(g), Active(g)
    PROVE  cmd.generation = g
BY DEF OwnerInv, CommandOf, Active

(* Executions that are not active do not depend on the command.              *)
LEMMA Elsewhere ==
    ASSUME NEW e \in Executions, History(e), ~Active(e), run'[e] = run[e],
           cmd'.generation # e,
           \/ events' = events
           \/ /\ DOMAIN events \subseteq DOMAIN events'
              /\ \A i \in DOMAIN events : events'[i] = events[i]
    PROVE  History(e)'
<1>1. run[e].pc \notin Owning \cup Finalizing /\ ~Publishing(e)
    BY DEF Active
<1>2. run[e].ready # "publishing" /\ ~Pending(e) /\ ~Announced(e)
    BY <1>1 DEF Publishing, Pending, Announced, Owning, Finalizing, Started
<1>3. (~Publishing(e) /\ ~Pending(e) /\ ~Announced(e))'
    BY <1>1, <1>2 DEF Publishing, Pending, Announced
<1>4. LockOf(e)' /\ RunOf(e)'
    BY <1>1, <1>3 DEF History, LockOf, RunOf
<1>5. CommandOf(e)'
    BY <1>1, <1>3 DEF CommandOf, Owning
<1>6. DraftOf(e)'
    BY <1>1, <1>2, <1>3 DEF DraftOf, Owning, Finalizing
<1>7. LogOf(e)'
    BY <1>3 DEF LogOf
<1>8. EndOf(e)'
    BY DEF History, EndOf
<1>9. CrashOf(e)'
    BY <1>1 DEF History, CrashOf, Owning
<1> QED BY <1>4, <1>5, <1>6, <1>7, <1>8, <1>9 DEF History

(* Appending an event.                                                       *)
LEMMA AppendFacts ==
    ASSUME NEW S, NEW s \in Seq(S), NEW e \in S
    PROVE  /\ Append(s, e) \in Seq(S)
           /\ Append(s, e) # <<>>
           /\ Len(s) \in Nat
           /\ Len(Append(s, e)) = Len(s) + 1
           /\ DOMAIN s = 1 .. Len(s)
           /\ DOMAIN Append(s, e) = 1 .. Len(s) + 1
           /\ \A i \in 1 .. Len(s) : Append(s, e)[i] = s[i]
           /\ Append(s, e)[Len(s) + 1] = e
BY AppendProperties, LenProperties

-----------------------------------------------------------------------------
(* The kinds of steps.                                                       *)

(* Nothing the history depends on changes.                                   *)
Kept(e) ==
    /\ UNCHANGED <<run[e].pc, run[e].kind, run[e].result, run[e].code, run[e].known,
                   run[e].old, run[e].closed, run[e].crash, run[e].draft>>
    /\ \/ run'[e].ready = run[e].ready
       \/ run[e].ready = "waiting" /\ run'[e].ready = "done"

LEMMA QuietStep ==
    ASSUME HInv, UNCHANGED events,
           UNCHANGED <<cmd.registered, cmd.status, cmd.generation, cmd.attached, cmd.previous,
                       cmd.sequence, cmd.code, cmd.known>>,
           cmd.intentional => cmd'.intentional,
           \A e \in Executions : Kept(e),
           \A s \in Starters : starter'[s] = "setup" => starter[s] = "setup",
           HolderInv',
           cmd.generation \in Executions \/ \A s \in Starters : starter[s] # "setup",
           \A i \in DOMAIN events : events[i].execution \in Executions,
           execLock' = execLock \/ \A e \in Executions : execLock \notin {<<"finalize", e>>, <<"ready", e>>}
    PROVE  HInv'
<1>1. OrderInv'
    BY DEF HInv, OrderInv, Kept
<1>2. StatusInv'
    BY DEF HInv, StatusInv, Kept
<1>3. ASSUME NEW e \in Executions
      PROVE  History(e)'
  <2>1. Kept(e) /\ History(e)
      BY DEF HInv
  <2>2. /\ Publishing(e)' <=> Publishing(e)
        /\ Pending(e)' <=> Pending(e)
        /\ Announced(e)' <=> Announced(e)
        /\ Shown(e)' = Shown(e)
      BY <2>1 DEF Kept, Publishing, Pending, Announced, Shown, IsSuppressed
  <2>3. LockOf(e)'
      BY <2>1, <2>2 DEF Kept, History, LockOf
  <2>4. RunOf(e)'
      BY <2>1 DEF Kept, History, RunOf, IsSuppressed
  <2>5. CommandOf(e)'
      BY <2>1, <2>2 DEF Kept, History, CommandOf
  <2>6. DraftOf(e)'
      BY <2>1, <2>2 DEF Kept, History, DraftOf
  <2>7. LogOf(e)'
      BY <2>1, <2>2 DEF Kept, History, LogOf, LastEvent
  <2>8. EndOf(e)'
      BY <2>1 DEF Kept, History, EndOf, IsSuppressed
  <2>9. CrashOf(e)'
      BY <2>1 DEF Kept, History, CrashOf
  <2> QED BY <2>3, <2>4, <2>5, <2>6, <2>7, <2>8, <2>9 DEF History
<1>4. EndsInv'
    BY DEF HInv, EndsInv, Kept
<1>5. CrashAgreesWithEvent'
    BY DEF HInv, CrashAgreesWithEvent, Kept
<1>6. RetainedLifecycleIsTheLastEvent'
    BY DEF HInv, RetainedLifecycleIsTheLastEvent, Kept, IsSuppressed
<1>7. TopInv'
  <2>1. CASE events = <<>>
      BY <2>1 DEF TopInv
  <2>2. CASE ~(LastEvent.execution \in Executions)
      BY <2>2 DEF HInv, TopInv, LastEvent
  <2>3. CASE LastEvent.execution \in Executions
      BY <2>3 DEF HInv, TopInv, LastEvent, Kept, Announced, IsSuppressed
  <2> QED BY <2>1, <2>2, <2>3
<1> QED BY <1>1, <1>2, <1>3, <1>4, <1>5, <1>6, <1>7 DEF HInv

(* The current execution takes a step that publishes nothing.                *)
LEMMA SilentStep ==
    ASSUME HInv, OwnerInv, NEW g \in Executions, UNCHANGED events,
           cmd.generation = g, cmd'.generation = g, cmd'.registered,
           \A e \in Executions \ {g} : run'[e] = run[e],
           \A i \in DOMAIN events : events[i].execution \in Executions,
           run[g].pc \notin Ended,
           run'[g].pc \in Ended => IsSuppressed(run'[g].kind),
           events # <<>> /\ LastEvent.execution = g /\ Announced(g) => Announced(g)',
           HolderInv', StatusInv', History(g)'
    PROVE  HInv'
<1>1. ASSUME NEW e \in Executions \ {g}
      PROVE  History(e)' /\ ~Active(e)
    BY Elsewhere, ActiveIsCurrent DEF HInv, History
<1>2. OrderInv'
  <2>1. \A e \in Executions : e > g => run'[e].pc = "none"
      BY DEF HInv, OrderInv, Executions
  <2> QED BY <2>1 DEF HInv, OrderInv
<1>3. ASSUME NEW i \in DOMAIN events, events[i].new = "OFFLINE"
      PROVE  run'[events[i].execution] = run[events[i].execution]
    BY <1>3 DEF HInv, EndsInv
<1>4. EndsInv' /\ CrashAgreesWithEvent'
    BY <1>3 DEF HInv, EndsInv, CrashAgreesWithEvent
<1>5. RetainedLifecycleIsTheLastEvent'
    BY DEF RetainedLifecycleIsTheLastEvent, Ended
<1>6. TopInv'
  <2> SUFFICES ASSUME events # <<>>, LastEvent.new # "OFFLINE"
               PROVE  Announced(LastEvent.execution)'
      BY DEF TopInv, LastEvent
  <2>1. Announced(LastEvent.execution)
      BY DEF HInv, TopInv
  <2> DEFINE l == LastEvent.execution
  <2>2. CASE l = g
      BY <2>1, <2>2 DEF LastEvent
  <2>3. CASE l # g
      BY <2>1, <2>3 DEF LastEvent, Announced
  <2> QED BY <2>2, <2>3
<1> QED BY <1>1, <1>2, <1>4, <1>5, <1>6 DEF HInv

-----------------------------------------------------------------------------
(* The execution's goroutine between two events.                             *)

(* Every event is of an execution.                                           *)
LEMMA EventOwners ==
    ASSUME HInv, TypeOK
    PROVE  \A i \in DOMAIN events : events[i].execution \in Executions
<1>1. cmd.generation \in 0 .. MaxExecutions
    BY DEF TypeOK, Commands
<1> QED BY <1>1, SupervisorAssumption DEF HInv, OrderInv, Executions

(* The goroutine goes on before finalizeExecution, and the command stays.    *)
LEMMA GoesOn ==
    ASSUME HInv, IInv, NEW g \in Executions, UNCHANGED <<cmd, execLock, starter, events>>,
           run[g].pc \in Owning, run'[g].pc \in Owning, run'[g].kind = run[g].kind,
           run'[g].result = run[g].result \/ run[g].pc = "spawning",
           run'[g].pc \in Started \/ run[g].pc \notin Started,
           \A e \in Executions \ {g} : run'[e] = run[e],
           History(g)'
    PROVE  HInv'
<1>1. cmd.generation = g /\ cmd.registered
    BY DEF IInv, OwnerInv
<1>2. HolderInv' /\ StatusInv'
    BY <1>1 DEF HInv, HolderInv, StatusInv
<1>3. run[g].pc \notin Ended /\ run'[g].pc \notin Ended
    BY DEF Owning, Ended
<1>4. Announced(g) => Announced(g)'
    BY DEF Announced, Owning, Started, Finalizing, IsSuppressed
<1> QED BY <1>1, <1>2, <1>3, <1>4, SilentStep, EventOwners DEF IInv

LEMMA SpawnSucceedsHistory ==
    ASSUME HInv, IInv, NEW g \in Executions, SpawnSucceeds(g)
    PROVE  HInv'
<1>1. run \in [Executions -> Runs] /\ run[g] \in Runs
    BY DEF IInv, TypeOK
<1>2. /\ run[g].pc = "spawning" /\ run'[g].pc = "announce" /\ run'[g].result = "ok"
      /\ UNCHANGED <<run[g].kind, run[g].code, run[g].known, run[g].old, run[g].closed,
                     run[g].crash, run[g].ready, run[g].draft>>
      /\ \A e \in Executions \ {g} : run'[e] = run[e]
    BY <1>1 DEF SpawnSucceeds, Runs
<1>3. UNCHANGED <<cmd, execLock, starter, events>>
    BY DEF SpawnSucceeds, locks, callers, seen
<1>4. History(g) /\ cmd.generation = g
    BY <1>2 DEF HInv, IInv, OwnerInv, Owning
<1>5. run[g].ready = "none" /\ ~Publishing(g)' /\ ~Pending(g) /\ ~Pending(g)'
      /\ ~Announced(g) /\ ~Announced(g)'
    BY <1>2, <1>4
       DEF History, RunOf, Publishing, Pending, Announced, Started, Finalizing, Ended
<1>6. LockOf(g)' /\ RunOf(g)'
    BY <1>2, <1>4, <1>5
       DEF History, LockOf, RunOf, Started, Finalizing, Ended, IsSuppressed
<1>7. CommandOf(g)' /\ DraftOf(g)'
    BY <1>2, <1>3, <1>4, <1>5 DEF History, CommandOf, DraftOf, Finalizing, Ended
<1>8. LogOf(g)' /\ EndOf(g)' /\ CrashOf(g)'
    BY <1>2, <1>3, <1>4, <1>5 DEF History, LogOf, EndOf, CrashOf, Finalizing, Ended
<1> QED BY <1>2, <1>3, <1>6, <1>7, <1>8, GoesOn DEF History, Owning, Started

LEMMA SpawnFailsHistory ==
    ASSUME HInv, IInv, NEW g \in Executions, SpawnFails(g)
    PROVE  HInv'
<1>1. run \in [Executions -> Runs] /\ run[g] \in Runs
    BY DEF IInv, TypeOK
<1>2. /\ run[g].pc = "spawning" /\ run'[g].pc = "finalize" /\ run'[g].result = "error"
      /\ run'[g].code = 1 /\ run'[g].known
      /\ UNCHANGED <<run[g].kind, run[g].old, run[g].closed, run[g].crash, run[g].ready,
                     run[g].draft>>
      /\ \A e \in Executions \ {g} : run'[e] = run[e]
    BY <1>1 DEF SpawnFails, Runs
<1>3. UNCHANGED <<cmd, execLock, starter, events>>
    BY DEF SpawnFails, locks, callers, seen
<1>4. History(g) /\ cmd.generation = g
    BY <1>2 DEF HInv, IInv, OwnerInv, Owning
<1>5. run[g].ready = "none" /\ ~Publishing(g)' /\ ~Pending(g) /\ ~Pending(g)'
      /\ ~Announced(g) /\ ~Announced(g)' /\ run[g].crash = 0
    BY <1>2, <1>4
       DEF History, RunOf, CrashOf, Publishing, Pending, Announced, Started, Finalizing, Ended
<1>6. LockOf(g)' /\ RunOf(g)'
    BY <1>2, <1>4, <1>5
       DEF History, LockOf, RunOf, Started, Finalizing, Ended, IsSuppressed
<1>7. CommandOf(g)' /\ DraftOf(g)'
    BY <1>2, <1>3, <1>4, <1>5 DEF History, CommandOf, DraftOf, Finalizing, Ended
<1>8. LogOf(g)' /\ EndOf(g)' /\ CrashOf(g)'
    BY <1>2, <1>3, <1>4, <1>5 DEF History, LogOf, EndOf, CrashOf, Finalizing, Ended
<1> QED BY <1>2, <1>3, <1>6, <1>7, <1>8, GoesOn DEF History, Owning, Started

LEMMA AnnounceNothingHistory ==
    ASSUME HInv, IInv, NEW g \in Executions, AnnounceNothing(g)
    PROVE  HInv'
<1>1. run \in [Executions -> Runs] /\ run[g] \in Runs
    BY DEF IInv, TypeOK
<1>2. /\ run[g].pc = "announce" /\ run'[g].pc = "running" /\ IsSuppressed(run[g].kind)
      /\ UNCHANGED <<run[g].kind, run[g].result, run[g].code, run[g].known, run[g].old,
                     run[g].closed, run[g].crash, run[g].ready, run[g].draft>>
      /\ \A e \in Executions \ {g} : run'[e] = run[e]
    BY <1>1 DEF AnnounceNothing, Runs
<1>3. UNCHANGED <<cmd, execLock, starter, events>>
    BY DEF AnnounceNothing, locks, callers, seen
<1>4. History(g) /\ cmd.generation = g
    BY <1>2 DEF HInv, IInv, OwnerInv, Owning
<1>5. run[g].ready = "none" /\ ~Publishing(g)' /\ ~Pending(g) /\ ~Pending(g)'
      /\ ~Announced(g) /\ ~Announced(g)'
    BY <1>2, <1>4
       DEF History, RunOf, Publishing, Pending, Announced, Started, Finalizing, Ended,
           IsSuppressed
<1>6. LockOf(g)' /\ RunOf(g)'
    BY <1>2, <1>4, <1>5
       DEF History, LockOf, RunOf, Started, Finalizing, Ended, IsSuppressed
<1>7. CommandOf(g)' /\ DraftOf(g)'
    BY <1>2, <1>3, <1>4, <1>5 DEF History, CommandOf, DraftOf, Finalizing, Ended
<1>8. LogOf(g)' /\ EndOf(g)' /\ CrashOf(g)'
    BY <1>2, <1>3, <1>4, <1>5 DEF History, LogOf, EndOf, CrashOf, Finalizing, Ended
<1> QED BY <1>2, <1>3, <1>6, <1>7, <1>8, GoesOn DEF History, Owning, Started

LEMMA ReapHistory ==
    ASSUME HInv, IInv, NEW g \in Executions, Reap(g)
    PROVE  HInv'
<1>1. run \in [Executions -> Runs] /\ run[g] \in Runs
    BY DEF IInv, TypeOK
<1>2. /\ run[g].pc = "running" /\ run'[g].pc = "reaped"
      /\ UNCHANGED <<run[g].kind, run[g].result, run[g].old, run[g].closed, run[g].crash,
                     run[g].ready, run[g].draft>>
      /\ \A e \in Executions \ {g} : run'[e] = run[e]
    BY <1>1 DEF Reap, Runs
<1>3. UNCHANGED <<cmd, execLock, starter, events>>
    BY DEF Reap, locks, callers, seen
<1>4. History(g) /\ cmd.generation = g /\ cmd.status # "OFFLINE"
    BY <1>2 DEF HInv, IInv, OwnerInv, Owning
<1>5. run'[g].known \/ cmd.intentional
  <2>1. run'[g].known = (run[g].proc # "signaled" \/ ~cmd.intentional)
      BY <1>1 DEF Reap, Runs
  <2> QED BY <2>1
<1>6. /\ Publishing(g)' <=> Publishing(g)
      /\ Pending(g)' <=> Pending(g)
      /\ Announced(g)' <=> Announced(g)
      /\ Shown(g)' = Shown(g)
    BY <1>2, <1>3 DEF Publishing, Pending, Announced, Shown, Started, Finalizing, IsSuppressed
<1>7. LockOf(g)' /\ RunOf(g)'
    BY <1>2, <1>3, <1>4, <1>6
       DEF History, LockOf, RunOf, Started, Finalizing, Ended, IsSuppressed
<1>8. CommandOf(g)' /\ DraftOf(g)'
    BY <1>2, <1>3, <1>4, <1>6 DEF History, CommandOf, DraftOf, Started, Finalizing, Ended
<1>9. LogOf(g)' /\ EndOf(g)' /\ CrashOf(g)'
    BY <1>2, <1>3, <1>4, <1>5, <1>6
       DEF History, LogOf, EndOf, CrashOf, LastEvent, Finalizing, Ended
<1> QED BY <1>2, <1>3, <1>7, <1>8, <1>9, GoesOn DEF History, Owning, Started

LEMMA ReportHistory ==
    ASSUME HInv, IInv, NEW g \in Executions, Report(g)
    PROVE  HInv'
<1>1. run \in [Executions -> Runs] /\ run[g] \in Runs
    BY DEF IInv, TypeOK
<1>2. /\ run[g].pc = "reaped" /\ run'[g].pc = "finalize"
      /\ UNCHANGED <<run[g].kind, run[g].result, run[g].code, run[g].known, run[g].old,
                     run[g].closed, run[g].ready, run[g].draft>>
      /\ \A e \in Executions \ {g} : run'[e] = run[e]
    BY <1>1 DEF Report, Runs
<1>3. UNCHANGED <<cmd, execLock, starter, events>>
    BY DEF Report, locks, callers, seen
<1>4. History(g) /\ cmd.generation = g /\ cmd.status # "OFFLINE"
    BY <1>2 DEF HInv, IInv, OwnerInv, Owning
<1>5. run'[g].crash # 0 =>
          ~cmd.intentional /\ run'[g].crash = run[g].code /\ cmd.status \in Running
    BY <1>1 DEF Report, Runs, Running
<1>6. /\ Publishing(g)' <=> Publishing(g)
      /\ Pending(g)' <=> Pending(g)
      /\ Announced(g)' <=> Announced(g)
      /\ Shown(g)' = Shown(g)
    BY <1>2, <1>3 DEF Publishing, Pending, Announced, Shown, Started, Finalizing, IsSuppressed
<1>7. LockOf(g)' /\ RunOf(g)'
    BY <1>2, <1>3, <1>4, <1>6
       DEF History, LockOf, RunOf, Started, Finalizing, Ended, IsSuppressed
<1>8. CommandOf(g)' /\ DraftOf(g)'
    BY <1>2, <1>3, <1>4, <1>6 DEF History, CommandOf, DraftOf, Started, Finalizing, Ended
<1>9. LogOf(g)' /\ EndOf(g)' /\ CrashOf(g)'
    BY <1>2, <1>3, <1>4, <1>5, <1>6
       DEF History, LogOf, EndOf, CrashOf, LastEvent, Finalizing, Ended
<1> QED BY <1>2, <1>3, <1>7, <1>8, <1>9, GoesOn DEF History, Owning, Started

LEMMA InternalEndsHistory ==
    ASSUME HInv, IInv, NEW g \in Executions, InternalEnds(g)
    PROVE  HInv'
<1>1. run \in [Executions -> Runs] /\ run[g] \in Runs
    BY DEF IInv, TypeOK
<1>2. /\ run[g].pc = "running" /\ run'[g].pc = "finalize"
      /\ UNCHANGED <<run[g].kind, run[g].result, run[g].old, run[g].closed, run[g].crash,
                     run[g].ready, run[g].draft>>
      /\ \A e \in Executions \ {g} : run'[e] = run[e]
    BY <1>1 DEF InternalEnds, Runs
<1>3. UNCHANGED <<cmd, execLock, starter, events>>
    BY DEF InternalEnds, locks, callers, seen
<1>4. History(g) /\ cmd.generation = g /\ cmd.status # "OFFLINE"
    BY <1>2 DEF HInv, IInv, OwnerInv, Owning
<1>5. run[g].crash = 0
    BY <1>2, <1>4 DEF History, CrashOf, Finalizing, Ended
<1>6. /\ Publishing(g)' <=> Publishing(g)
      /\ Pending(g)' <=> Pending(g)
      /\ Announced(g)' <=> Announced(g)
      /\ Shown(g)' = Shown(g)
    BY <1>2, <1>3 DEF Publishing, Pending, Announced, Shown, Started, Finalizing, IsSuppressed
<1>7. LockOf(g)' /\ RunOf(g)'
    BY <1>2, <1>3, <1>4, <1>6
       DEF History, LockOf, RunOf, Started, Finalizing, Ended, IsSuppressed
<1>8. CommandOf(g)' /\ DraftOf(g)'
    BY <1>2, <1>3, <1>4, <1>6 DEF History, CommandOf, DraftOf, Started, Finalizing, Ended
<1>9. LogOf(g)' /\ EndOf(g)' /\ CrashOf(g)'
    BY <1>2, <1>3, <1>4, <1>5, <1>6
       DEF History, LogOf, EndOf, CrashOf, LastEvent, Finalizing, Ended
<1> QED BY <1>2, <1>3, <1>7, <1>8, <1>9, GoesOn DEF History, Owning, Started

-----------------------------------------------------------------------------
(* Recording a transition, and executionMutex.                               *)

(* executionMutex tells its owners apart.                                    *)
LEMMA OwnersDiffer ==
    ASSUME NEW g \in Executions
    PROVE  /\ <<"finalize", g>> # Free /\ <<"ready", g>> # Free
           /\ <<"finalize", g>> # <<"ready", g>>
           /\ \A s \in Starters : s # Free /\ s # <<"finalize", g>> /\ s # <<"ready", g>>
<1>1. <<"finalize", g>> \in {"finalize", "ready"} \X (1 .. MaxExecutions)
      /\ <<"ready", g>> \in {"finalize", "ready"} \X (1 .. MaxExecutions)
    BY DEF Executions
<1>2. <<"finalize", g>> # <<"ready", g>>
    OBVIOUS
<1>3. Free \notin Starters
    BY SupervisorAssumption
<1>4. (Starters \cup {Free}) \cap ({"finalize", "ready"} \X (1 .. MaxExecutions)) = {}
    BY SupervisorAssumption
<1> QED BY <1>1, <1>2, <1>3, <1>4

(* What recording a transition does to the command.                          *)
LEMMA RecordEffect ==
    ASSUME TypeOK, NEW old, NEW new, NEW code, NEW known, Record(old, new, code, known)
    PROVE  /\ cmd'.previous = old /\ cmd'.sequence = cmd.sequence + 1
           /\ cmd'.code = code /\ cmd'.known = known
           /\ UNCHANGED <<cmd.registered, cmd.status, cmd.generation, cmd.attached, cmd.intentional>>
           /\ Draft(old, new, code, known).execution = cmd.generation
           /\ Draft(old, new, code, known).sequence = cmd'.sequence
           /\ Draft(old, new, code, known).old = old
           /\ Draft(old, new, code, known).new = new
           /\ Draft(old, new, code, known).code = code
           /\ Draft(old, new, code, known).known = known
<1>1. cmd \in Commands
    BY DEF TypeOK
<1> QED BY <1>1 DEF Record, Draft, Commands

LEMMA AnnounceRecordHistory ==
    ASSUME HInv, IInv, NEW g \in Executions, AnnounceRecord(g)
    PROVE  HInv'
<1> DEFINE started == StartStatus(run[g].kind)
           draft == Draft("OFFLINE", started, 0, FALSE)
<1>1. run \in [Executions -> Runs] /\ run[g] \in Runs /\ TypeOK /\ cmd \in Commands
    BY DEF IInv, TypeOK
<1>2. /\ run[g].pc = "announce" /\ run'[g].pc = "announcing" /\ run'[g].draft = draft
      /\ ~IsSuppressed(run[g].kind)
      /\ UNCHANGED <<run[g].kind, run[g].result, run[g].code, run[g].known, run[g].old,
                     run[g].closed, run[g].crash, run[g].ready>>
      /\ \A e \in Executions \ {g} : run'[e] = run[e]
    BY <1>1 DEF AnnounceRecord, Runs
<1>3. UNCHANGED <<execLock, starter, events>>
    BY DEF AnnounceRecord, locks, callers, seen
<1>4. Record("OFFLINE", started, 0, FALSE)
    BY DEF AnnounceRecord
<1>5. History(g) /\ cmd.generation = g /\ cmd.registered
    BY <1>2 DEF HInv, IInv, OwnerInv, Owning
<1>6. /\ cmd'.sequence = cmd.sequence + 1 /\ cmd'.known = FALSE
      /\ UNCHANGED <<cmd.registered, cmd.status, cmd.generation, cmd.attached, cmd.intentional>>
      /\ draft.execution = g /\ draft.sequence = cmd'.sequence
      /\ draft.old = "OFFLINE" /\ draft.new = started
    BY <1>1, <1>4, <1>5 DEF Record, Draft, Commands
<1>7. cmd.status = started
    BY <1>2, <1>5 DEF History, CommandOf
<1> HIDE DEF draft, started
<1>8. run[g].ready = "none" /\ ~Publishing(g)' /\ ~Pending(g) /\ Pending(g)'
      /\ ~Announced(g) /\ ~Announced(g)'
    BY <1>2, <1>5
       DEF History, RunOf, Publishing, Pending, Announced, Started, Finalizing, Ended
<1>9. LockOf(g)' /\ RunOf(g)'
    BY <1>2, <1>5, <1>8
       DEF History, LockOf, RunOf, Started, Finalizing, Ended, IsSuppressed
<1>10. CommandOf(g)' /\ DraftOf(g)'
    BY <1>2, <1>5, <1>6, <1>7, <1>8
       DEF History, CommandOf, DraftOf, Finalizing, Ended, started
<1>11. LogOf(g)' /\ EndOf(g)' /\ CrashOf(g)'
  <2>1. cmd.sequence = 0 /\ \A i \in DOMAIN events : events[i].execution < g
      BY <1>2, <1>5, <1>8 DEF History, LogOf, Ended
  <2> QED BY <1>2, <1>3, <1>5, <1>6, <1>8, <2>1
          DEF History, LogOf, EndOf, CrashOf, Finalizing, Ended
<1>12. HolderInv' /\ StatusInv'
  <2>1. \A s \in Starters : starter[s] # "setup"
      BY <1>2, <1>5 DEF IInv, StarterInv
  <2> QED BY <1>3, <1>5, <1>6, <2>1 DEF HInv, HolderInv, StatusInv
<1> QED BY <1>1, <1>2, <1>3, <1>5, <1>6, <1>8, <1>9, <1>10, <1>11, <1>12, SilentStep, EventOwners
       DEF IInv, History, Ended

LEMMA ReadyRecordHistory ==
    ASSUME HInv, IInv, NEW g \in Executions, ReadyRecord(g)
    PROVE  HInv'
<1> DEFINE draft == Draft("PRE_START", "ONLINE", 0, FALSE)
<1>1. run \in [Executions -> Runs] /\ run[g] \in Runs /\ TypeOK /\ cmd \in Commands
    BY DEF IInv, TypeOK
<1>2. /\ run[g].ready = "recording" /\ run'[g].ready = "publishing" /\ run'[g].draft = draft
      /\ UNCHANGED <<run[g].pc, run[g].kind, run[g].result, run[g].code, run[g].known,
                     run[g].old, run[g].closed, run[g].crash>>
      /\ \A e \in Executions \ {g} : run'[e] = run[e]
    BY <1>1 DEF ReadyRecord, Runs
<1>3. UNCHANGED <<execLock, starter, events>>
    BY DEF ReadyRecord, locks, callers, seen
<1>4. Record("PRE_START", "ONLINE", 0, FALSE)
    BY DEF ReadyRecord
<1>5. History(g) /\ cmd.generation = g /\ run[g].pc \in Started /\ cmd.status = "ONLINE"
    BY <1>2 DEF HInv, History, CommandOf, Publishing
<1>6. cmd.registered
    BY <1>5 DEF IInv, OwnerInv, Started, Owning
<1>7. /\ cmd'.sequence = cmd.sequence + 1 /\ cmd'.known = FALSE
      /\ UNCHANGED <<cmd.registered, cmd.status, cmd.generation, cmd.attached, cmd.intentional>>
      /\ draft.execution = g /\ draft.sequence = cmd'.sequence
      /\ draft.old = "PRE_START" /\ draft.new = "ONLINE"
    BY <1>1, <1>4, <1>5 DEF Record, Draft, Commands
<1> HIDE DEF draft
<1>8. run[g].pc \notin Finalizing \cup Ended \cup {"announcing", "publishing", "spawning", "announce", "none"}
    BY <1>5 DEF Started, Finalizing, Ended
<1>9. /\ Publishing(g) /\ Publishing(g)' /\ ~Pending(g) /\ Pending(g)'
      /\ Announced(g) /\ Announced(g)'
      /\ Shown(g)' = Shown(g)
    BY <1>2, <1>5, <1>8
       DEF History, RunOf, Publishing, Pending, Announced, Shown, IsSuppressed
<1>10. LockOf(g)' /\ RunOf(g)'
    BY <1>2, <1>3, <1>5, <1>8, <1>9 DEF History, LockOf, RunOf, IsSuppressed
<1>11. CommandOf(g)' /\ DraftOf(g)'
    BY <1>2, <1>5, <1>7, <1>8, <1>9 DEF History, CommandOf, DraftOf
<1>12. LogOf(g)' /\ EndOf(g)' /\ CrashOf(g)'
  <2>1. LogOf(g)'
      BY <1>3, <1>5, <1>7, <1>9 DEF History, LogOf, LastEvent
  <2>2. EndOf(g)'
      BY <1>2, <1>8 DEF EndOf
  <2>3. CrashOf(g)'
      BY <1>2, <1>5, <1>7, <1>8 DEF History, CrashOf
  <2> QED BY <2>1, <2>2, <2>3
<1>13. HolderInv' /\ StatusInv'
  <2>1. \A s \in Starters : starter[s] # "setup"
      BY <1>5, <1>8 DEF IInv, StarterInv
  <2> QED BY <1>3, <1>5, <1>7, <2>1 DEF HInv, HolderInv, StatusInv
<1> QED BY <1>1, <1>2, <1>3, <1>5, <1>6, <1>7, <1>8, <1>9, <1>10, <1>11, <1>12, <1>13, SilentStep,
           EventOwners DEF IInv, History

LEMMA FinalizeRecordHistory ==
    ASSUME HInv, IInv, NEW g \in Executions, FinalizeRecord(g)
    PROVE  HInv'
<1> DEFINE draft == Draft(run[g].old, "OFFLINE", run[g].code, run[g].known)
<1>1. run \in [Executions -> Runs] /\ run[g] \in Runs /\ TypeOK /\ cmd \in Commands
    BY DEF IInv, TypeOK
<1>2. /\ run[g].pc = "terminal" /\ run'[g].pc = "publishing" /\ run'[g].draft = draft
      /\ ~IsSuppressed(run[g].kind)
      /\ UNCHANGED <<run[g].ready, run[g].kind, run[g].result, run[g].code, run[g].known,
                     run[g].old, run[g].closed, run[g].crash>>
      /\ \A e \in Executions \ {g} : run'[e] = run[e]
    BY <1>1 DEF FinalizeRecord, Runs
<1>3. UNCHANGED <<execLock, starter, events>>
    BY DEF FinalizeRecord, locks, callers, seen
<1>4. Record(run[g].old, "OFFLINE", run[g].code, run[g].known)
    BY DEF FinalizeRecord
<1>5. History(g) /\ cmd.generation = g /\ cmd.status = "OFFLINE" /\ ~cmd.attached
    BY <1>2 DEF HInv, History, CommandOf, Finalizing
<1>6. cmd.registered
    BY <1>2 DEF HInv, OrderInv
<1>7. /\ cmd'.sequence = cmd.sequence + 1 /\ cmd'.known = run[g].known
      /\ cmd'.code = run[g].code /\ cmd'.previous = run[g].old
      /\ UNCHANGED <<cmd.registered, cmd.status, cmd.generation, cmd.attached, cmd.intentional>>
      /\ draft.execution = g /\ draft.sequence = cmd'.sequence
      /\ draft.old = run[g].old /\ draft.new = "OFFLINE"
      /\ draft.code = run[g].code /\ draft.known = run[g].known
    BY <1>1, <1>4, <1>5, RecordEffect
<1> HIDE DEF draft
<1>8. ~Publishing(g)
    BY <1>2, <1>5, OwnersDiffer DEF History, LockOf, Finalizing
<1>9. /\ ~Publishing(g)' /\ ~Pending(g) /\ Pending(g)'
      /\ Announced(g)' <=> Announced(g)
      /\ Shown(g)' = Shown(g)
    BY <1>2, <1>8
       DEF Publishing, Pending, Announced, Shown, Finalizing, Started, IsSuppressed
<1>10. LockOf(g)' /\ RunOf(g)'
    BY <1>2, <1>3, <1>5, <1>9
       DEF History, LockOf, RunOf, IsSuppressed, Started, Finalizing, Ended
<1>11. CommandOf(g)' /\ DraftOf(g)'
    BY <1>2, <1>5, <1>7, <1>9 DEF History, CommandOf, DraftOf, Finalizing, Ended, Publishing
<1>12. LogOf(g)'
  <2>1. run[g].pc \notin Ended
      BY <1>2 DEF Ended
  <2> QED BY <1>2, <1>3, <1>5, <1>7, <1>9, <2>1 DEF History, LogOf, LastEvent
<1>13. EndOf(g)' /\ CrashOf(g)'
    BY <1>2, <1>3, <1>5, <1>7 DEF History, EndOf, CrashOf, Finalizing, Ended
<1>14. HolderInv' /\ StatusInv'
  <2>1. \A s \in Starters : starter[s] # "setup"
      BY <1>2, <1>5 DEF IInv, StarterInv
  <2> QED BY <1>3, <1>5, <1>7, <2>1 DEF HInv, HolderInv, StatusInv
<1>15. run[g].pc \notin Ended /\ run'[g].pc \notin Ended
    BY <1>2 DEF Ended
<1> QED BY <1>1, <1>2, <1>3, <1>5, <1>6, <1>7, <1>9, <1>10, <1>11, <1>12, <1>13, <1>14, <1>15,
           SilentStep, EventOwners DEF IInv, History

LEMMA FinalizeOfflineHistory ==
    ASSUME HInv, IInv, NEW g \in Executions, FinalizeOffline(g)
    PROVE  HInv'
<1>1. run \in [Executions -> Runs] /\ run[g] \in Runs /\ TypeOK /\ cmd \in Commands
    BY DEF IInv, TypeOK
<1>2. /\ run[g].pc = "finalize" /\ cmd.generation = g /\ cmd.registered
      /\ cmd.status # "OFFLINE" /\ History(g)
    BY DEF HInv, IInv, OwnerInv, Owning, FinalizeOffline
<1>3. /\ run'[g].pc = "terminal" /\ run'[g].old = cmd.status
      /\ UNCHANGED <<run[g].ready, run[g].kind, run[g].result, run[g].code, run[g].known,
                     run[g].draft, run[g].closed, run[g].crash>>
      /\ \A e \in Executions \ {g} : run'[e] = run[e]
    BY <1>1, <1>2 DEF FinalizeOffline, Runs
<1>4. /\ execLock = Free /\ execLock' = <<"finalize", g>>
      /\ cmd'.status = "OFFLINE" /\ ~cmd'.attached
      /\ UNCHANGED <<cmd.registered, cmd.generation, cmd.known, cmd.sequence, cmd.intentional,
                     cmd.code, cmd.previous, starter, events>>
    BY <1>1, <1>2 DEF FinalizeOffline, Commands, callers, seen
<1>5. \A s \in Starters : starter[s] \notin {"setup", "locked"}
    BY <1>2, <1>4, OwnersDiffer DEF HInv, HolderInv, IInv, StarterInv
<1>6. HolderInv' /\ StatusInv'
    BY <1>2, <1>4, <1>5 DEF HInv, HolderInv, StatusInv
<1>7. cmd.status \in Opening
    BY <1>2 DEF HInv, StatusInv
<1>8. ~Publishing(g)
    BY <1>2, <1>4, OwnersDiffer DEF History, LockOf
<1>9. /\ ~Publishing(g)' /\ ~Pending(g) /\ ~Pending(g)'
      /\ Announced(g)' <=> Announced(g)
      /\ Shown(g)' = Shown(g)
    BY <1>2, <1>3, <1>8
       DEF Publishing, Pending, Announced, Shown, Finalizing, Started, IsSuppressed
<1>10. LockOf(g)' /\ RunOf(g)'
    BY <1>2, <1>3, <1>4, <1>9
       DEF History, LockOf, RunOf, IsSuppressed, Started, Finalizing, Ended
<1>11. CommandOf(g)' /\ DraftOf(g)'
    BY <1>2, <1>3, <1>4, <1>7, <1>9 DEF History, CommandOf, DraftOf, Finalizing, Ended
<1>12. LogOf(g)'
  <2>1. run[g].pc \notin Ended
      BY <1>2 DEF Ended
  <2> QED BY <1>2, <1>3, <1>4, <1>9, <2>1 DEF History, LogOf, LastEvent
<1>13. EndOf(g)' /\ CrashOf(g)'
    BY <1>2, <1>3, <1>4 DEF History, EndOf, CrashOf, Finalizing, Ended
<1>14. run[g].pc \notin Ended /\ run'[g].pc \notin Ended
    BY <1>2, <1>3 DEF Ended
<1> QED BY <1>1, <1>2, <1>3, <1>4, <1>6, <1>9, <1>10, <1>11, <1>12, <1>13, <1>14,
           SilentStep, EventOwners DEF IInv, History

LEMMA FinalizeNothingHistory ==
    ASSUME HInv, IInv, NEW g \in Executions, FinalizeNothing(g)
    PROVE  HInv'
<1>1. run \in [Executions -> Runs] /\ run[g] \in Runs /\ TypeOK
    BY DEF IInv, TypeOK
<1>2. /\ run[g].pc = "terminal" /\ run'[g].pc = "closing" /\ IsSuppressed(run[g].kind)
      /\ UNCHANGED <<run[g].ready, run[g].kind, run[g].result, run[g].code, run[g].known,
                     run[g].old, run[g].draft, run[g].closed, run[g].crash>>
      /\ \A e \in Executions \ {g} : run'[e] = run[e]
    BY <1>1 DEF FinalizeNothing, Runs
<1>3. UNCHANGED <<cmd, starter, events>> /\ execLock' = Free
    BY DEF FinalizeNothing, callers, seen
<1>4. History(g) /\ cmd.generation = g /\ cmd.status = "OFFLINE" /\ ~cmd.attached /\ ~cmd.known
    BY <1>2 DEF HInv, History, CommandOf, Finalizing, Ended
<1>5. cmd.registered /\ execLock = <<"finalize", g>>
    BY <1>2, <1>4 DEF HInv, OrderInv, History, LockOf, Finalizing
<1>6. \A s \in Starters : starter[s] # "setup"
    BY <1>2, <1>4 DEF IInv, StarterInv
<1>7. HolderInv' /\ StatusInv'
    BY <1>2, <1>3, <1>4, <1>5, <1>6, OwnersDiffer DEF HInv, HolderInv, StatusInv
<1>8. ~Publishing(g)
    BY <1>4, <1>5, OwnersDiffer DEF History, LockOf
<1>9. ~Publishing(g)' /\ ~Pending(g)' /\ ~Announced(g) /\ ~Announced(g)'
    BY <1>2, <1>8 DEF Publishing, Pending, Announced, IsSuppressed
<1>10. LockOf(g)' /\ RunOf(g)'
    BY <1>2, <1>3, <1>4, <1>9
       DEF History, LockOf, RunOf, IsSuppressed, Started, Finalizing, Ended
<1>11. CommandOf(g)' /\ DraftOf(g)'
    BY <1>2, <1>3, <1>4, <1>9 DEF History, CommandOf, DraftOf, Finalizing, Ended
<1>12. LogOf(g)' /\ EndOf(g)' /\ CrashOf(g)'
    BY <1>2, <1>3, <1>4, <1>9
       DEF History, LogOf, EndOf, CrashOf, Finalizing, Ended, IsSuppressed
<1>13. run[g].pc \notin Ended
    BY <1>2 DEF Ended
<1> QED BY <1>1, <1>2, <1>3, <1>4, <1>5, <1>7, <1>9, <1>10, <1>11, <1>12, <1>13,
           SilentStep, EventOwners DEF IInv, History

(* Readiness takes executionMutex from PRE_START.                            *)
LEMMA MarkReadyHistory ==
    ASSUME HInv, IInv, NEW g \in Executions, MarkReady(g),
           cmd.generation = g, cmd.status = "PRE_START"
    PROVE  HInv'
<1>1. run \in [Executions -> Runs] /\ run[g] \in Runs /\ TypeOK /\ cmd \in Commands
    BY DEF IInv, TypeOK
<1>2. /\ run[g].ready = "waiting" /\ run'[g].ready = "recording"
      /\ UNCHANGED <<run[g].pc, run[g].kind, run[g].result, run[g].code, run[g].known,
                     run[g].old, run[g].draft, run[g].closed, run[g].crash>>
      /\ \A e \in Executions \ {g} : run'[e] = run[e]
    BY <1>1 DEF MarkReady, Runs
<1>3. /\ execLock = Free /\ execLock' = <<"ready", g>> /\ cmd'.status = "ONLINE"
      /\ UNCHANGED <<cmd.registered, cmd.generation, cmd.known, cmd.sequence, cmd.intentional,
                     cmd.code, cmd.previous, cmd.attached, starter, events>>
    BY <1>1 DEF MarkReady, Commands, callers, seen
<1>4. History(g)
    BY DEF HInv
<1>5. run[g].result = "ok" /\ run[g].kind = "readiness" /\ run[g].pc \in Started
    BY <1>2, <1>4 DEF History, RunOf, CommandOf
<1>6. cmd.registered
    BY <1>5 DEF IInv, OwnerInv, Owning, Started
<1>7. run[g].pc \notin Finalizing \cup Ended \cup {"announcing", "publishing", "spawning", "announce", "none"}
    BY <1>5 DEF Started, Finalizing, Ended
<1>8. \A s \in Starters : starter[s] \notin {"setup", "locked"}
    BY <1>3, <1>7, OwnersDiffer DEF HInv, HolderInv, IInv, StarterInv
<1>9. HolderInv' /\ StatusInv'
    BY <1>3, <1>8 DEF HInv, HolderInv, StatusInv, Opening
<1>10. /\ ~Pending(g) /\ ~Pending(g)' /\ ~Publishing(g) /\ Publishing(g)'
       /\ Announced(g) /\ Announced(g)'
       /\ Shown(g)' = Shown(g)
    BY <1>2, <1>5, <1>7
       DEF Publishing, Pending, Announced, Shown, IsSuppressed
<1>11. LockOf(g)' /\ RunOf(g)'
    BY <1>2, <1>3, <1>4, <1>5, <1>7 DEF History, LockOf, RunOf, IsSuppressed
<1>12. CommandOf(g)' /\ DraftOf(g)'
    BY <1>2, <1>3, <1>4, <1>5, <1>7, <1>10 DEF History, CommandOf, DraftOf
<1>13. LogOf(g)' /\ EndOf(g)'
    BY <1>2, <1>3, <1>4, <1>7, <1>10 DEF History, LogOf, LastEvent, EndOf
<1>14. CrashOf(g)'
    BY <1>2, <1>3, <1>4, <1>7 DEF History, CrashOf, Running
<1> QED BY <1>1, <1>2, <1>3, <1>4, <1>6, <1>7, <1>9, <1>10, <1>11, <1>12, <1>13, <1>14,
           SilentStep, EventOwners DEF IInv, History

(* The waiters of an execution that has ended are released; it may be an old *)
(* one by now.                                                               *)
LEMMA CloseExecutionHistory ==
    ASSUME HInv, IInv, NEW g \in Executions, CloseExecution(g)
    PROVE  HInv'
<1>1. run \in [Executions -> Runs] /\ run[g] \in Runs /\ TypeOK
    BY DEF IInv, TypeOK
<1>2. /\ run[g].pc = "closing" /\ run'[g].pc = "done" /\ run'[g].closed
      /\ UNCHANGED <<run[g].ready, run[g].kind, run[g].result, run[g].code, run[g].known,
                     run[g].old, run[g].draft, run[g].crash>>
      /\ \A e \in Executions \ {g} : run'[e] = run[e]
    BY <1>1 DEF CloseExecution, Runs
<1>3. UNCHANGED <<cmd, execLock, starter, events>>
    BY DEF CloseExecution, locks, callers, seen
<1>4. History(g) /\ \A i \in DOMAIN events : events[i].execution \in Executions
    BY <1>1, EventOwners DEF HInv
<1>5. /\ ~Publishing(g) /\ ~Publishing(g)' /\ ~Pending(g) /\ ~Pending(g)'
      /\ ~Announced(g) /\ ~Announced(g)'
    BY <1>2, <1>4
       DEF History, CommandOf, Publishing, Pending, Announced, Started, Finalizing
<1>6. LockOf(g)' /\ RunOf(g)'
    BY <1>2, <1>3, <1>4, <1>5 DEF History, LockOf, RunOf, Started, Finalizing, Ended, IsSuppressed
<1>7. CommandOf(g)' /\ DraftOf(g)'
    BY <1>2, <1>3, <1>4, <1>5 DEF History, CommandOf, DraftOf, Finalizing, Ended
<1>8. LogOf(g)' /\ EndOf(g)' /\ CrashOf(g)'
    BY <1>2, <1>3, <1>4, <1>5
       DEF History, LogOf, EndOf, CrashOf, Finalizing, Ended, IsSuppressed
<1>9. ASSUME NEW e \in Executions \ {g} PROVE History(e)'
  <2>1. History(e) /\ run'[e] = run[e]
      BY <1>2 DEF HInv
  <2> QED BY <1>3, <2>1
          DEF History, LockOf, RunOf, CommandOf, DraftOf, LogOf, EndOf, CrashOf, LastEvent,
              Announced, Pending, Publishing, Shown
<1>10. \A e \in Executions : History(e)'
    BY <1>6, <1>7, <1>8, <1>9 DEF History
<1>11. OrderInv'
  <2>1. \A e \in Executions : run'[e].pc = "none" <=> run[e].pc = "none"
      BY <1>2
  <2> QED BY <1>3, <2>1 DEF HInv, OrderInv
<1>12. HolderInv' /\ StatusInv'
  <2>1. \A s \in Starters : starter[s] = "setup" => run'[cmd.generation].kind = run[cmd.generation].kind
      BY <1>2 DEF IInv, StarterInv
  <2> QED BY <1>3, <2>1 DEF HInv, HolderInv, StatusInv
<1>13. TopInv' /\ EndsInv'
  <2>1. EndsInv'
      BY <1>2, <1>3, <1>4 DEF HInv, EndsInv, Ended
  <2>2. TopInv'
    <3>1. events' = events
        BY <1>3
    <3>2. SUFFICES ASSUME events # <<>>, LastEvent.new # "OFFLINE"
                   PROVE  Announced(LastEvent.execution)'
        BY <3>1 DEF TopInv, LastEvent
    <3>3. Announced(LastEvent.execution)
        BY <3>2 DEF HInv, TopInv
    <3>4. LastEvent.execution # g
        BY <3>3, <1>5
    <3>5. Len(events) \in DOMAIN events
        BY <1>1, <3>2 DEF TypeOK
    <3>6. run'[LastEvent.execution] = run[LastEvent.execution]
        BY <1>2, <1>4, <3>4, <3>5 DEF LastEvent
    <3> QED BY <3>1, <3>3, <3>6 DEF LastEvent, Announced
  <2> QED BY <2>1, <2>2
<1>14. RetainedLifecycleIsTheLastEvent'
    BY <1>2, <1>3 DEF HInv, RetainedLifecycleIsTheLastEvent, IsSuppressed
<1>15. CrashAgreesWithEvent'
    BY <1>2, <1>3, <1>4 DEF HInv, CrashAgreesWithEvent
<1> QED BY <1>10, <1>11, <1>12, <1>13, <1>14, <1>15 DEF HInv

-----------------------------------------------------------------------------
(* Steps the history does not depend on.                                     *)

LEMMA QuietRunStep ==
    ASSUME HInv, IInv, NEW g \in Executions,
           \/ ProcessExits(g) \/ AbandonReadiness(g)
           \/ MarkReady(g) /\ ~(cmd.generation = g /\ cmd.status = "PRE_START")
    PROVE  HInv'
<1>1. run \in [Executions -> Runs] /\ run[g] \in Runs /\ TypeOK
    BY DEF IInv, TypeOK
<1>2. UNCHANGED <<cmd, execLock, starter, events>>
    BY DEF ProcessExits, AbandonReadiness, MarkReady, locks, callers, seen
<1>3. \A e \in Executions : Kept(e)
    BY <1>1 DEF ProcessExits, AbandonReadiness, MarkReady, Kept, Runs
<1>4. HolderInv'
    BY <1>2 DEF HInv, HolderInv
<1>5. cmd.generation \in Executions \/ \A s \in Starters : starter[s] # "setup"
    BY DEF IInv, StarterInv
<1> QED BY <1>1, <1>2, <1>3, <1>4, <1>5, QuietStep, EventOwners

LEMMA QuietStartStep ==
    ASSUME HInv, IInv, NEW s \in Starters,
           \/ BeginStart(s) \/ LookupKnown(s) \/ LockExecution(s) \/ RefuseStart(s)
           \/ FinishStart(s)
    PROVE  HInv'
<1>1. starter \in [Starters -> {"idle", "lookup", "found", "locked", "setup", "starting"}] /\ TypeOK
    BY DEF IInv, TypeOK
<1>2. UNCHANGED <<cmd, run, events>>
    BY DEF BeginStart, LookupKnown, LockExecution, RefuseStart, FinishStart, seen
<1>3. /\ \A t \in Starters \ {s} : starter'[t] = starter[t]
      /\ starter'[s] \in {"idle", "lookup", "found", "locked"}
      /\ starter'[s] = "locked" => execLock = Free /\ execLock' = s
      /\ \/ execLock' = execLock
         \/ execLock = Free
         \/ execLock = s /\ execLock' = Free
    BY <1>1
       DEF BeginStart, LookupKnown, LockExecution, RefuseStart, FinishStart, ReleaseStart, locks
<1>4. execLock = Free => \A t \in Starters : starter[t] # "locked"
    BY SupervisorAssumption DEF HInv, HolderInv
<1>5. HolderInv'
    BY <1>3, <1>4 DEF HInv, HolderInv
<1>6. execLock' = execLock \/ \A e \in Executions : execLock \notin {<<"finalize", e>>, <<"ready", e>>}
    BY <1>3, OwnersDiffer
<1>7. cmd.generation \in Executions \/ \A t \in Starters : starter[t] # "setup"
    BY DEF IInv, StarterInv
<1>8. \A t \in Starters : starter'[t] = "setup" => starter[t] = "setup"
    BY <1>3
<1>9. \A e \in Executions : Kept(e)
    BY <1>2 DEF Kept
<1> QED BY <1>1, <1>2, <1>5, <1>6, <1>7, <1>8, <1>9, QuietStep, EventOwners

LEMMA QuietStopStep ==
    ASSUME HInv, IInv, NEW p \in Stoppers, StopStep(p)
    PROVE  HInv'
<1>1. run \in [Executions -> Runs] /\ cmd \in Commands /\ TypeOK
    BY DEF IInv, TypeOK
<1>2. UNCHANGED <<execLock, starter, events>>
    BY DEF StopStep, BeginStop, LockStop, MarkIntentional, CaptureTarget, NothingToStop,
           StopFinished, StopTimesOut, locks, seen
<1>3. cmd' = cmd \/ cmd' = [cmd EXCEPT !.intentional = TRUE]
    BY DEF StopStep, BeginStop, LockStop, MarkIntentional, CaptureTarget, NothingToStop,
           StopFinished, StopTimesOut
<1>4. /\ UNCHANGED <<cmd.registered, cmd.status, cmd.generation, cmd.attached, cmd.previous,
                     cmd.sequence, cmd.code, cmd.known>>
      /\ cmd.intentional => cmd'.intentional
    BY <1>1, <1>3 DEF Commands
<1>5. \/ UNCHANGED run
      \/ run' = [run EXCEPT ![cmd.generation].asked = TRUE]
      \/ run' = [run EXCEPT ![stopper[p].execution].cancelled = TRUE]
    BY DEF StopStep, BeginStop, LockStop, MarkIntentional, CaptureTarget, NothingToStop,
           StopFinished, StopTimesOut
<1>6. \A e \in Executions : Kept(e)
    BY <1>1, <1>5 DEF Kept, Runs
<1>7. HolderInv'
    BY <1>2 DEF HInv, HolderInv
<1>8. cmd.generation \in Executions \/ \A s \in Starters : starter[s] # "setup"
    BY DEF IInv, StarterInv
<1> QED BY <1>1, <1>2, <1>4, <1>6, <1>7, <1>8, QuietStep, EventOwners

LEMMA QuietOtherStep ==
    ASSUME HInv, IInv,
           (\E r \in Readers : ReadLifecycle(r) \/ ReadStatus(r)) \/ ShutDown \/ UNCHANGED vars
    PROVE  HInv'
<1>1. UNCHANGED <<cmd, execLock, starter, run, events>>
    BY DEF ReadLifecycle, ReadStatus, ShutDown, vars, locks, callers, seen
<1>2. HolderInv'
    BY <1>1 DEF HInv, HolderInv
<1>3. cmd.generation \in Executions \/ \A s \in Starters : starter[s] # "setup"
    BY DEF IInv, StarterInv
<1>4. \A e \in Executions : Kept(e)
    BY <1>1 DEF Kept
<1>5. TypeOK
    BY DEF IInv
<1> QED BY <1>1, <1>2, <1>3, <1>4, <1>5, QuietStep, EventOwners

-----------------------------------------------------------------------------
(* Opening an execution.                                                     *)

(* Nothing has happened yet.                                                 *)
LEMMA BlankStep ==
    ASSUME events' = <<>>, cmd'.generation = 0, ~cmd'.known, cmd'.status = "OFFLINE",
           \A e \in Executions : /\ run'[e].pc = "none" /\ run'[e].ready = "none"
                                 /\ run'[e].result = "none" /\ run'[e].crash = 0
                                 /\ ~run'[e].closed,
           HolderInv', \A s \in Starters : starter'[s] # "setup"
    PROVE  HInv'
<1>1. OrderInv' /\ StatusInv'
    BY DEF OrderInv, StatusInv
<1>2. ASSUME NEW e \in Executions PROVE History(e)'
  <2>1. ~Publishing(e)' /\ ~Pending(e)' /\ ~Announced(e)' /\ cmd'.generation # e
      BY SupervisorAssumption
         DEF Publishing, Pending, Announced, Started, Finalizing, Executions
  <2>2. LockOf(e)' /\ RunOf(e)' /\ CommandOf(e)'
      BY <2>1 DEF LockOf, RunOf, CommandOf, Finalizing
  <2>3. DraftOf(e)' /\ LogOf(e)' /\ EndOf(e)' /\ CrashOf(e)'
      BY <2>1 DEF DraftOf, LogOf, EndOf, CrashOf, Ended
  <2> QED BY <2>2, <2>3 DEF History
<1>3. TopInv' /\ EndsInv'
    BY DEF TopInv, EndsInv
<1>4. RetainedLifecycleIsTheLastEvent' /\ CrashAgreesWithEvent'
    BY DEF RetainedLifecycleIsTheLastEvent, CrashAgreesWithEvent
<1> QED BY <1>1, <1>2, <1>3, <1>4 DEF HInv

(* The executions of a command nobody has registered.                        *)
LEMMA Unused ==
    ASSUME HInv, NEW e \in Executions, run[e].pc = "none"
    PROVE  /\ run[e].ready = "none" /\ run[e].result = "none" /\ run[e].crash = 0
           /\ ~run[e].closed /\ ~Active(e) /\ ~Announced(e) /\ ~Pending(e)
<1>1. RunOf(e) /\ CrashOf(e)
    BY DEF HInv, History
<1> QED BY <1>1
       DEF RunOf, CrashOf, Active, Owning, Announced, Pending, Publishing, Started, Finalizing, Ended

LEMMA InitHInv == Init => HInv
<1> SUFFICES ASSUME Init PROVE HInv
    OBVIOUS
<1>1. /\ events = <<>> /\ cmd.generation = 0 /\ ~cmd.known /\ cmd.status = "OFFLINE"
      /\ \A s \in Starters : starter[s] = "idle"
      /\ \A e \in Executions : /\ run[e].pc = "none" /\ run[e].ready = "none"
                               /\ run[e].result = "none" /\ run[e].crash = 0
                               /\ ~run[e].closed
    BY DEF Init, Unregistered, NoRun
<1>2. OrderInv /\ HolderInv /\ StatusInv
    BY <1>1 DEF OrderInv, HolderInv, StatusInv
<1>3. ASSUME NEW e \in Executions PROVE History(e)
  <2>1. ~Publishing(e) /\ ~Pending(e) /\ ~Announced(e) /\ cmd.generation # e
      BY <1>1, SupervisorAssumption
         DEF Publishing, Pending, Announced, Started, Finalizing, Executions
  <2>2. LockOf(e) /\ RunOf(e) /\ CommandOf(e)
      BY <1>1, <2>1 DEF LockOf, RunOf, CommandOf, Finalizing
  <2>3. DraftOf(e) /\ LogOf(e) /\ EndOf(e) /\ CrashOf(e)
      BY <1>1, <2>1 DEF DraftOf, LogOf, EndOf, CrashOf, Ended
  <2> QED BY <2>2, <2>3 DEF History
<1>4. TopInv /\ EndsInv
    BY <1>1 DEF TopInv, EndsInv
<1>5. RetainedLifecycleIsTheLastEvent /\ CrashAgreesWithEvent
    BY <1>1 DEF RetainedLifecycleIsTheLastEvent, CrashAgreesWithEvent
<1> QED BY <1>2, <1>3, <1>4, <1>5 DEF HInv

LEMMA CreateShellHistory ==
    ASSUME HInv, IInv, CreateShell
    PROVE  HInv'
<1>1. /\ UNCHANGED <<run, starter, events>> /\ ~cmd.registered /\ instLock = Free
      /\ cmd'.generation = 0 /\ ~cmd'.known /\ cmd'.status = "OFFLINE"
    BY DEF CreateShell, Unregistered, callers, seen
<1>2. events = <<>> /\ \A e \in Executions : run[e].pc = "none"
    BY <1>1 DEF HInv, OrderInv
<1>3. \A e \in Executions : /\ run[e].pc = "none" /\ run[e].ready = "none"
                            /\ run[e].result = "none" /\ run[e].crash = 0
                            /\ ~run[e].closed
    BY <1>2, Unused
<1>4. \A s \in Starters : starter[s] # "setup"
    BY <1>1, SupervisorAssumption DEF IInv, LockInv
<1>5. HolderInv'
    BY <1>1 DEF HInv, HolderInv, CreateShell, locks
<1> QED BY <1>1, <1>2, <1>3, <1>4, <1>5, BlankStep

(* A start opens an execution while nobody writes to the command.            *)
LEMMA OpenStep ==
    ASSUME HInv, IInv, cmd.generation < MaxExecutions, NEW kind \in Kinds, OpenExecution(kind),
           UNCHANGED events, HolderInv',
           \A e \in Executions : ~Active(e)
    PROVE  HInv'
<1> DEFINE G == cmd.generation + 1
<1>1. run \in [Executions -> Runs] /\ cmd \in Commands /\ TypeOK /\ kind \in AllKinds
    BY SupervisorAssumption DEF IInv, TypeOK
<1>2. cmd.generation \in Nat /\ G \in Executions
    BY <1>1, SupervisorAssumption DEF Commands, Executions
<1>3. /\ cmd'.generation = G /\ cmd'.status = StartStatus(kind) /\ cmd'.sequence = 0
      /\ cmd'.registered = cmd.registered /\ ~cmd'.known
    BY <1>1 DEF OpenExecution, Commands
<1>4. /\ run'[G].pc = "none" /\ run'[G].ready = "none" /\ run'[G].result = "none"
      /\ run'[G].crash = 0 /\ ~run'[G].closed /\ run'[G].kind = kind
      /\ \A e \in Executions \ {G} : run'[e] = run[e]
    BY <1>1, <1>2 DEF OpenExecution, NoRun
<1> HIDE DEF G
<1>5. G > cmd.generation
    BY <1>2 DEF G
<1>6. \A i \in DOMAIN events : events[i].execution \in Executions \ {G} /\ events[i].execution < G
    BY <1>1, <1>2, <1>5, EventOwners DEF HInv, OrderInv, Executions
<1>7. OrderInv'
  <2>1. \A e \in Executions : e > G => run'[e].pc = "none"
      BY <1>2, <1>4, <1>5 DEF HInv, OrderInv, Executions
  <2>2. ~cmd.registered => events = <<>> /\ \A e \in Executions : run'[e].pc = "none"
      BY <1>4 DEF HInv, OrderInv
  <2>3. \A i \in DOMAIN events : events[i].execution \in 1 .. G
      BY <1>2, <1>6 DEF Executions
  <2> QED BY <1>3, <2>1, <2>2, <2>3 DEF OrderInv
<1>8. StatusInv'
    BY <1>1, <1>3, <1>4, StartStatusOpens DEF StatusInv
<1>9. ASSUME NEW e \in Executions PROVE History(e)'
  <2>1. CASE e = G
    <3>1. (~Publishing(e) /\ ~Pending(e) /\ ~Announced(e))'
        BY <1>4, <2>1 DEF Publishing, Pending, Announced, Started, Finalizing
    <3>2. LockOf(e)' /\ RunOf(e)' /\ CommandOf(e)'
        BY <1>3, <1>4, <2>1, <3>1 DEF LockOf, RunOf, CommandOf, Finalizing, Ended
    <3>3. DraftOf(e)' /\ LogOf(e)' /\ EndOf(e)' /\ CrashOf(e)'
        BY <1>3, <1>4, <1>6, <2>1, <3>1 DEF DraftOf, LogOf, EndOf, CrashOf, Ended
    <3> QED BY <3>2, <3>3 DEF History
  <2>2. CASE e # G
      BY <1>3, <1>4, <2>2, Elsewhere DEF HInv
  <2> QED BY <2>1, <2>2
<1>10. EndsInv' /\ CrashAgreesWithEvent'
    BY <1>4, <1>6 DEF HInv, EndsInv, CrashAgreesWithEvent
<1>11. RetainedLifecycleIsTheLastEvent'
    BY <1>3, <1>4 DEF RetainedLifecycleIsTheLastEvent
<1>12. TopInv'
  <2>1. SUFFICES ASSUME events # <<>>, LastEvent.new # "OFFLINE"
                 PROVE  Announced(LastEvent.execution)'
      BY DEF TopInv, LastEvent
  <2>2. Announced(LastEvent.execution)
      BY <2>1 DEF HInv, TopInv
  <2>3. Len(events) \in DOMAIN events
      BY <1>1, <2>1 DEF TypeOK
  <2>4. run'[LastEvent.execution] = run[LastEvent.execution]
      BY <1>4, <1>6, <2>3 DEF LastEvent
  <2> QED BY <2>2, <2>4 DEF LastEvent, Announced
<1> QED BY <1>7, <1>8, <1>9, <1>10, <1>11, <1>12 DEF HInv

LEMMA LookupNewHistory ==
    ASSUME HInv, IInv, NEW s \in Starters, LookupNew(s)
    PROVE  HInv'
<1>1. PICK kind \in Kinds : OpenExecution(kind)
    BY DEF LookupNew
<1>2. cmd.generation < MaxExecutions
    BY DEF IInv, StarterInv, LookupNew
<1>3. \A e \in Executions : ~Active(e)
    BY Unused DEF HInv, OrderInv, LookupNew
<1>4. HolderInv'
    BY DEF HInv, HolderInv, LookupNew, IInv, TypeOK
<1>5. UNCHANGED events
    BY DEF LookupNew, seen
<1> QED BY <1>1, <1>2, <1>3, <1>4, <1>5, OpenStep

LEMMA PrepareKnownHistory ==
    ASSUME HInv, IInv, NEW s \in Starters, PrepareKnown(s)
    PROVE  HInv'
<1>1. PICK kind \in Kinds : OpenExecution(kind)
    BY DEF PrepareKnown
<1>2. cmd.generation < MaxExecutions
    BY DEF IInv, StarterInv, PrepareKnown
<1>3. execLock = s /\ ~Busy
    BY DEF HInv, HolderInv, PrepareKnown
<1>4. ASSUME NEW e \in Executions PROVE ~Active(e)
  <2>1. run[e].pc \notin Owning
      BY <1>3 DEF IInv, OwnerInv, Busy
  <2>2. LockOf(e)
      BY DEF HInv, History
  <2> QED BY <1>3, <2>1, <2>2, OwnersDiffer DEF LockOf, Active
<1>5. HolderInv'
    BY DEF HInv, HolderInv, PrepareKnown, IInv, TypeOK
<1>6. UNCHANGED events
    BY DEF PrepareKnown, seen
<1> QED BY <1>1, <1>2, <1>4, <1>5, <1>6, OpenStep

(* The start call that prepares an execution is the only start call there is. *)
LEMMA Preparing ==
    ASSUME HInv, IInv, NEW s \in Starters, starter[s] = "setup"
    PROVE  /\ cmd.generation \in Executions /\ run[cmd.generation].pc = "none"
           /\ cmd.status = StartStatus(run[cmd.generation].kind)
           /\ ~cmd.known
           /\ \A t \in Starters \ {s} : starter[t] = "idle"
           /\ \A e \in Executions : ~Active(e)
<1>1. cmd.generation \in Executions /\ run[cmd.generation].pc = "none"
    BY DEF IInv, StarterInv
<1>2. cmd.status = StartStatus(run[cmd.generation].kind)
    BY DEF HInv, StatusInv
<1>3. ~cmd.known
    BY <1>1 DEF HInv, History, CommandOf, Ended
<1>4. \A t \in Starters \ {s} : starter[t] = "idle"
    BY DEF IInv, LockInv
<1>5. ASSUME NEW e \in Executions PROVE ~Active(e)
  <2>1. Active(e) => cmd.generation = e
      BY ActiveIsCurrent DEF IInv, HInv, History
  <2> QED BY <1>1, <2>1, Unused
<1> QED BY <1>1, <1>2, <1>3, <1>4, <1>5

LEMMA SetupSucceedsHistory ==
    ASSUME HInv, IInv, NEW s \in Starters, SetupSucceeds(s)
    PROVE  HInv'
<1>1. PICK g \in Executions : cmd.generation = g
    BY Preparing DEF SetupSucceeds
<1>2. run \in [Executions -> Runs] /\ run[g] \in Runs /\ TypeOK /\ cmd \in Commands
    BY DEF IInv, TypeOK
<1>3. /\ run[g].pc = "none" /\ cmd.status = StartStatus(run[g].kind) /\ ~cmd.known
      /\ \A t \in Starters \ {s} : starter[t] = "idle"
      /\ History(g)
    BY <1>1, Preparing DEF SetupSucceeds, HInv
<1>4. /\ run'[g].pc = "spawning"
      /\ UNCHANGED <<run[g].kind, run[g].result, run[g].code, run[g].known, run[g].old,
                     run[g].closed, run[g].crash, run[g].ready, run[g].draft>>
      /\ \A e \in Executions \ {g} : run'[e] = run[e]
    BY <1>1, <1>2 DEF SetupSucceeds, Runs
<1>5. /\ cmd'.registered
      /\ UNCHANGED <<cmd.generation, cmd.status, cmd.known, cmd.sequence, cmd.code>>
      /\ UNCHANGED events
    BY <1>2 DEF SetupSucceeds, Commands, seen
<1>6. \A t \in Starters : starter'[t] \in {"idle", "starting"}
    BY <1>3 DEF SetupSucceeds, IInv, TypeOK
<1>7. HolderInv' /\ StatusInv'
  <2>1. HolderInv'
      BY <1>6 DEF HolderInv
  <2>2. \A t \in Starters : starter'[t] # "setup"
      BY <1>6
  <2> QED BY <1>1, <1>5, <2>1, <2>2 DEF HInv, StatusInv
<1>8. /\ run[g].ready = "none" /\ run[g].result = "none" /\ run[g].crash = 0 /\ ~run[g].closed
      /\ ~Announced(g) /\ ~Pending(g)
    BY <1>3, Unused
<1>9. ~Publishing(g)' /\ ~Pending(g)' /\ ~Announced(g)'
    BY <1>4, <1>8 DEF Publishing, Pending, Announced
<1>10. LockOf(g)' /\ RunOf(g)'
    BY <1>4, <1>8, <1>9 DEF LockOf, RunOf, Finalizing
<1>11. CommandOf(g)' /\ DraftOf(g)'
    BY <1>3, <1>4, <1>5, <1>8, <1>9 DEF CommandOf, DraftOf, Finalizing, Ended
<1>12. LogOf(g)' /\ EndOf(g)' /\ CrashOf(g)'
    BY <1>3, <1>4, <1>5, <1>8, <1>9 DEF History, LogOf, EndOf, CrashOf, Ended
<1>13. run[g].pc \notin Ended /\ run'[g].pc \notin Ended
    BY <1>3, <1>4 DEF Ended
<1> QED BY <1>1, <1>2, <1>4, <1>5, <1>7, <1>8, <1>10, <1>11, <1>12, <1>13, SilentStep,
           EventOwners DEF IInv, History

LEMMA SetupFailsHistory ==
    ASSUME HInv, IInv, NEW s \in Starters, SetupFails(s)
    PROVE  HInv'
<1>1. PICK g \in Executions : cmd.generation = g
    BY Preparing DEF SetupFails
<1>2. run \in [Executions -> Runs] /\ run[g] \in Runs /\ TypeOK /\ cmd \in Commands
    BY DEF IInv, TypeOK
<1>3. /\ run[g].pc = "none" /\ ~cmd.known
      /\ \A t \in Starters \ {s} : starter[t] = "idle"
      /\ \A e \in Executions : ~Active(e)
      /\ History(g)
    BY <1>1, Preparing DEF SetupFails, HInv
<1>4. \A t \in Starters : starter'[t] = "idle"
    BY <1>3 DEF SetupFails, ReleaseStart, IInv, TypeOK
<1>5. HolderInv' /\ \A t \in Starters : starter'[t] # "setup"
    BY <1>4 DEF HolderInv
<1>6. UNCHANGED events
    BY DEF SetupFails, seen
<1>7. CASE ~cmd.registered
  <2>1. events = <<>> /\ \A e \in Executions : run[e].pc = "none"
      BY <1>7 DEF HInv, OrderInv
  <2>2. cmd' = Unregistered /\ run' = [run EXCEPT ![g] = NoRun]
      BY <1>1, <1>7 DEF SetupFails
  <2>3. \A e \in Executions : /\ run'[e].pc = "none" /\ run'[e].ready = "none"
                              /\ run'[e].result = "none" /\ run'[e].crash = 0
                              /\ ~run'[e].closed
      BY <1>2, <2>1, <2>2, Unused DEF NoRun
  <2>4. cmd'.generation = 0 /\ ~cmd'.known /\ cmd'.status = "OFFLINE"
      BY <2>2 DEF Unregistered
  <2> QED BY <1>5, <1>6, <2>1, <2>3, <2>4, BlankStep
<1>8. CASE cmd.registered
  <2>1. /\ cmd'.status = "OFFLINE" /\ ~cmd'.attached
        /\ UNCHANGED <<cmd.registered, cmd.generation, cmd.known, cmd.sequence, cmd.code>>
      BY <1>2, <1>8 DEF SetupFails, Commands
  <2>2. /\ UNCHANGED <<run[g].pc, run[g].kind, run[g].result, run[g].code, run[g].known,
                       run[g].old, run[g].closed, run[g].crash, run[g].ready, run[g].draft>>
        /\ \A e \in Executions \ {g} : run'[e] = run[e]
      BY <1>1, <1>2, <1>8 DEF SetupFails, Runs
  <2>3. /\ run[g].ready = "none" /\ run[g].result = "none" /\ run[g].crash = 0 /\ ~run[g].closed
        /\ ~Announced(g) /\ ~Pending(g)
      BY <1>3, Unused
  <2>4. ~Publishing(g)' /\ ~Pending(g)' /\ ~Announced(g)'
      BY <1>3, <2>2, <2>3 DEF Publishing, Pending, Announced
  <2>5. LockOf(g)' /\ RunOf(g)'
      BY <1>3, <2>2, <2>3, <2>4 DEF LockOf, RunOf, Finalizing
  <2>6. CommandOf(g)' /\ DraftOf(g)'
      BY <1>3, <2>1, <2>2, <2>3, <2>4 DEF CommandOf, DraftOf, Finalizing, Ended
  <2>7. LogOf(g)' /\ EndOf(g)' /\ CrashOf(g)'
      BY <1>3, <1>6, <2>1, <2>2, <2>3, <2>4 DEF History, LogOf, EndOf, CrashOf, Ended
  <2>8. StatusInv'
      BY <1>3, <1>5, <2>1 DEF StatusInv
  <2>9. run[g].pc \notin Ended /\ run'[g].pc \notin Ended
      BY <1>3, <2>2 DEF Ended
  <2> QED BY <1>1, <1>2, <1>5, <1>6, <1>8, <2>1, <2>2, <2>3, <2>5, <2>6, <2>7, <2>8, <2>9,
             SilentStep, EventOwners DEF IInv, History
<1> QED BY <1>7, <1>8

-----------------------------------------------------------------------------
(* Publishing the recorded transition of the current execution.              *)

LEMMA PublishStep ==
    ASSUME HInv, IInv, NEW g \in Executions, NEW ev \in Events,
           UNCHANGED cmd, events' = Append(events, ev),
           cmd.generation = g, cmd.registered, ev.execution = g,
           \A e \in Executions \ {g} : run'[e] = run[e],
           run[g].pc \notin Ended,
           HolderInv', StatusInv', History(g)',
           run'[g].pc \in Ended =>
               /\ ev.new = "OFFLINE" /\ ev.sequence = cmd.sequence /\ ev.old = cmd.previous
               /\ ev.code = cmd.code /\ ev.known = cmd.known,
           ev.new = "OFFLINE" =>
               /\ run'[g].pc \in Ended
               /\ run'[g].crash # 0 =>
                      ev.old \in Running /\ ev.known /\ ev.code = run'[g].crash,
           ev.new # "OFFLINE" => Announced(g)'
    PROVE  HInv'
<1>1. TypeOK /\ events \in Seq(Events)
    BY DEF IInv, TypeOK
<1>2. /\ Len(events) \in Nat /\ Len(events') = Len(events) + 1 /\ events' # <<>>
      /\ DOMAIN events = 1 .. Len(events) /\ DOMAIN events' = 1 .. Len(events) + 1
      /\ \A i \in DOMAIN events : events'[i] = events[i]
      /\ events'[Len(events) + 1] = ev
    BY <1>1, AppendFacts
<1>3. \A i \in DOMAIN events : i \in DOMAIN events'
    BY <1>2
<1>4. \A i \in DOMAIN events' : i \in DOMAIN events \/ i = Len(events) + 1
    BY <1>2
<1>5. LastEvent' = ev
    BY <1>2 DEF LastEvent
<1>6. \A i \in DOMAIN events : events[i].execution \in Executions
    BY <1>1, EventOwners
<1>7. ASSUME NEW e \in Executions \ {g}
      PROVE  History(e)'
  <2>1. ~Active(e)
      BY ActiveIsCurrent DEF IInv, HInv, History
  <2> QED BY <1>2, <1>3, <2>1, Elsewhere DEF HInv
<1>8. OrderInv'
  <2>1. \A e \in Executions : e > g => run'[e].pc = "none"
      BY DEF HInv, OrderInv, Executions
  <2>2. cmd.generation \in 1 .. cmd.generation
      BY DEF Executions
  <2>3. \A i \in DOMAIN events' : events'[i].execution \in 1 .. cmd.generation
      BY <1>2, <1>4, <2>2 DEF HInv, OrderInv
  <2> QED BY <2>1, <2>3 DEF OrderInv
<1>9. ASSUME NEW i \in DOMAIN events, events[i].new = "OFFLINE"
      PROVE  run'[events[i].execution] = run[events[i].execution]
    BY <1>6, <1>9 DEF HInv, EndsInv
<1>10. EndsInv'
  <2> SUFFICES ASSUME NEW i \in DOMAIN events', events'[i].new = "OFFLINE"
               PROVE  run'[events'[i].execution].pc \in Ended
      BY DEF EndsInv, Ended
  <2>1. CASE i \in DOMAIN events
      BY <1>2, <1>9, <2>1 DEF HInv, EndsInv
  <2>2. CASE i = Len(events) + 1
      BY <1>2, <2>2
  <2> QED BY <1>4, <2>1, <2>2
<1>11. CrashAgreesWithEvent'
  <2> SUFFICES ASSUME NEW i \in DOMAIN events', events'[i].new = "OFFLINE",
                      run'[events'[i].execution].crash # 0
               PROVE  /\ events'[i].old \in Running /\ events'[i].known
                      /\ events'[i].code = run'[events'[i].execution].crash
      BY DEF CrashAgreesWithEvent, Running
  <2>1. CASE i \in DOMAIN events
      BY <1>2, <1>9, <2>1 DEF HInv, CrashAgreesWithEvent
  <2>2. CASE i = Len(events) + 1
      BY <1>2, <2>2
  <2> QED BY <1>4, <2>1, <2>2
<1>12. RetainedLifecycleIsTheLastEvent'
  <2>1. \A e \in Executions : cmd'.generation = e => e = g
      OBVIOUS
  <2> QED BY <1>2, <1>5, <2>1 DEF RetainedLifecycleIsTheLastEvent, LastEvent, Ended
<1>13. TopInv'
    BY <1>2, <1>5 DEF TopInv
<1> QED BY <1>7, <1>8, <1>10, <1>11, <1>12, <1>13 DEF HInv

(* The event that is published is the draft, with the intent of the moment.  *)
LEMMA PublishedEvent ==
    ASSUME IInv, NEW g \in Executions, Publish(g)
    PROVE  \E ev \in Events :
              /\ events' = Append(events, ev)
              /\ ev.execution = run[g].draft.execution /\ ev.sequence = run[g].draft.sequence
              /\ ev.old = run[g].draft.old /\ ev.new = run[g].draft.new
              /\ ev.code = run[g].draft.code /\ ev.known = run[g].draft.known
              /\ ev.intentional = cmd.intentional
<1> DEFINE draft == run[g].draft
           ev == [execution |-> draft.execution, sequence |-> draft.sequence,
                  old |-> draft.old, new |-> draft.new, code |-> draft.code,
                  known |-> draft.known, intentional |-> cmd.intentional]
<1>1. run[g] \in Runs /\ draft \in Drafts /\ cmd.intentional \in BOOLEAN
    BY DEF IInv, TypeOK, Runs, Commands
<1> HIDE DEF draft
<1>2. ev \in Events
    BY <1>1 DEF Drafts, Events
<1>3. events' = Append(events, ev)
    BY DEF Publish, draft
<1> QED BY <1>2, <1>3 DEF draft

LEMMA AnnouncePublishHistory ==
    ASSUME HInv, IInv, NEW g \in Executions, AnnouncePublish(g)
    PROVE  HInv'
<1>1. run \in [Executions -> Runs] /\ run[g] \in Runs /\ TypeOK
    BY DEF IInv, TypeOK
<1>2. /\ run[g].pc = "announcing" /\ run'[g].pc = "running"
      /\ run'[g].ready = IF run[g].kind = "readiness" THEN "waiting" ELSE run[g].ready
      /\ UNCHANGED <<run[g].kind, run[g].result, run[g].code, run[g].known, run[g].old,
                     run[g].closed, run[g].crash>>
      /\ \A e \in Executions \ {g} : run'[e] = run[e]
    BY <1>1 DEF AnnouncePublish, Runs
<1>3. UNCHANGED <<cmd, execLock, starter>>
    BY DEF AnnouncePublish, locks, callers
<1>4. History(g) /\ cmd.generation = g /\ cmd.registered /\ cmd.status # "OFFLINE"
    BY <1>2 DEF HInv, IInv, OwnerInv, Owning
<1>5. /\ Pending(g) /\ run[g].draft.execution = g /\ run[g].draft.sequence = cmd.sequence
      /\ run[g].draft.old = "OFFLINE" /\ run[g].draft.new = cmd.status
    BY <1>2, <1>4 DEF History, DraftOf, Pending
<1>6. PICK ev \in Events :
          /\ events' = Append(events, ev)
          /\ ev.execution = g /\ ev.sequence = cmd.sequence
          /\ ev.old = "OFFLINE" /\ ev.new = cmd.status
    BY <1>5, PublishedEvent DEF AnnouncePublish
<1>7. events' # <<>> /\ LastEvent' = ev
    BY <1>1, <1>6, AppendFacts DEF TypeOK, LastEvent
<1>8. run[g].ready = "none" /\ run[g].result = "ok" /\ ~IsSuppressed(run[g].kind)
      /\ ~run[g].closed /\ run[g].crash = 0
    BY <1>2, <1>4 DEF History, RunOf, CrashOf, Started, Finalizing, Ended
<1>9. /\ ~Publishing(g)' /\ ~Pending(g)' /\ Announced(g)' /\ Shown(g)' = cmd.status
    BY <1>2, <1>3, <1>8
       DEF Publishing, Pending, Announced, Shown, Started, Finalizing, IsSuppressed
<1>10. LockOf(g)' /\ RunOf(g)'
    BY <1>2, <1>8, <1>9 DEF LockOf, RunOf, Started, Finalizing, Ended
<1>11. CommandOf(g)' /\ DraftOf(g)'
    BY <1>2, <1>3, <1>4, <1>9 DEF History, CommandOf, DraftOf, Finalizing, Ended, Pending
<1>12. LogOf(g)' /\ EndOf(g)' /\ CrashOf(g)'
    BY <1>2, <1>3, <1>6, <1>7, <1>8, <1>9 DEF LogOf, EndOf, CrashOf, Ended
<1>13. HolderInv' /\ StatusInv'
  <2>1. \A s \in Starters : starter[s] # "setup"
      BY <1>2, <1>4 DEF IInv, StarterInv
  <2> QED BY <1>3, <1>4, <2>1 DEF HInv, HolderInv, StatusInv
<1>14. run[g].pc \notin Ended /\ run'[g].pc \notin Ended
    BY <1>2 DEF Ended
<1> QED BY <1>2, <1>3, <1>4, <1>6, <1>9, <1>10, <1>11, <1>12, <1>13, <1>14, PublishStep
       DEF History

LEMMA ReadyPublishHistory ==
    ASSUME HInv, IInv, NEW g \in Executions, ReadyPublish(g)
    PROVE  HInv'
<1>1. run \in [Executions -> Runs] /\ run[g] \in Runs /\ TypeOK
    BY DEF IInv, TypeOK
<1>2. /\ run[g].ready = "publishing" /\ run'[g].ready = "done"
      /\ UNCHANGED <<run[g].pc, run[g].kind, run[g].result, run[g].code, run[g].known,
                     run[g].old, run[g].closed, run[g].crash>>
      /\ \A e \in Executions \ {g} : run'[e] = run[e]
    BY <1>1 DEF ReadyPublish, Runs
<1>3. UNCHANGED <<cmd, starter>> /\ execLock' = Free
    BY DEF ReadyPublish, callers
<1>4. /\ History(g) /\ cmd.generation = g /\ run[g].pc \in Started /\ cmd.status = "ONLINE"
      /\ execLock = <<"ready", g>>
    BY <1>2 DEF HInv, History, LockOf, CommandOf, Publishing
<1>5. cmd.registered
    BY <1>4 DEF IInv, OwnerInv, Owning, Started
<1>6. run[g].pc \notin Finalizing \cup Ended \cup {"announcing", "publishing", "spawning", "announce", "none"}
    BY <1>4 DEF Started, Finalizing, Ended
<1>7. /\ Pending(g) /\ run[g].draft.execution = g /\ run[g].draft.sequence = cmd.sequence
      /\ run[g].draft.new = "ONLINE"
    BY <1>2, <1>4 DEF History, DraftOf, Pending
<1>8. PICK ev \in Events :
          /\ events' = Append(events, ev)
          /\ ev.execution = g /\ ev.sequence = cmd.sequence /\ ev.new = "ONLINE"
    BY <1>7, PublishedEvent DEF ReadyPublish
<1>9. events' # <<>> /\ LastEvent' = ev
    BY <1>1, <1>8, AppendFacts DEF TypeOK, LastEvent
<1>10. run[g].result = "ok" /\ run[g].kind = "readiness"
    BY <1>2, <1>4 DEF History, RunOf
<1>11. /\ ~Publishing(g)' /\ ~Pending(g)' /\ Announced(g)' /\ Shown(g)' = cmd.status
    BY <1>2, <1>3, <1>4, <1>6, <1>10
       DEF Publishing, Pending, Announced, Shown, IsSuppressed
<1>12. LockOf(g)' /\ RunOf(g)'
    BY <1>2, <1>4, <1>6, <1>10, <1>11 DEF History, LockOf, RunOf
<1>13. CommandOf(g)' /\ DraftOf(g)'
    BY <1>2, <1>3, <1>4, <1>6, <1>11 DEF History, CommandOf, DraftOf
<1>14. LogOf(g)' /\ EndOf(g)' /\ CrashOf(g)'
    BY <1>2, <1>3, <1>4, <1>6, <1>8, <1>9, <1>11 DEF History, LogOf, EndOf, CrashOf
<1>15. HolderInv' /\ StatusInv'
  <2>1. \A s \in Starters : starter[s] # "setup"
      BY <1>4, <1>6 DEF IInv, StarterInv
  <2> QED BY <1>3, <1>4, <2>1, OwnersDiffer DEF HInv, HolderInv, StatusInv
<1> QED BY <1>2, <1>3, <1>4, <1>5, <1>6, <1>8, <1>11, <1>12, <1>13, <1>14, <1>15, PublishStep
       DEF History

LEMMA FinalizePublishHistory ==
    ASSUME HInv, IInv, NEW g \in Executions, FinalizePublish(g)
    PROVE  HInv'
<1>1. run \in [Executions -> Runs] /\ run[g] \in Runs /\ TypeOK
    BY DEF IInv, TypeOK
<1>2. /\ run[g].pc = "publishing" /\ run'[g].pc = "closing"
      /\ UNCHANGED <<run[g].ready, run[g].kind, run[g].result, run[g].code, run[g].known,
                     run[g].old, run[g].closed, run[g].crash>>
      /\ \A e \in Executions \ {g} : run'[e] = run[e]
    BY <1>1 DEF FinalizePublish, Runs
<1>3. UNCHANGED <<cmd, starter>> /\ execLock' = Free
    BY DEF FinalizePublish, callers
<1>4. /\ History(g) /\ cmd.generation = g /\ cmd.status = "OFFLINE" /\ ~cmd.attached
      /\ execLock = <<"finalize", g>>
    BY <1>2 DEF HInv, History, LockOf, CommandOf, Finalizing
<1>5. cmd.registered
    BY <1>2 DEF HInv, OrderInv
<1>6. /\ Pending(g) /\ run[g].draft.execution = g /\ run[g].draft.sequence = cmd.sequence
      /\ run[g].draft.old = run[g].old /\ run[g].draft.new = "OFFLINE"
      /\ run[g].draft.code = run[g].code /\ run[g].draft.known = run[g].known
      /\ cmd.previous = run[g].old /\ cmd.code = run[g].code /\ cmd.known = run[g].known
    BY <1>2, <1>4 DEF History, DraftOf, Pending
<1>7. PICK ev \in Events :
          /\ events' = Append(events, ev)
          /\ ev.execution = g /\ ev.sequence = cmd.sequence /\ ev.new = "OFFLINE"
          /\ ev.old = run[g].old /\ ev.code = run[g].code /\ ev.known = run[g].known
    BY <1>6, PublishedEvent DEF FinalizePublish
<1>8. events' # <<>> /\ LastEvent' = ev
      /\ \E i \in DOMAIN events' : events'[i] = ev
  <2>1. events \in Seq(Events) /\ ev \in Events
      BY <1>1 DEF TypeOK
  <2>2. Len(events) + 1 \in DOMAIN events' /\ events'[Len(events) + 1] = ev
      BY <1>7, <2>1, AppendFacts
  <2> QED BY <1>7, <2>1, <2>2, AppendFacts DEF LastEvent
<1>9. ~Publishing(g)
    BY <1>4, OwnersDiffer DEF History, LockOf
<1>10. /\ ~Publishing(g)' /\ ~Pending(g)' /\ ~Announced(g)'
    BY <1>2, <1>9 DEF Publishing, Pending, Announced, Started, Finalizing
<1>11. LockOf(g)' /\ RunOf(g)'
    BY <1>2, <1>4, <1>10 DEF History, LockOf, RunOf, Started, Finalizing, Ended
<1>12. CommandOf(g)' /\ DraftOf(g)'
    BY <1>2, <1>3, <1>4, <1>6, <1>10 DEF History, CommandOf, DraftOf, Finalizing, Ended, Publishing
<1>13. LogOf(g)' /\ EndOf(g)'
    BY <1>2, <1>7, <1>8, <1>10 DEF LogOf, EndOf, Ended
<1>14. CrashOf(g)'
    BY <1>2, <1>3, <1>4 DEF History, CrashOf, Finalizing, Ended
<1>15. HolderInv' /\ StatusInv'
  <2>1. \A s \in Starters : starter[s] # "setup"
      BY <1>2, <1>4 DEF IInv, StarterInv
  <2> QED BY <1>3, <1>4, <2>1, OwnersDiffer DEF HInv, HolderInv, StatusInv
<1>16. run[g].pc \notin Ended /\ run'[g].pc \in Ended
    BY <1>2 DEF Ended
<1>17. run'[g].crash # 0 => ev.old \in Running /\ ev.known /\ ev.code = run'[g].crash
    BY <1>2, <1>4, <1>7 DEF History, CrashOf, Finalizing
<1> QED BY <1>2, <1>3, <1>4, <1>5, <1>6, <1>7, <1>10, <1>11, <1>12, <1>13, <1>14, <1>15, <1>16,
           <1>17, PublishStep DEF History

-----------------------------------------------------------------------------
(* The invariant is inductive.                                               *)

LEMMA RunStepHistory ==
    ASSUME HInv, IInv, NEW g \in Executions, RunStep(g) \/ ReadyStep(g) \/ ProcessExits(g)
    PROVE  HInv'
<1>1. CASE MarkReady(g)
    BY <1>1, MarkReadyHistory, QuietRunStep
<1> QED BY <1>1, SpawnSucceedsHistory, SpawnFailsHistory, AnnounceRecordHistory,
           AnnouncePublishHistory, AnnounceNothingHistory, ReapHistory, ReportHistory,
           InternalEndsHistory, FinalizeOfflineHistory, FinalizeRecordHistory,
           FinalizePublishHistory, FinalizeNothingHistory, CloseExecutionHistory,
           ReadyRecordHistory, ReadyPublishHistory, QuietRunStep
       DEF RunStep, ReadyStep

LEMMA StartStepHistory ==
    ASSUME HInv, IInv, NEW s \in Starters, StartStep(s)
    PROVE  HInv'
BY QuietStartStep, LookupNewHistory, PrepareKnownHistory, SetupFailsHistory,
   SetupSucceedsHistory DEF StartStep

LEMMA NextHInv == HInv /\ IInv /\ [Next]_vars => HInv'
<1> SUFFICES ASSUME HInv, IInv, [Next]_vars PROVE HInv'
    OBVIOUS
<1> QED BY StartStepHistory, QuietStopStep, RunStepHistory, CreateShellHistory, QuietOtherStep
       DEF Next

(* It holds in every reachable state.                                        *)
THEOREM HistoryInvariant == Spec => []HInv
<1>1. Spec => []IInv
    BY Invariant
<1> QED BY <1>1, InitHInv, NextHInv, PTL DEF Spec

(* A crash alert and the OFFLINE event of its execution never contradict     *)
(* each other, although the goroutine reads the intent flag once for the     *)
(* exit details and once more for the alert.                                 *)
THEOREM CrashAlertsAgree == Spec => []CrashAgreesWithEvent
<1>1. HInv => CrashAgreesWithEvent
    BY DEF HInv
<1> QED BY <1>1, HistoryInvariant, PTL

(* What a finished execution leaves in the command is its last event.        *)
THEOREM RetainedLifecycle == Spec => []RetainedLifecycleIsTheLastEvent
<1>1. HInv => RetainedLifecycleIsTheLastEvent
    BY DEF HInv
<1> QED BY <1>1, HistoryInvariant, PTL

(* Whoever waited for the end of an execution finds its OFFLINE event out    *)
(* and a command that accepts a start.                                       *)
THEOREM ClosedExecutionsAreOver == Spec => []ClosedMeansOver
<1>1. HInv => ClosedMeansOver
  <2> SUFFICES ASSUME HInv, NEW g \in Executions, run[g].closed
               PROVE  /\ IsSuppressed(run[g].kind)
                            \/ \E i \in DOMAIN events : /\ events[i].execution = g
                                                       /\ events[i].new = "OFFLINE"
                      /\ cmd.generation = g /\ instLock = Free => ~Busy
      BY DEF ClosedMeansOver
  <2>1. RunOf(g) /\ EndOf(g) /\ CommandOf(g)
      BY DEF HInv, History
  <2>2. run[g].pc \in Ended
      BY <2>1 DEF RunOf, Ended
  <2> QED BY <2>1, <2>2 DEF EndOf, CommandOf, Busy
<1> QED BY <1>1, HistoryInvariant, PTL

-----------------------------------------------------------------------------
(* Snapshots.                                                                *)

Complete(e) == run[e].pc \in {"publishing"} \cup Ended

(* An execution that is complete stays complete and keeps its exit code.     *)
LEMMA CompleteStays ==
    ASSUME IInv, HInv, [Next]_vars, NEW e \in Executions, Complete(e)
    PROVE  Complete(e)' /\ run'[e].code = run[e].code
<1>1. run \in [Executions -> Runs] /\ run[e] \in Runs /\ cmd \in Commands
    BY DEF IInv, TypeOK
<1>2. run[e].pc \notin Owning \cup {"none", "terminal"}
    BY DEF Complete, Owning, Ended
<1>3. CASE UNCHANGED run
    BY <1>3 DEF Complete
<1>4. ASSUME NEW s \in Starters, StartStep(s)
      PROVE  Complete(e)' /\ run'[e].code = run[e].code
  <2>1. CASE LookupNew(s) \/ PrepareKnown(s)
    <3>1. PICK kind \in Kinds : OpenExecution(kind)
        BY <2>1 DEF LookupNew, PrepareKnown
    <3>2. e # cmd.generation + 1
        BY <1>1, <1>2 DEF HInv, OrderInv, Commands, Executions
    <3> QED BY <1>1, <3>1, <3>2 DEF OpenExecution, Complete
  <2>2. CASE SetupFails(s) \/ SetupSucceeds(s)
    <3>1. e # cmd.generation
        BY <1>2, <2>2 DEF IInv, StarterInv, SetupFails, SetupSucceeds
    <3> QED BY <1>1, <2>2, <3>1 DEF SetupFails, SetupSucceeds, Complete
  <2> QED BY <1>3, <1>4, <2>1, <2>2
          DEF StartStep, BeginStart, LookupKnown, LockExecution, RefuseStart, FinishStart
<1>5. ASSUME NEW p \in Stoppers, StopStep(p)
      PROVE  Complete(e)' /\ run'[e].code = run[e].code
  <2>1. \/ UNCHANGED run
        \/ run' = [run EXCEPT ![cmd.generation].asked = TRUE]
        \/ run' = [run EXCEPT ![stopper[p].execution].cancelled = TRUE]
      BY <1>5
         DEF StopStep, BeginStop, LockStop, MarkIntentional, CaptureTarget, NothingToStop,
             StopFinished, StopTimesOut
  <2> QED BY <1>1, <2>1 DEF Complete, Runs
<1>6. ASSUME NEW g \in Executions, RunStep(g) \/ ReadyStep(g) \/ ProcessExits(g), g = e
      PROVE  Complete(e)' /\ run'[e].code = run[e].code
  <2>1. CASE FinalizePublish(e) \/ CloseExecution(e)
      BY <1>1, <2>1 DEF FinalizePublish, CloseExecution, Complete, Ended, Runs
  <2>2. CASE ReadyStep(e) \/ ProcessExits(e)
    <3>1. CASE MarkReady(e)
        BY <1>1, <3>1 DEF MarkReady, Complete, Runs
    <3>2. CASE ReadyRecord(e)
        BY <1>1, <3>2 DEF ReadyRecord, Complete, Runs
    <3>3. CASE ReadyPublish(e)
        BY <1>1, <3>3 DEF ReadyPublish, Complete, Runs
    <3>4. CASE AbandonReadiness(e)
        BY <1>1, <3>4 DEF AbandonReadiness, Complete, Runs
    <3>5. CASE ProcessExits(e)
        BY <1>1, <3>5 DEF ProcessExits, Complete, Runs
    <3> QED BY <2>2, <3>1, <3>2, <3>3, <3>4, <3>5 DEF ReadyStep
  <2>3. RunStep(e) => FinalizePublish(e) \/ CloseExecution(e)
      BY <1>2
         DEF RunStep, SpawnSucceeds, SpawnFails, AnnounceRecord, AnnouncePublish,
             AnnounceNothing, Reap, Report, InternalEnds, FinalizeOffline, FinalizeRecord,
             FinalizeNothing, Owning
  <2> QED BY <1>6, <2>1, <2>2, <2>3
<1>7. ASSUME NEW g \in Executions, RunStep(g) \/ ReadyStep(g) \/ ProcessExits(g), g # e
      PROVE  Complete(e)' /\ run'[e].code = run[e].code
  <2>1. run'[e] = run[e]
      BY <1>1, <1>7
         DEF RunStep, ReadyStep, ProcessExits, SpawnSucceeds, SpawnFails, AnnounceRecord,
             AnnouncePublish, AnnounceNothing, Reap, Report, InternalEnds, FinalizeOffline,
             FinalizeRecord, FinalizePublish, FinalizeNothing, CloseExecution, MarkReady,
             ReadyRecord, ReadyPublish, AbandonReadiness
  <2> QED BY <2>1 DEF Complete
<1> QED BY <1>3, <1>4, <1>5, <1>6, <1>7
        DEF Next, CreateShell, ShutDown, ReadLifecycle, ReadStatus, vars

LEMMA InitSnapInv == Init => SnapInv
BY DEF Init, SnapInv, NoSnapshot

LEMMA NextSnapInv == SnapInv /\ IInv /\ HInv /\ [Next]_vars => SnapInv'
<1> SUFFICES ASSUME SnapInv, IInv, HInv, [Next]_vars, NEW r \in Readers, snap'[r].known
             PROVE  /\ snap'[r].execution \in Executions
                    /\ run'[snap'[r].execution].pc \in {"publishing"} \cup Ended
                    /\ run'[snap'[r].execution].code = snap'[r].code
    BY DEF SnapInv, Ended
<1>1. snap \in [Readers -> Snapshots] /\ cmd \in Commands
    BY DEF IInv, TypeOK
<1>2. ASSUME UNCHANGED <<snap[r].known, snap[r].execution, snap[r].code>>
      PROVE  /\ snap'[r].execution \in Executions
             /\ run'[snap'[r].execution].pc \in {"publishing"} \cup Ended
             /\ run'[snap'[r].execution].code = snap'[r].code
  <2>1. PICK e \in Executions : snap[r].execution = e /\ Complete(e) /\ run[e].code = snap[r].code
      BY <1>2 DEF SnapInv, Complete
  <2>2. Complete(e)' /\ run'[e].code = run[e].code
      BY <2>1, CompleteStays
  <2> QED BY <1>2, <2>1, <2>2 DEF Complete
<1>3. CASE ReadLifecycle(r)
  <2>1. /\ snap'[r].known = cmd.known /\ snap'[r].execution = cmd.generation
        /\ snap'[r].code = cmd.code /\ UNCHANGED run
      BY <1>1, <1>3 DEF ReadLifecycle, Lifecycle, NoSnapshot
  <2>2. PICK e \in Executions : cmd.generation = e
      BY <2>1 DEF HInv, StatusInv
  <2>3. CommandOf(e)
      BY DEF HInv, History
  <2> QED BY <2>1, <2>2, <2>3 DEF CommandOf, Ended
<1>4. CASE ~ReadLifecycle(r)
  <2>1. UNCHANGED <<snap[r].known, snap[r].execution, snap[r].code>>
    <3>1. ASSUME NEW q \in Readers, ReadLifecycle(q), q # r
          PROVE  snap'[r] = snap[r]
        BY <1>1, <3>1 DEF ReadLifecycle
    <3>2. ASSUME NEW q \in Readers, ReadStatus(q)
          PROVE  UNCHANGED <<snap[r].known, snap[r].execution, snap[r].code>>
        BY <1>1, <3>2 DEF ReadStatus, Snapshots
    <3>3. ASSUME NEW s \in Starters, StartStep(s) PROVE UNCHANGED snap
        BY <3>3 DEF StartStep, BeginStart, LookupNew, LookupKnown, LockExecution, RefuseStart,
             PrepareKnown, SetupFails, SetupSucceeds, FinishStart, seen
    <3>4. ASSUME NEW p \in Stoppers, StopStep(p) PROVE UNCHANGED snap
        BY <3>4 DEF StopStep, BeginStop, LockStop, MarkIntentional, CaptureTarget,
             NothingToStop, StopFinished, StopTimesOut, seen
    <3>5. ASSUME NEW g \in Executions, RunStep(g) \/ ReadyStep(g) \/ ProcessExits(g)
          PROVE  UNCHANGED snap
        BY <3>5
           DEF RunStep, ReadyStep, ProcessExits, SpawnSucceeds, SpawnFails, AnnounceRecord,
               AnnouncePublish, AnnounceNothing, Reap, Report, InternalEnds, FinalizeOffline,
               FinalizeRecord, FinalizePublish, FinalizeNothing, CloseExecution, MarkReady,
               ReadyRecord, ReadyPublish, AbandonReadiness, seen
    <3>6. CreateShell \/ ShutDown \/ UNCHANGED vars => UNCHANGED snap
        BY DEF CreateShell, ShutDown, vars, seen
    <3> QED BY <1>4, <3>1, <3>2, <3>3, <3>4, <3>5, <3>6 DEF Next
  <2> QED BY <1>2, <2>1
<1> QED BY <1>3, <1>4

(* A snapshot that is OFFLINE with a known exit code is of an execution that *)
(* has ended with that code, however the two reads fall between the end of   *)
(* one execution and the start of the next.                                  *)
THEOREM CompletionSnapshots == Spec => []CompletionSnapshotIsSound
<1>1. SnapInv => CompletionSnapshotIsSound
    BY DEF SnapInv, CompletionSnapshotIsSound, Ended
<1>2. Spec => []SnapInv
    BY InitSnapInv, NextSnapInv, Invariant, HistoryInvariant, PTL DEF Spec
<1> QED BY <1>1, <1>2, PTL

-----------------------------------------------------------------------------
(* The intent of a stop.                                                     *)

LEMMA InitIntentInv == Init => IntentInv
<1> SUFFICES ASSUME Init PROVE IntentInv
    OBVIOUS
<1>1. /\ ~cmd.registered /\ events = <<>>
      /\ \A s \in Starters : starter[s] = "idle"
      /\ \A p \in Stoppers : stopper[p].pc = "idle"
      /\ \A g \in Executions : ~run[g].asked
    BY DEF Init, Unregistered, NoRun
<1> QED BY <1>1 DEF IntentInv, StopIsReportedAsIntended

(* A start clears the intent while no stop call is between marking it and    *)
(* returning: both hold the mutex of the directory.                          *)
LEMMA StartKeepsIntent ==
    ASSUME IntentInv, IInv, HInv, NEW s \in Starters, StartStep(s)
    PROVE  IntentInv'
<1>1. run \in [Executions -> Runs] /\ cmd \in Commands /\ TypeOK
    BY DEF IInv, TypeOK
<1>2. UNCHANGED <<stopper, events>>
    BY DEF StartStep, BeginStart, LookupNew, LookupKnown, LockExecution, RefuseStart,
           PrepareKnown, SetupFails, SetupSucceeds, FinishStart, seen
<1>3. dirLock["server"] = s =>
          \A p \in Stoppers : stopper[p].pc \in {"idle", "found"}
  <2>1. ASSUME NEW p \in Stoppers, stopper[p].pc \notin {"idle", "found"}
        PROVE  dirLock["server"] = p /\ p # s
      BY <1>1, <2>1, SupervisorAssumption DEF IntentInv, IInv, LockInv, TypeOK, StopCalls
  <2> QED BY <2>1
<1>4. \A i \in DOMAIN events : events[i].execution \in Executions
    BY <1>1, EventOwners
<1>5. CASE BeginStart(s) \/ LookupKnown(s) \/ LockExecution(s) \/ RefuseStart(s) \/ FinishStart(s)
  <2>1. UNCHANGED <<cmd, run>>
      BY <1>5 DEF BeginStart, LookupKnown, LockExecution, RefuseStart, FinishStart
  <2>2. \A t \in Starters : starter'[t] = "setup" => starter[t] = "setup"
      BY <1>1, <1>5
         DEF TypeOK, BeginStart, LookupKnown, LockExecution, RefuseStart, FinishStart, ReleaseStart
  <2> QED BY <1>2, <2>1, <2>2 DEF IntentInv, StopIsReportedAsIntended
<1>6. CASE LookupNew(s) \/ PrepareKnown(s)
  <2>1. PICK kind \in Kinds : OpenExecution(kind)
      BY <1>6 DEF LookupNew, PrepareKnown
  <2>2. dirLock["server"] = s /\ cmd.generation < MaxExecutions
      BY <1>6 DEF LookupNew, PrepareKnown, IInv, LockInv, StarterInv
  <2> DEFINE G == cmd.generation + 1
  <2>3. cmd'.dir = "server" /\ cmd'.generation = G /\ cmd'.registered = cmd.registered
      BY <1>1, <2>1 DEF OpenExecution, Commands
  <2>4. G \in Executions /\ G > cmd.generation
      BY <1>1, <2>2, SupervisorAssumption DEF Executions, Commands
  <2>5. ~run'[G].asked /\ \A e \in Executions \ {G} : run'[e] = run[e]
      BY <1>1, <2>1, <2>4 DEF OpenExecution, NoRun
  <2> HIDE DEF G
  <2>6. \A i \in DOMAIN events : run'[events[i].execution].asked => run[events[i].execution].asked
      BY <1>4, <2>5
  <2>7. \A p \in Stoppers : stopper'[p].pc \notin {"marked", "waiting"}
      BY <1>2, <1>3, <2>2
  <2>8. \A e \in Executions : ~(run'[e].asked /\ cmd'.generation = e)
      BY <2>3, <2>5
  <2> QED BY <1>2, <2>3, <2>6, <2>7, <2>8 DEF IntentInv, StopIsReportedAsIntended
<1>7. CASE SetupFails(s)
  <2>1. PICK g \in Executions : cmd.generation = g
      BY <1>7, Preparing DEF SetupFails
  <2>2. \A t \in Starters : starter'[t] = "idle"
      BY <1>1, <1>7, Preparing DEF SetupFails, ReleaseStart, TypeOK
  <2>3. CASE cmd.registered
    <3>1. /\ UNCHANGED <<cmd.registered, cmd.dir, cmd.generation, cmd.intentional>>
        BY <1>1, <1>7, <2>3 DEF SetupFails, Commands
    <3>2. \A e \in Executions : run'[e].asked = run[e].asked
        BY <1>1, <1>7, <2>1, <2>3 DEF SetupFails, Runs
    <3> QED BY <1>2, <1>4, <2>2, <3>1, <3>2 DEF IntentInv, StopIsReportedAsIntended
  <2>4. CASE ~cmd.registered
    <3>1. events = <<>> /\ \A p \in Stoppers : stopper[p].pc = "idle"
        BY <2>4 DEF IntentInv, HInv, OrderInv
    <3>2. ~cmd'.registered /\ cmd'.generation = 0
        BY <1>7, <2>4 DEF SetupFails, Unregistered
    <3>3. \A e \in Executions : cmd'.generation # e
        BY <3>2, SupervisorAssumption DEF Executions
    <3> QED BY <1>2, <2>2, <3>1, <3>2, <3>3 DEF IntentInv, StopIsReportedAsIntended
  <2> QED BY <2>3, <2>4
<1>8. CASE SetupSucceeds(s)
  <2>1. cmd.dir = "server"
      BY <1>8 DEF IntentInv, SetupSucceeds
  <2>2. cmd'.registered /\ UNCHANGED <<cmd.dir, cmd.generation, cmd.intentional>>
      BY <1>1, <1>8 DEF SetupSucceeds, Commands
  <2>3. \A e \in Executions : run'[e].asked = run[e].asked
      BY <1>1, <1>8 DEF SetupSucceeds, Runs
  <2> QED BY <1>2, <1>4, <2>1, <2>2, <2>3 DEF IntentInv, StopIsReportedAsIntended
<1> QED BY <1>5, <1>6, <1>7, <1>8 DEF StartStep

LEMMA StopKeepsIntent ==
    ASSUME IntentInv, IInv, HInv, NEW p \in Stoppers, StopStep(p)
    PROVE  IntentInv'
<1>1. /\ run \in [Executions -> Runs] /\ cmd \in Commands /\ TypeOK
      /\ stopper \in [Stoppers -> StopCalls]
    BY DEF IInv, TypeOK
<1>2. UNCHANGED <<starter, events>>
    BY DEF StopStep, BeginStop, LockStop, MarkIntentional, CaptureTarget, NothingToStop,
           StopFinished, StopTimesOut, seen
<1>3. /\ UNCHANGED <<cmd.registered, cmd.dir, cmd.generation>>
      /\ cmd.intentional => cmd'.intentional
  <2>1. cmd' = cmd \/ cmd' = [cmd EXCEPT !.intentional = TRUE]
      BY DEF StopStep, BeginStop, LockStop, MarkIntentional, CaptureTarget, NothingToStop,
             StopFinished, StopTimesOut
  <2> QED BY <1>1, <2>1 DEF Commands
<1>4. /\ \A q \in Stoppers \ {p} : stopper'[q] = stopper[q]
      /\ stopper'[p].pc # "idle" => stopper'[p].dir = "server" /\ cmd.registered
      /\ stopper'[p].pc \in {"marked", "waiting"} => cmd'.intentional
  <2>1. CASE BeginStop(p)
      BY <1>1, <2>1 DEF BeginStop, IntentInv, StopCalls
  <2>2. CASE LockStop(p)
      BY <1>1, <2>2 DEF LockStop, IntentInv, StopCalls
  <2>3. CASE MarkIntentional(p)
    <3>1. cmd'.intentional
        BY <1>1, <2>3 DEF MarkIntentional, Commands
    <3> QED BY <1>1, <2>3, <3>1 DEF MarkIntentional, IntentInv, StopCalls
  <2>4. CASE CaptureTarget(p)
      BY <1>1, <2>4 DEF CaptureTarget, IntentInv, StopCalls
  <2>5. CASE NothingToStop(p) \/ StopFinished(p) \/ StopTimesOut(p)
      BY <1>1, <2>5 DEF NothingToStop, StopFinished, StopTimesOut, ReleaseStop
  <2> QED BY <2>1, <2>2, <2>3, <2>4, <2>5 DEF StopStep
<1>5. \A i \in DOMAIN events : events[i].execution \in Executions
    BY <1>1, EventOwners
<1>6. CASE CaptureTarget(p)
  <2>1. cmd.attached /\ cmd.intentional
      BY <1>6 DEF CaptureTarget, IntentInv
  <2>2. \A e \in Executions : run'[e].asked => run[e].asked \/ e = cmd.generation
      BY <1>1, <1>6 DEF CaptureTarget, Runs
  <2>3. ASSUME NEW i \in DOMAIN events, events[i].new = "OFFLINE"
        PROVE  events[i].execution # cmd.generation
    <3>1. run[events[i].execution].pc \in Ended
        BY <2>3 DEF HInv, EndsInv
    <3>2. CommandOf(events[i].execution)
        BY <1>5 DEF HInv, History
    <3> QED BY <2>1, <3>1, <3>2 DEF CommandOf
  <2>4. StopIsReportedAsIntended'
      BY <1>2, <1>5, <2>2, <2>3 DEF IntentInv, StopIsReportedAsIntended
  <2>5. \A e \in Executions : run'[e].asked /\ cmd'.generation = e => cmd'.intentional
      BY <1>3, <2>1
  <2> QED BY <1>2, <1>3, <1>4, <2>4, <2>5 DEF IntentInv
<1>7. CASE ~CaptureTarget(p)
  <2>1. run' = run \/ run' = [run EXCEPT ![stopper[p].execution].cancelled = TRUE]
      BY <1>7
         DEF StopStep, BeginStop, LockStop, MarkIntentional, NothingToStop, StopFinished,
             StopTimesOut
  <2>2. \A e \in Executions : run'[e].asked = run[e].asked
      BY <1>1, <2>1 DEF Runs
  <2>3. StopIsReportedAsIntended'
      BY <1>2, <1>5, <2>2 DEF IntentInv, StopIsReportedAsIntended
  <2>4. \A e \in Executions : run'[e].asked /\ cmd'.generation = e => cmd'.intentional
      BY <1>3, <2>2 DEF IntentInv
  <2> QED BY <1>2, <1>3, <1>4, <2>3, <2>4 DEF IntentInv
<1> QED BY <1>6, <1>7

(* Whoever writes to the command or publishes belongs to its execution.      *)
LEMMA WriterIsCurrent ==
    ASSUME IInv, HInv, NEW g \in Executions, RunStep(g) \/ ReadyStep(g) \/ ProcessExits(g)
    PROVE  /\ UNCHANGED <<cmd, events>> \/ cmd.generation = g
           /\ \/ UNCHANGED events
              \/ Publish(g) /\ run[g].draft.execution = g
<1>1. OwnerInv /\ CommandOf(g) /\ DraftOf(g)
    BY DEF IInv, HInv, History
<1>2. CASE AnnounceRecord(g) \/ AnnouncePublish(g) \/ FinalizeOffline(g)
    BY <1>1, <1>2
       DEF OwnerInv, Owning, AnnounceRecord, AnnouncePublish, FinalizeOffline, DraftOf,
           Pending, seen
<1>3. CASE FinalizeRecord(g) \/ FinalizePublish(g) \/ FinalizeNothing(g)
    BY <1>1, <1>3
       DEF CommandOf, Finalizing, FinalizeRecord, FinalizePublish, FinalizeNothing, DraftOf,
           Pending, seen
<1>4. CASE ReadyRecord(g) \/ ReadyPublish(g)
    BY <1>1, <1>4
       DEF CommandOf, Publishing, ReadyRecord, ReadyPublish, DraftOf, Pending, seen
<1>5. CASE MarkReady(g)
    BY <1>5 DEF MarkReady, seen
<1>6. CASE \/ SpawnSucceeds(g) \/ SpawnFails(g) \/ AnnounceNothing(g) \/ Reap(g) \/ Report(g)
           \/ InternalEnds(g) \/ CloseExecution(g) \/ AbandonReadiness(g) \/ ProcessExits(g)
    BY <1>6
       DEF SpawnSucceeds, SpawnFails, AnnounceNothing, Reap, Report, InternalEnds,
           CloseExecution, AbandonReadiness, ProcessExits, seen
<1> QED BY <1>2, <1>3, <1>4, <1>5, <1>6 DEF RunStep, ReadyStep

LEMMA RunKeepsIntent ==
    ASSUME IntentInv, IInv, HInv, NEW g \in Executions,
           RunStep(g) \/ ReadyStep(g) \/ ProcessExits(g)
    PROVE  IntentInv'
<1>1. /\ run \in [Executions -> Runs] /\ cmd \in Commands /\ TypeOK /\ events \in Seq(Events)
    BY DEF IInv, TypeOK
<1>2. UNCHANGED <<starter, stopper>>
    BY DEF RunStep, ReadyStep, ProcessExits, SpawnSucceeds, SpawnFails, AnnounceRecord,
           AnnouncePublish, AnnounceNothing, Reap, Report, InternalEnds, FinalizeOffline,
           FinalizeRecord, FinalizePublish, FinalizeNothing, CloseExecution, MarkReady,
           ReadyRecord, ReadyPublish, AbandonReadiness, callers
<1>3. UNCHANGED <<cmd.registered, cmd.dir, cmd.generation, cmd.intentional>>
  <2>1. CASE UNCHANGED cmd
      BY <2>1
  <2>2. CASE AnnounceRecord(g) \/ FinalizeRecord(g) \/ ReadyRecord(g)
      BY <1>1, <2>2 DEF AnnounceRecord, FinalizeRecord, ReadyRecord, Record, Commands
  <2>3. CASE FinalizeOffline(g)
      BY <1>1, <2>3 DEF FinalizeOffline, Commands
  <2>4. CASE MarkReady(g)
      BY <1>1, <2>4 DEF MarkReady, Commands
  <2> QED BY <2>1, <2>2, <2>3, <2>4
          DEF RunStep, ReadyStep, ProcessExits, SpawnSucceeds, SpawnFails, AnnouncePublish,
              AnnounceNothing, Reap, Report, InternalEnds, FinalizePublish, FinalizeNothing,
              CloseExecution, ReadyPublish, AbandonReadiness
<1>4. \A e \in Executions \ {g} : run'[e] = run[e]
    BY <1>1
       DEF RunStep, ReadyStep, ProcessExits, SpawnSucceeds, SpawnFails, AnnounceRecord,
           AnnouncePublish, AnnounceNothing, Reap, Report, InternalEnds, FinalizeOffline,
           FinalizeRecord, FinalizePublish, FinalizeNothing, CloseExecution, MarkReady,
           ReadyRecord, ReadyPublish, AbandonReadiness
<1>5. run'[g].asked = run[g].asked
  <2>1. run[g] \in Runs
      BY <1>1
  <2>2. CASE RunStep(g)
    <3>1. CASE SpawnSucceeds(g) \/ SpawnFails(g) \/ AnnounceNothing(g) \/ CloseExecution(g)
        BY <1>1, <2>1, <3>1 DEF SpawnSucceeds, SpawnFails, AnnounceNothing, CloseExecution, Runs
    <3>2. CASE AnnounceRecord(g)
        BY <1>1, <2>1, <3>2 DEF AnnounceRecord, Runs
    <3>3. CASE AnnouncePublish(g)
        BY <1>1, <2>1, <3>3 DEF AnnouncePublish, Runs
    <3>4. CASE Reap(g)
        BY <1>1, <2>1, <3>4 DEF Reap, Runs
    <3>5. CASE Report(g)
        BY <1>1, <2>1, <3>5 DEF Report, Runs
    <3>6. CASE InternalEnds(g)
        BY <1>1, <2>1, <3>6 DEF InternalEnds, Runs
    <3>7. CASE FinalizeOffline(g)
        BY <1>1, <2>1, <3>7 DEF FinalizeOffline, Runs
    <3>8. CASE FinalizeRecord(g)
        BY <1>1, <2>1, <3>8 DEF FinalizeRecord, Runs
    <3>9. CASE FinalizePublish(g) \/ FinalizeNothing(g)
        BY <1>1, <2>1, <3>9 DEF FinalizePublish, FinalizeNothing, Runs
    <3> QED BY <2>2, <3>1, <3>2, <3>3, <3>4, <3>5, <3>6, <3>7, <3>8, <3>9 DEF RunStep
  <2>3. CASE MarkReady(g)
      BY <1>1, <2>1, <2>3 DEF MarkReady, Runs
  <2>4. CASE ReadyRecord(g)
      BY <1>1, <2>1, <2>4 DEF ReadyRecord, Runs
  <2>5. CASE ReadyPublish(g)
      BY <1>1, <2>1, <2>5 DEF ReadyPublish, Runs
  <2>6. CASE AbandonReadiness(g)
      BY <1>1, <2>1, <2>6 DEF AbandonReadiness, Runs
  <2>7. CASE ProcessExits(g)
      BY <1>1, <2>1, <2>7 DEF ProcessExits, Runs
  <2> QED BY <2>2, <2>3, <2>4, <2>5, <2>6, <2>7 DEF ReadyStep
<1>6. \A e \in Executions : run'[e].asked = run[e].asked
    BY <1>4, <1>5
<1>7. \A i \in DOMAIN events : events[i].execution \in Executions
    BY <1>1, EventOwners
<1>8. StopIsReportedAsIntended'
  <2>1. CASE UNCHANGED events
      BY <1>6, <1>7, <2>1 DEF IntentInv, StopIsReportedAsIntended
  <2>2. CASE ~(UNCHANGED events)
    <3>1. Publish(g) /\ run[g].draft.execution = g /\ cmd.generation = g
        BY <2>2, WriterIsCurrent
    <3>2. PICK ev \in Events :
              /\ events' = Append(events, ev) /\ ev.execution = g
              /\ ev.intentional = cmd.intentional
        BY <3>1, PublishedEvent
    <3>3. /\ DOMAIN events = 1 .. Len(events) /\ DOMAIN events' = 1 .. Len(events) + 1
          /\ Len(events) \in Nat
          /\ \A i \in DOMAIN events : events'[i] = events[i]
          /\ events'[Len(events) + 1] = ev
        BY <1>1, <3>2, AppendFacts
    <3>4. run'[g].asked => ev.intentional
        BY <1>5, <3>1, <3>2 DEF IntentInv
    <3>5. \A i \in DOMAIN events' : i \in DOMAIN events \/ i = Len(events) + 1
        BY <3>3
    <3> QED BY <1>6, <1>7, <3>2, <3>3, <3>4, <3>5 DEF IntentInv, StopIsReportedAsIntended
  <2> QED BY <2>1, <2>2
<1> QED BY <1>2, <1>3, <1>6, <1>8 DEF IntentInv

LEMMA NextIntentInv ==
    ASSUME ~ShellAllowed
    PROVE  IntentInv /\ IInv /\ HInv /\ [Next]_vars => IntentInv'
<1> SUFFICES ASSUME IntentInv, IInv, HInv, [Next]_vars PROVE IntentInv'
    OBVIOUS
<1>1. CASE (\E r \in Readers : ReadLifecycle(r) \/ ReadStatus(r)) \/ ShutDown \/ UNCHANGED vars
  <2>1. UNCHANGED <<cmd, starter, stopper, run, events>>
      BY <1>1 DEF ReadLifecycle, ReadStatus, ShutDown, vars, callers, seen
  <2> QED BY <2>1 DEF IntentInv, StopIsReportedAsIntended
<1>2. ~CreateShell
    BY DEF CreateShell
<1> QED BY <1>1, <1>2, StartKeepsIntent, StopKeepsIntent, RunKeepsIntent DEF Next

(* Where no console viewer has created the command beforehand, an execution  *)
(* that was told to stop is reported as stopped on purpose.                  *)
THEOREM StopsAreReported ==
    ASSUME ~ShellAllowed
    PROVE  Spec => []StopIsReportedAsIntended
<1>1. IntentInv => StopIsReportedAsIntended
    BY DEF IntentInv
<1>2. IntentInv /\ IInv /\ HInv /\ [Next]_vars => IntentInv'
    BY NextIntentInv
<1>3. Spec => []IntentInv
    BY <1>2, InitIntentInv, Invariant, HistoryInvariant, PTL DEF Spec
<1> QED BY <1>1, <1>3, PTL

-----------------------------------------------------------------------------
(* Actions.                                                                  *)

(* No goroutine of an execution that has been replaced writes to the command *)
(* or publishes an event.                                                    *)
THEOREM OldExecutionsStayInert == Spec => OldExecutionsAreInert
<1>1. IInv /\ HInv /\ [Next]_vars =>
          [(\E g \in Executions : g < cmd.generation /\ run'[g] # run[g])
               => UNCHANGED <<cmd, events>>]_vars
  <2> SUFFICES ASSUME IInv, HInv, Next, NEW g \in Executions, g < cmd.generation, run'[g] # run[g]
               PROVE  UNCHANGED <<cmd, events>>
      OBVIOUS
  <2>1. run \in [Executions -> Runs] /\ cmd \in Commands
      BY DEF IInv, TypeOK
  <2>2. cmd.generation \in Nat /\ g # cmd.generation /\ g # cmd.generation + 1
      BY <2>1 DEF Commands, Executions
  <2>3. ASSUME NEW s \in Starters, StartStep(s) PROVE FALSE
      BY <2>1, <2>2, <2>3
         DEF StartStep, BeginStart, LookupNew, LookupKnown, LockExecution, RefuseStart,
             PrepareKnown, SetupFails, SetupSucceeds, FinishStart, OpenExecution
  <2>4. ASSUME NEW p \in Stoppers, StopStep(p) PROVE UNCHANGED <<cmd, events>>
    <3>1. CASE MarkIntentional(p)
        BY <3>1 DEF MarkIntentional
    <3> QED BY <2>4, <3>1
            DEF StopStep, BeginStop, LockStop, CaptureTarget, NothingToStop, StopFinished,
                StopTimesOut, seen
  <2>5. ASSUME NEW h \in Executions, RunStep(h) \/ ReadyStep(h) \/ ProcessExits(h)
        PROVE  UNCHANGED <<cmd, events>>
    <3>1. \A e \in Executions \ {h} : run'[e] = run[e]
        BY <2>1, <2>5
           DEF RunStep, ReadyStep, ProcessExits, SpawnSucceeds, SpawnFails, AnnounceRecord,
               AnnouncePublish, AnnounceNothing, Reap, Report, InternalEnds, FinalizeOffline,
               FinalizeRecord, FinalizePublish, FinalizeNothing, CloseExecution, MarkReady,
               ReadyRecord, ReadyPublish, AbandonReadiness
    <3>2. h = g
        BY <3>1
    <3> QED BY <2>2, <2>5, <3>2, WriterIsCurrent
  <2>6. (\E r \in Readers : ReadLifecycle(r) \/ ReadStatus(r)) \/ CreateShell \/ ShutDown => FALSE
      BY DEF ReadLifecycle, ReadStatus, CreateShell, ShutDown
  <2> QED BY <2>3, <2>4, <2>5, <2>6 DEF Next
<1> QED BY <1>1, Invariant, HistoryInvariant, PTL DEF Spec, OldExecutionsAreInert

-----------------------------------------------------------------------------
(* Progress.                                                                 *)

(* An execution that has not been spawned has no process.                    *)
ProcessInv ==
    \A g \in Executions : run[g].pc \in {"none", "spawning"} => run[g].proc = "none"

(* What is left of a start call, of a stop call and of an execution: its     *)
(* goroutine, its readiness goroutine and its process.                       *)
StartLeft(s) ==
    CASE starter[s] = "lookup" -> 5
      [] starter[s] = "found" -> 4
      [] starter[s] = "locked" -> 3
      [] starter[s] = "setup" -> 2
      [] starter[s] = "starting" -> 1
      [] OTHER -> 0

StopLeft(p) ==
    CASE stopper[p].pc = "found" -> 4
      [] stopper[p].pc = "locked" -> 3
      [] stopper[p].pc = "marked" -> 2
      [] stopper[p].pc = "waiting" -> 1
      [] OTHER -> 0

PlacesLeft(e) ==
    CASE run[e].pc = "none" -> 10
      [] run[e].pc = "spawning" -> 9
      [] run[e].pc = "announce" -> 8
      [] run[e].pc = "announcing" -> 7
      [] run[e].pc = "running" -> 6
      [] run[e].pc = "reaped" -> 5
      [] run[e].pc = "finalize" -> 4
      [] run[e].pc = "terminal" -> 3
      [] run[e].pc = "publishing" -> 2
      [] run[e].pc = "closing" -> 1
      [] OTHER -> 0

ReadyLeft(e) ==
    CASE run[e].ready = "none" -> 4
      [] run[e].ready = "waiting" -> 3
      [] run[e].ready = "recording" -> 2
      [] run[e].ready = "publishing" -> 1
      [] OTHER -> 0

ProcessLeft(e) ==
    CASE run[e].proc = "none" -> 2
      [] run[e].proc = "alive" -> 1
      [] OTHER -> 0

ExecutionLeft(e) == PlacesLeft(e) + ReadyLeft(e) + ProcessLeft(e)

(* A call takes at most five steps, an execution at most sixteen.            *)
LEMMA LengthTypes ==
    /\ \A s \in Starters : StartLeft(s) \in 0 .. 5
    /\ \A p \in Stoppers : StopLeft(p) \in 0 .. 4
    /\ \A e \in Executions : /\ PlacesLeft(e) \in 0 .. 10
                             /\ ReadyLeft(e) \in 0 .. 4
                             /\ ProcessLeft(e) \in 0 .. 2
                             /\ ExecutionLeft(e) \in 0 .. 16
<1>1. \A s \in Starters : StartLeft(s) \in 0 .. 5
    BY DEF StartLeft
<1>2. \A p \in Stoppers : StopLeft(p) \in 0 .. 4
    BY DEF StopLeft
<1>3. ASSUME NEW e \in Executions
      PROVE  PlacesLeft(e) \in 0 .. 10 /\ ReadyLeft(e) \in 0 .. 4 /\ ProcessLeft(e) \in 0 .. 2
    BY DEF PlacesLeft, ReadyLeft, ProcessLeft
<1>4. \A e \in Executions : ExecutionLeft(e) \in 0 .. 16
    BY <1>3 DEF ExecutionLeft
<1> QED BY <1>1, <1>2, <1>3, <1>4

(* An execution stays where it is.                                           *)
LEMMA SameLength ==
    ASSUME NEW e \in Executions, UNCHANGED <<run[e].pc, run[e].ready, run[e].proc>>
    PROVE  ExecutionLeft(e)' = ExecutionLeft(e)
BY DEF ExecutionLeft, PlacesLeft, ReadyLeft, ProcessLeft

(* A step of an execution's goroutines or of its process brings it further   *)
(* and leaves the other executions and the calls alone.                      *)
LEMMA RunsGoForward ==
    ASSUME IInv, HInv, ProcessInv, NEW g \in Executions,
           RunStep(g) \/ ReadyStep(g) \/ ProcessExits(g)
    PROVE  /\ ExecutionLeft(g)' < ExecutionLeft(g)
           /\ run'[g].pc \notin {"none", "spawning"}
           /\ \A e \in Executions \ {g} : run'[e] = run[e]
           /\ UNCHANGED <<starter, stopper>>
<1>0. /\ PlacesLeft(g) \in 0 .. 10 /\ ReadyLeft(g) \in 0 .. 4 /\ ProcessLeft(g) \in 0 .. 2
      /\ PlacesLeft(g)' \in 0 .. 10 /\ ReadyLeft(g)' \in 0 .. 4 /\ ProcessLeft(g)' \in 0 .. 2
    BY DEF PlacesLeft, ReadyLeft, ProcessLeft
<1>1. run \in [Executions -> Runs] /\ run[g] \in Runs
    BY DEF IInv, TypeOK
<1>2. /\ RunOf(g)
      /\ run[g].proc = "alive" => run[g].pc \in WithProcess
      /\ run[g].pc \in {"none", "spawning"} => run[g].proc = "none"
    BY DEF HInv, History, IInv, OwnerInv, ProcessInv
<1>3. /\ \A e \in Executions \ {g} : run'[e] = run[e]
      /\ UNCHANGED <<starter, stopper>>
  <2>1. CASE RunStep(g)
    <3>1. CASE SpawnSucceeds(g) \/ SpawnFails(g) \/ AnnounceRecord(g) \/ AnnouncePublish(g)
        BY <1>1, <3>1
           DEF SpawnSucceeds, SpawnFails, AnnounceRecord, AnnouncePublish, callers
    <3>2. CASE AnnounceNothing(g) \/ Reap(g) \/ Report(g) \/ InternalEnds(g)
        BY <1>1, <3>2 DEF AnnounceNothing, Reap, Report, InternalEnds, callers
    <3>3. CASE FinalizeOffline(g) \/ FinalizeRecord(g) \/ FinalizePublish(g)
        BY <1>1, <3>3 DEF FinalizeOffline, FinalizeRecord, FinalizePublish, callers
    <3>4. CASE FinalizeNothing(g) \/ CloseExecution(g)
        BY <1>1, <3>4 DEF FinalizeNothing, CloseExecution, callers
    <3> QED BY <2>1, <3>1, <3>2, <3>3, <3>4 DEF RunStep
  <2>2. CASE ReadyStep(g) \/ ProcessExits(g)
      BY <1>1, <2>2
         DEF ReadyStep, ProcessExits, MarkReady, ReadyRecord, ReadyPublish, AbandonReadiness,
             callers
  <2> QED BY <2>1, <2>2
<1>4. CASE SpawnSucceeds(g)
  <2>1. /\ run[g].pc = "spawning" /\ run'[g].pc = "announce"
        /\ run[g].proc = "none" /\ run'[g].proc \in {"none", "alive"} /\ UNCHANGED run[g].ready
      BY <1>1, <1>2, <1>4 DEF SpawnSucceeds, Runs
  <2>2. PlacesLeft(g) = 9 /\ PlacesLeft(g)' = 8
      BY <2>1 DEF PlacesLeft
  <2>3. ReadyLeft(g)' = ReadyLeft(g) /\ ProcessLeft(g) = 2
      BY <2>1 DEF ReadyLeft, ProcessLeft
  <2> QED BY <1>0, <1>3, <2>1, <2>2, <2>3 DEF ExecutionLeft
<1>5. CASE SpawnFails(g)
  <2>1. /\ run[g].pc = "spawning" /\ run'[g].pc = "finalize"
        /\ UNCHANGED <<run[g].ready, run[g].proc>>
      BY <1>1, <1>2, <1>5 DEF SpawnFails, Runs
  <2>2. PlacesLeft(g) = 9 /\ PlacesLeft(g)' = 4
      BY <2>1 DEF PlacesLeft
  <2>3. ReadyLeft(g)' = ReadyLeft(g) /\ ProcessLeft(g)' = ProcessLeft(g)
      BY <2>1 DEF ReadyLeft, ProcessLeft
  <2> QED BY <1>0, <1>3, <2>1, <2>2, <2>3 DEF ExecutionLeft
<1>6. CASE AnnounceRecord(g)
  <2>1. /\ run[g].pc = "announce" /\ run'[g].pc = "announcing"
        /\ UNCHANGED <<run[g].ready, run[g].proc>>
      BY <1>1, <1>2, <1>6 DEF AnnounceRecord, Runs
  <2>2. PlacesLeft(g) = 8 /\ PlacesLeft(g)' = 7
      BY <2>1 DEF PlacesLeft
  <2>3. ReadyLeft(g)' = ReadyLeft(g) /\ ProcessLeft(g)' = ProcessLeft(g)
      BY <2>1 DEF ReadyLeft, ProcessLeft
  <2> QED BY <1>0, <1>3, <2>1, <2>2, <2>3 DEF ExecutionLeft
<1>7. CASE AnnouncePublish(g)
  <2>1. /\ run[g].pc = "announcing" /\ run'[g].pc = "running"
        /\ run[g].ready = "none" /\ run'[g].ready \in {"none", "waiting"} /\ UNCHANGED run[g].proc
      BY <1>1, <1>2, <1>7 DEF AnnouncePublish, RunOf, Started, Finalizing, Ended, Runs
  <2>2. PlacesLeft(g) = 7 /\ PlacesLeft(g)' = 6
      BY <2>1 DEF PlacesLeft
  <2>3. ReadyLeft(g) = 4 /\ ProcessLeft(g)' = ProcessLeft(g)
      BY <2>1 DEF ReadyLeft, ProcessLeft
  <2> QED BY <1>0, <1>3, <2>1, <2>2, <2>3 DEF ExecutionLeft
<1>8. CASE AnnounceNothing(g)
  <2>1. /\ run[g].pc = "announce" /\ run'[g].pc = "running"
        /\ UNCHANGED <<run[g].ready, run[g].proc>>
      BY <1>1, <1>2, <1>8 DEF AnnounceNothing, Runs
  <2>2. PlacesLeft(g) = 8 /\ PlacesLeft(g)' = 6
      BY <2>1 DEF PlacesLeft
  <2>3. ReadyLeft(g)' = ReadyLeft(g) /\ ProcessLeft(g)' = ProcessLeft(g)
      BY <2>1 DEF ReadyLeft, ProcessLeft
  <2> QED BY <1>0, <1>3, <2>1, <2>2, <2>3 DEF ExecutionLeft
<1>9. CASE Reap(g)
  <2>1. /\ run[g].pc = "running" /\ run'[g].pc = "reaped"
        /\ UNCHANGED <<run[g].ready, run[g].proc>>
      BY <1>1, <1>2, <1>9 DEF Reap, Runs
  <2>2. PlacesLeft(g) = 6 /\ PlacesLeft(g)' = 5
      BY <2>1 DEF PlacesLeft
  <2>3. ReadyLeft(g)' = ReadyLeft(g) /\ ProcessLeft(g)' = ProcessLeft(g)
      BY <2>1 DEF ReadyLeft, ProcessLeft
  <2> QED BY <1>0, <1>3, <2>1, <2>2, <2>3 DEF ExecutionLeft
<1>10. CASE Report(g)
  <2>1. /\ run[g].pc = "reaped" /\ run'[g].pc = "finalize"
        /\ UNCHANGED <<run[g].ready, run[g].proc>>
      BY <1>1, <1>2, <1>10 DEF Report, Runs
  <2>2. PlacesLeft(g) = 5 /\ PlacesLeft(g)' = 4
      BY <2>1 DEF PlacesLeft
  <2>3. ReadyLeft(g)' = ReadyLeft(g) /\ ProcessLeft(g)' = ProcessLeft(g)
      BY <2>1 DEF ReadyLeft, ProcessLeft
  <2> QED BY <1>0, <1>3, <2>1, <2>2, <2>3 DEF ExecutionLeft
<1>11. CASE InternalEnds(g)
  <2>1. /\ run[g].pc = "running" /\ run'[g].pc = "finalize"
        /\ UNCHANGED <<run[g].ready, run[g].proc>>
      BY <1>1, <1>2, <1>11 DEF InternalEnds, Runs
  <2>2. PlacesLeft(g) = 6 /\ PlacesLeft(g)' = 4
      BY <2>1 DEF PlacesLeft
  <2>3. ReadyLeft(g)' = ReadyLeft(g) /\ ProcessLeft(g)' = ProcessLeft(g)
      BY <2>1 DEF ReadyLeft, ProcessLeft
  <2> QED BY <1>0, <1>3, <2>1, <2>2, <2>3 DEF ExecutionLeft
<1>12. CASE FinalizeOffline(g)
  <2>1. /\ run[g].pc = "finalize" /\ run'[g].pc \in {"terminal", "done"}
        /\ UNCHANGED <<run[g].ready, run[g].proc>>
      BY <1>1, <1>12 DEF FinalizeOffline, Runs
  <2>2. PlacesLeft(g) = 4 /\ PlacesLeft(g)' \in {0, 3}
      BY <2>1 DEF PlacesLeft
  <2>3. ReadyLeft(g)' = ReadyLeft(g) /\ ProcessLeft(g)' = ProcessLeft(g)
      BY <2>1 DEF ReadyLeft, ProcessLeft
  <2> QED BY <1>0, <1>3, <2>1, <2>2, <2>3 DEF ExecutionLeft
<1>13. CASE FinalizeRecord(g)
  <2>1. /\ run[g].pc = "terminal" /\ run'[g].pc = "publishing"
        /\ UNCHANGED <<run[g].ready, run[g].proc>>
      BY <1>1, <1>2, <1>13 DEF FinalizeRecord, Runs
  <2>2. PlacesLeft(g) = 3 /\ PlacesLeft(g)' = 2
      BY <2>1 DEF PlacesLeft
  <2>3. ReadyLeft(g)' = ReadyLeft(g) /\ ProcessLeft(g)' = ProcessLeft(g)
      BY <2>1 DEF ReadyLeft, ProcessLeft
  <2> QED BY <1>0, <1>3, <2>1, <2>2, <2>3 DEF ExecutionLeft
<1>14. CASE FinalizePublish(g)
  <2>1. /\ run[g].pc = "publishing" /\ run'[g].pc = "closing"
        /\ UNCHANGED <<run[g].ready, run[g].proc>>
      BY <1>1, <1>2, <1>14 DEF FinalizePublish, Runs
  <2>2. PlacesLeft(g) = 2 /\ PlacesLeft(g)' = 1
      BY <2>1 DEF PlacesLeft
  <2>3. ReadyLeft(g)' = ReadyLeft(g) /\ ProcessLeft(g)' = ProcessLeft(g)
      BY <2>1 DEF ReadyLeft, ProcessLeft
  <2> QED BY <1>0, <1>3, <2>1, <2>2, <2>3 DEF ExecutionLeft
<1>15. CASE FinalizeNothing(g)
  <2>1. /\ run[g].pc = "terminal" /\ run'[g].pc = "closing"
        /\ UNCHANGED <<run[g].ready, run[g].proc>>
      BY <1>1, <1>2, <1>15 DEF FinalizeNothing, Runs
  <2>2. PlacesLeft(g) = 3 /\ PlacesLeft(g)' = 1
      BY <2>1 DEF PlacesLeft
  <2>3. ReadyLeft(g)' = ReadyLeft(g) /\ ProcessLeft(g)' = ProcessLeft(g)
      BY <2>1 DEF ReadyLeft, ProcessLeft
  <2> QED BY <1>0, <1>3, <2>1, <2>2, <2>3 DEF ExecutionLeft
<1>16. CASE CloseExecution(g)
  <2>1. /\ run[g].pc = "closing" /\ run'[g].pc = "done"
        /\ UNCHANGED <<run[g].ready, run[g].proc>>
      BY <1>1, <1>2, <1>16 DEF CloseExecution, Runs
  <2>2. PlacesLeft(g) = 1 /\ PlacesLeft(g)' = 0
      BY <2>1 DEF PlacesLeft
  <2>3. ReadyLeft(g)' = ReadyLeft(g) /\ ProcessLeft(g)' = ProcessLeft(g)
      BY <2>1 DEF ReadyLeft, ProcessLeft
  <2> QED BY <1>0, <1>3, <2>1, <2>2, <2>3 DEF ExecutionLeft
<1>17. CASE MarkReady(g)
  <2>1. /\ run[g].ready = "waiting" /\ run'[g].ready \in {"recording", "done"}
        /\ UNCHANGED <<run[g].pc, run[g].proc>>
      BY <1>1, <1>17 DEF MarkReady, Runs
  <2>2. run[g].pc \notin {"none", "spawning"}
      BY <1>2, <2>1 DEF RunOf, Started, Finalizing, Ended
  <2>3. ReadyLeft(g) = 3 /\ ReadyLeft(g)' \in {0, 2}
      BY <2>1 DEF ReadyLeft
  <2>4. PlacesLeft(g)' = PlacesLeft(g) /\ ProcessLeft(g)' = ProcessLeft(g)
      BY <2>1 DEF PlacesLeft, ProcessLeft
  <2> QED BY <1>0, <1>3, <2>1, <2>2, <2>3, <2>4 DEF ExecutionLeft
<1>18. CASE ReadyRecord(g)
  <2>1. /\ run[g].ready = "recording" /\ run'[g].ready = "publishing"
        /\ UNCHANGED <<run[g].pc, run[g].proc>>
      BY <1>1, <1>18 DEF ReadyRecord, Runs
  <2>2. run[g].pc \notin {"none", "spawning"}
      BY <1>2, <2>1 DEF RunOf, Started, Finalizing, Ended
  <2>3. ReadyLeft(g) = 2 /\ ReadyLeft(g)' = 1
      BY <2>1 DEF ReadyLeft
  <2>4. PlacesLeft(g)' = PlacesLeft(g) /\ ProcessLeft(g)' = ProcessLeft(g)
      BY <2>1 DEF PlacesLeft, ProcessLeft
  <2> QED BY <1>0, <1>3, <2>1, <2>2, <2>3, <2>4 DEF ExecutionLeft
<1>19. CASE ReadyPublish(g)
  <2>1. /\ run[g].ready = "publishing" /\ run'[g].ready = "done"
        /\ UNCHANGED <<run[g].pc, run[g].proc>>
      BY <1>1, <1>19 DEF ReadyPublish, Runs
  <2>2. run[g].pc \notin {"none", "spawning"}
      BY <1>2, <2>1 DEF RunOf, Started, Finalizing, Ended
  <2>3. ReadyLeft(g) = 1 /\ ReadyLeft(g)' = 0
      BY <2>1 DEF ReadyLeft
  <2>4. PlacesLeft(g)' = PlacesLeft(g) /\ ProcessLeft(g)' = ProcessLeft(g)
      BY <2>1 DEF PlacesLeft, ProcessLeft
  <2> QED BY <1>0, <1>3, <2>1, <2>2, <2>3, <2>4 DEF ExecutionLeft
<1>20. CASE AbandonReadiness(g)
  <2>1. /\ run[g].ready = "waiting" /\ run'[g].ready = "done"
        /\ UNCHANGED <<run[g].pc, run[g].proc>>
      BY <1>1, <1>20 DEF AbandonReadiness, Runs
  <2>2. run[g].pc \notin {"none", "spawning"}
      BY <1>2, <2>1 DEF RunOf, Started, Finalizing, Ended
  <2>3. ReadyLeft(g) = 3 /\ ReadyLeft(g)' = 0
      BY <2>1 DEF ReadyLeft
  <2>4. PlacesLeft(g)' = PlacesLeft(g) /\ ProcessLeft(g)' = ProcessLeft(g)
      BY <2>1 DEF PlacesLeft, ProcessLeft
  <2> QED BY <1>0, <1>3, <2>1, <2>2, <2>3, <2>4 DEF ExecutionLeft
<1>21. CASE ProcessExits(g)
  <2>1. /\ run[g].proc = "alive" /\ run'[g].proc \in {"clean", "failed", "signaled"}
        /\ UNCHANGED <<run[g].pc, run[g].ready>>
      BY <1>1, <1>21 DEF ProcessExits, Runs
  <2>2. run[g].pc \notin {"none", "spawning"}
      BY <1>2, <2>1 DEF WithProcess
  <2>3. ProcessLeft(g) = 1 /\ ProcessLeft(g)' = 0
      BY <2>1 DEF ProcessLeft
  <2>4. PlacesLeft(g)' = PlacesLeft(g) /\ ReadyLeft(g)' = ReadyLeft(g)
      BY <2>1 DEF PlacesLeft, ReadyLeft
  <2> QED BY <1>0, <1>3, <2>1, <2>2, <2>3, <2>4 DEF ExecutionLeft
<1> QED BY <1>4, <1>5, <1>6, <1>7, <1>8, <1>9, <1>10, <1>11, <1>12,
           <1>13, <1>14, <1>15, <1>16, <1>17, <1>18, <1>19, <1>20, <1>21
       DEF RunStep, ReadyStep

(* So does a step of a start call, which touches the execution it prepares   *)
(* only before that has begun.                                               *)
LEMMA StartsGoForward ==
    ASSUME IInv, HInv, ProcessInv, NEW s \in Starters, StartStep(s)
    PROVE  /\ starter[s] # "idle" => StartLeft(s)' < StartLeft(s)
           /\ \A t \in Starters \ {s} : starter'[t] = starter[t]
           /\ stopper' = stopper
           /\ \A e \in Executions : /\ ExecutionLeft(e)' <= ExecutionLeft(e)
                                    /\ run'[e].pc \in {"none", "spawning"} => run'[e].proc = "none"
<1>1. /\ run \in [Executions -> Runs] /\ starter \in [Starters -> {"idle", "lookup", "found", "locked", "setup", "starting"}]
      /\ cmd \in Commands /\ TypeOK
    BY DEF IInv, TypeOK
<1>2. starter[s] # "idle" => StartLeft(s)' < StartLeft(s)
    BY <1>1 DEF StartStep, BeginStart, LookupNew, LookupKnown, LockExecution, RefuseStart,
           PrepareKnown, SetupFails, SetupSucceeds, FinishStart, ReleaseStart, StartLeft
<1>3. (\A t \in Starters \ {s} : starter'[t] = starter[t]) /\ stopper' = stopper
    BY <1>1 DEF StartStep, BeginStart, LookupNew, LookupKnown, LockExecution, RefuseStart,
           PrepareKnown, SetupFails, SetupSucceeds, FinishStart, ReleaseStart, callers
<1> DEFINE Keeps(e) == /\ ExecutionLeft(e)' <= ExecutionLeft(e)
                       /\ run'[e].pc \in {"none", "spawning"} => run'[e].proc = "none"
<1>4. ASSUME NEW e \in Executions, run'[e] = run[e] PROVE Keeps(e)
  <2>1. ExecutionLeft(e)' = ExecutionLeft(e) /\ ExecutionLeft(e) \in 0 .. 16
      BY <1>4, SameLength, LengthTypes
  <2> QED BY <1>4, <2>1 DEF ProcessInv
<1>5. ASSUME NEW e \in Executions, run[e].pc = "none", run'[e].pc \in {"none", "spawning"},
             run'[e].ready = "none", run'[e].proc = "none"
      PROVE  Keeps(e)
  <2>1. run[e].ready = "none" /\ run[e].proc = "none"
      BY <1>5, Unused DEF ProcessInv
  <2> QED BY <1>5, <2>1 DEF ExecutionLeft, PlacesLeft, ReadyLeft, ProcessLeft
<1> HIDE DEF Keeps
<1>6. ASSUME NEW e \in Executions, LookupNew(s) \/ PrepareKnown(s) PROVE Keeps(e)
  <2>1. PICK kind \in Kinds : OpenExecution(kind)
      BY <1>6 DEF LookupNew, PrepareKnown
  <2>2. cmd.generation < MaxExecutions
      BY <1>6 DEF IInv, StarterInv, LookupNew, PrepareKnown
  <2>3. CASE e = cmd.generation + 1
    <3>1. run[e].pc = "none"
        BY <1>1, <2>3 DEF HInv, OrderInv, Commands, Executions
    <3>2. run'[e].pc = "none" /\ run'[e].ready = "none" /\ run'[e].proc = "none"
        BY <1>1, <2>1, <2>3 DEF OpenExecution, NoRun
    <3> QED BY <1>5, <3>1, <3>2
  <2>4. CASE e # cmd.generation + 1
    <3>1. run'[e] = run[e]
        BY <1>1, <2>1, <2>4 DEF OpenExecution
    <3> QED BY <1>4, <3>1
  <2> QED BY <2>3, <2>4
<1>7. ASSUME NEW e \in Executions, SetupFails(s) \/ SetupSucceeds(s) PROVE Keeps(e)
  <2>1. cmd.generation \in Executions /\ run[cmd.generation].pc = "none"
      BY <1>7, Preparing DEF SetupFails, SetupSucceeds
  <2>2. CASE e = cmd.generation
    <3>1. run[e].ready = "none" /\ run[e].proc = "none"
        BY <2>1, <2>2, Unused DEF ProcessInv
    <3>2. run'[e].pc \in {"none", "spawning"} /\ run'[e].ready = "none" /\ run'[e].proc = "none"
        BY <1>1, <1>7, <2>1, <2>2, <3>1 DEF SetupFails, SetupSucceeds, NoRun, Runs
    <3> QED BY <1>5, <2>1, <2>2, <3>2
  <2>3. CASE e # cmd.generation
    <3>1. run'[e] = run[e]
        BY <1>1, <1>7, <2>3 DEF SetupFails, SetupSucceeds
    <3> QED BY <1>4, <3>1
  <2> QED BY <2>2, <2>3
<1>8. ASSUME NEW e \in Executions,
             BeginStart(s) \/ LookupKnown(s) \/ LockExecution(s) \/ RefuseStart(s) \/ FinishStart(s)
      PROVE  Keeps(e)
    BY <1>4, <1>8 DEF BeginStart, LookupKnown, LockExecution, RefuseStart, FinishStart
<1>9. \A e \in Executions : Keeps(e)
    BY <1>6, <1>7, <1>8 DEF StartStep
<1> QED BY <1>2, <1>3, <1>9 DEF Keeps

(* And a step of a stop call.                                                *)
LEMMA StopsGoForward ==
    ASSUME IInv, ProcessInv, NEW p \in Stoppers, StopStep(p)
    PROVE  /\ stopper[p].pc # "idle" => StopLeft(p)' < StopLeft(p)
           /\ \A q \in Stoppers \ {p} : stopper'[q] = stopper[q]
           /\ starter' = starter
           /\ \A e \in Executions : /\ ExecutionLeft(e)' <= ExecutionLeft(e)
                                    /\ run'[e].pc \in {"none", "spawning"} => run'[e].proc = "none"
<1>1. run \in [Executions -> Runs] /\ stopper \in [Stoppers -> StopCalls] /\ stopper[p] \in StopCalls
    BY DEF IInv, TypeOK
<1>2. stopper[p].pc # "idle" => StopLeft(p)' < StopLeft(p)
    BY <1>1 DEF StopStep, BeginStop, LockStop, MarkIntentional, CaptureTarget, NothingToStop,
           StopFinished, StopTimesOut, ReleaseStop, StopLeft, StopCalls
<1>3. (\A q \in Stoppers \ {p} : stopper'[q] = stopper[q]) /\ starter' = starter
    BY <1>1 DEF StopStep, BeginStop, LockStop, MarkIntentional, CaptureTarget, NothingToStop,
           StopFinished, StopTimesOut, ReleaseStop
<1>4. ASSUME NEW e \in Executions
      PROVE  UNCHANGED <<run[e].pc, run[e].ready, run[e].proc>>
  <2>1. CASE CaptureTarget(p) \/ StopTimesOut(p)
      BY <1>1, <2>1 DEF CaptureTarget, StopTimesOut, Runs
  <2>2. CASE run' = run
      BY <2>2
  <2> QED BY <2>1, <2>2
          DEF StopStep, BeginStop, LockStop, MarkIntentional, NothingToStop, StopFinished
<1>5. \A e \in Executions : ExecutionLeft(e)' = ExecutionLeft(e) /\ ExecutionLeft(e) \in 0 .. 16
    BY <1>4, SameLength, LengthTypes
<1>6. \A e \in Executions : run'[e].pc \in {"none", "spawning"} => run'[e].proc = "none"
    BY <1>4 DEF ProcessInv
<1> QED BY <1>2, <1>3, <1>5, <1>6

(* No step sends a call or an execution back, and its own steps bring it     *)
(* further.                                                                  *)
Forward ==
    /\ \A s \in Starters : /\ starter[s] # "idle" => StartLeft(s)' <= StartLeft(s)
                           /\ StartGoesOn(s) => StartLeft(s)' < StartLeft(s)
    /\ \A p \in Stoppers : /\ stopper[p].pc # "idle" => StopLeft(p)' <= StopLeft(p)
                           /\ StopGoesOn(p) => StopLeft(p)' < StopLeft(p)
    /\ \A e \in Executions :
          /\ ExecutionLeft(e)' <= ExecutionLeft(e)
          /\ RunStep(e) \/ ReadyStep(e) \/ ProcessExits(e) => ExecutionLeft(e)' < ExecutionLeft(e)

(* What can be left.                                                         *)
Lengths ==
    /\ \A s \in Starters : StartLeft(s) \in 0 .. 5
    /\ \A p \in Stoppers : StopLeft(p) \in 0 .. 4
    /\ \A e \in Executions : ExecutionLeft(e) \in 0 .. 16

(* Every step is one of these, or touches no call and no execution.          *)
LEMMA StepsGoForward ==
    ASSUME IInv, HInv, ProcessInv, Next
    PROVE  Forward /\ ProcessInv'
<1>1. /\ \A s \in Starters : StartLeft(s) \in 0 .. 5
      /\ \A p \in Stoppers : StopLeft(p) \in 0 .. 4
      /\ \A e \in Executions : ExecutionLeft(e) \in 0 .. 16
    BY LengthTypes
<1>a. /\ \A s \in Starters : StartLeft(s)' \in 0 .. 5
      /\ \A p \in Stoppers : StopLeft(p)' \in 0 .. 4
    BY DEF StartLeft, StopLeft
<1>b. \A e \in Executions : ExecutionLeft(e)' \in 0 .. 16
  <2> SUFFICES ASSUME NEW e \in Executions PROVE ExecutionLeft(e)' \in 0 .. 16
      OBVIOUS
  <2>1. /\ PlacesLeft(e)' \in 0 .. 10 /\ ReadyLeft(e)' \in 0 .. 4
        /\ ProcessLeft(e)' \in 0 .. 2
      BY DEF PlacesLeft, ReadyLeft, ProcessLeft
  <2> QED BY <2>1 DEF ExecutionLeft
<1> DEFINE StartsStay == \A s \in Starters : starter[s] # "idle" => StartLeft(s)' <= StartLeft(s)
           StopsStay == \A p \in Stoppers : stopper[p].pc # "idle" => StopLeft(p)' <= StopLeft(p)
           RunsStay == \A e \in Executions :
               /\ ExecutionLeft(e)' <= ExecutionLeft(e)
               /\ run'[e].pc \in {"none", "spawning"} => run'[e].proc = "none"
<1>2. ASSUME NEW s \in Starters, starter'[s] = starter[s] PROVE StartLeft(s)' <= StartLeft(s)
  <2>1. StartLeft(s)' = StartLeft(s)
      BY <1>2 DEF StartLeft
  <2> QED BY <1>1, <2>1
<1>3. ASSUME NEW p \in Stoppers, stopper'[p] = stopper[p] PROVE StopLeft(p)' <= StopLeft(p)
  <2>1. StopLeft(p)' = StopLeft(p)
      BY <1>3 DEF StopLeft
  <2> QED BY <1>1, <2>1
<1>4. ASSUME NEW e \in Executions, run'[e] = run[e]
      PROVE  /\ ExecutionLeft(e)' <= ExecutionLeft(e)
             /\ run'[e].pc \in {"none", "spawning"} => run'[e].proc = "none"
  <2>1. ExecutionLeft(e)' = ExecutionLeft(e)
      BY <1>4, SameLength
  <2> QED BY <1>1, <1>4, <2>1 DEF ProcessInv
<1>5. StartsStay /\ StopsStay /\ RunsStay
  <2>1. ASSUME NEW s \in Starters, StartStep(s) PROVE StartsStay /\ StopsStay /\ RunsStay
    <3>1. ASSUME NEW t \in Starters, starter[t] # "idle" PROVE StartLeft(t)' <= StartLeft(t)
      <4>1. CASE t = s
          BY <1>1, <1>a, <2>1, <3>1, <4>1, StartsGoForward
      <4>2. CASE t # s
          BY <1>2, <2>1, <4>2, StartsGoForward
      <4> QED BY <4>1, <4>2
    <3>2. StopsStay
        BY <1>3, <2>1, StartsGoForward
    <3>3. RunsStay
        BY <2>1, StartsGoForward
    <3> QED BY <3>1, <3>2, <3>3
  <2>2. ASSUME NEW p \in Stoppers, StopStep(p) PROVE StartsStay /\ StopsStay /\ RunsStay
    <3>1. ASSUME NEW q \in Stoppers, stopper[q].pc # "idle" PROVE StopLeft(q)' <= StopLeft(q)
      <4>1. CASE q = p
          BY <1>1, <1>a, <2>2, <3>1, <4>1, StopsGoForward
      <4>2. CASE q # p
          BY <1>3, <2>2, <4>2, StopsGoForward
      <4> QED BY <4>1, <4>2
    <3>2. StartsStay
        BY <1>2, <2>2, StopsGoForward
    <3>3. RunsStay
        BY <2>2, StopsGoForward
    <3> QED BY <3>1, <3>2, <3>3
  <2>3. ASSUME NEW g \in Executions, RunStep(g) \/ ReadyStep(g) \/ ProcessExits(g)
        PROVE  StartsStay /\ StopsStay /\ RunsStay
    <3>1. ASSUME NEW e \in Executions
          PROVE  /\ ExecutionLeft(e)' <= ExecutionLeft(e)
                 /\ run'[e].pc \in {"none", "spawning"} => run'[e].proc = "none"
      <4>1. CASE e = g
          BY <1>1, <1>b, <2>3, <4>1, RunsGoForward
      <4>2. CASE e # g
          BY <1>4, <2>3, <4>2, RunsGoForward
      <4> QED BY <4>1, <4>2
    <3>2. StartsStay /\ StopsStay
        BY <1>2, <1>3, <2>3, RunsGoForward
    <3> QED BY <3>1, <3>2
  <2>4. CASE (\E r \in Readers : ReadLifecycle(r) \/ ReadStatus(r)) \/ CreateShell \/ ShutDown
    <3>1. UNCHANGED <<starter, stopper, run>>
        BY <2>4 DEF ReadLifecycle, ReadStatus, CreateShell, ShutDown, callers
    <3> QED BY <1>2, <1>3, <1>4, <3>1
  <2> HIDE DEF StartsStay, StopsStay, RunsStay
  <2> QED BY <2>1, <2>2, <2>3, <2>4 DEF Next
<1>6. \A s \in Starters : StartGoesOn(s) => StartLeft(s)' < StartLeft(s)
    BY StartsGoForward DEF StartGoesOn
<1>7. \A p \in Stoppers : StopGoesOn(p) => StopLeft(p)' < StopLeft(p)
    BY StopsGoForward DEF StopGoesOn
<1>8. \A e \in Executions :
          RunStep(e) \/ ReadyStep(e) \/ ProcessExits(e) => ExecutionLeft(e)' < ExecutionLeft(e)
    BY RunsGoForward
<1>9. ProcessInv'
    BY <1>5 DEF ProcessInv
<1> QED BY <1>5, <1>6, <1>7, <1>8, <1>9 DEF Forward

(* Calls and executions go forward: a start call has at most five steps left,*)
(* a stop call four and an execution, with its readiness goroutine and its   *)
(* process, sixteen; nothing another caller, goroutine or process does, no   *)
(* snapshot and no shutdown sends one of them back, and each of its own      *)
(* steps brings it nearer to its return or its end.  So no call goes round   *)
(* and round, and no execution is finalized, announced or reaped twice       *)
(* (supervisor.go, command.go, runner.go).                                   *)
THEOREM CallsAndExecutionsGoForward ==
    Spec => []Lengths /\ [][Forward]_vars
<1>1. Lengths
    BY LengthTypes DEF Lengths
<1>2. Init => ProcessInv
    BY DEF Init, NoRun, ProcessInv
<1>3. IInv /\ HInv /\ ProcessInv /\ [Next]_vars => ProcessInv' /\ [Forward]_vars
  <2>1. IInv /\ HInv /\ ProcessInv /\ Next => Forward /\ ProcessInv'
      BY StepsGoForward
  <2>2. ProcessInv /\ UNCHANGED vars => ProcessInv'
      BY DEF ProcessInv, vars
  <2> QED BY <2>1, <2>2
<1>4. []Lengths
    BY <1>1, PTL
<1> QED BY <1>2, <1>3, <1>4, Invariant, HistoryInvariant, PTL DEF Spec

-----------------------------------------------------------------------------
(* The events implement ExecutionLog.                                        *)

Transitions == [execution : 0 .. MaxExecutions, sequence : Nat, old : Statuses, new : Statuses]
Transition(ev) == Log!Entry(ev.execution, ev.sequence, ev.old, ev.new)
LogFrom(s) == [i \in DOMAIN s |-> Transition(s[i])]

LEMMA LogFromEvents == EventLog = LogFrom(events)
BY DEF EventLog, LogFrom, Transition, Log!Entry

(* The log has an entry for every event.                                     *)
LEMMA LogFromFacts ==
    ASSUME NEW s \in Seq(Events)
    PROVE  /\ LogFrom(s) \in Seq(Transitions)
           /\ Len(LogFrom(s)) = Len(s)
           /\ \A i \in 1 .. Len(s) : LogFrom(s)[i] = Transition(s[i])
<1>1. Len(s) \in Nat /\ DOMAIN s = 1 .. Len(s) /\ \A i \in 1 .. Len(s) : s[i] \in Events
    BY LenProperties
<1>2. \A i \in 1 .. Len(s) : Transition(s[i]) \in Transitions
    BY <1>1 DEF Events, Transition, Transitions, Log!Entry
<1>3. LogFrom(s) \in [1 .. Len(s) -> Transitions]
    BY <1>1, <1>2 DEF LogFrom
<1>4. LogFrom(s) \in Seq(Transitions)
    BY <1>1, <1>3, SeqDef
<1>5. Len(LogFrom(s)) \in Nat /\ DOMAIN LogFrom(s) = 1 .. Len(LogFrom(s))
    BY <1>4, LenProperties
<1>6. 1 .. Len(LogFrom(s)) = 1 .. Len(s)
    BY <1>3, <1>5
<1>7. Len(LogFrom(s)) = Len(s)
  <2>1. ASSUME NEW m \in Nat, NEW n \in Nat, 1 .. m = 1 .. n PROVE m <= n
    <3>1. m > 0 => m \in 1 .. m
        OBVIOUS
    <3> QED BY <2>1, <3>1
  <2> DEFINE k == Len(LogFrom(s))
             l == Len(s)
  <2>2. k \in Nat /\ l \in Nat /\ 1 .. k = 1 .. l
      BY <1>1, <1>5, <1>6
  <2> HIDE DEF k, l
  <2>3. k <= l /\ l <= k
      BY <2>1, <2>2
  <2> QED BY <2>2, <2>3 DEF k, l
<1> QED BY <1>1, <1>4, <1>7 DEF LogFrom

(* Publishing an event appends its transition to the log.                    *)
LEMMA LogGrows ==
    ASSUME NEW s \in Seq(Events), NEW ev \in Events
    PROVE  LogFrom(Append(s, ev)) = Append(LogFrom(s), Transition(ev))
<1>1. Transition(ev) \in Transitions
    BY DEF Events, Transition, Transitions, Log!Entry
<1> DEFINE t == Append(s, ev)
           left == LogFrom(t)
           right == Append(LogFrom(s), Transition(ev))
<1>2. /\ t \in Seq(Events) /\ Len(s) \in Nat /\ Len(t) = Len(s) + 1
      /\ \A i \in 1 .. Len(s) : t[i] = s[i]
      /\ t[Len(s) + 1] = ev
    BY AppendFacts
<1>3. /\ LogFrom(s) \in Seq(Transitions) /\ Len(LogFrom(s)) = Len(s)
      /\ \A i \in 1 .. Len(s) : LogFrom(s)[i] = Transition(s[i])
    BY LogFromFacts
<1>4. /\ right \in Seq(Transitions) /\ Len(right) = Len(s) + 1
      /\ \A i \in 1 .. Len(s) : right[i] = LogFrom(s)[i]
      /\ right[Len(s) + 1] = Transition(ev)
    BY <1>1, <1>3, AppendFacts
<1> HIDE DEF t
<1>5. /\ left \in Seq(Transitions) /\ Len(left) = Len(s) + 1
      /\ \A i \in 1 .. Len(s) + 1 : left[i] = Transition(t[i])
    BY <1>2, LogFromFacts
<1> HIDE DEF left, right
<1>6. ASSUME NEW i \in 1 .. Len(s) + 1 PROVE left[i] = right[i]
  <2>1. CASE i \in 1 .. Len(s)
      BY <1>2, <1>3, <1>4, <1>5, <2>1
  <2>2. CASE i = Len(s) + 1
      BY <1>2, <1>4, <1>5, <2>2
  <2> QED BY <1>2, <2>1, <2>2
<1>7. left = right
    BY <1>4, <1>5, <1>6, SeqEqual
<1> QED BY <1>7 DEF left, right, t

(* The end of the log.                                                       *)
LEMMA LogEnd ==
    ASSUME IInv
    PROVE  /\ EventLog = <<>> <=> events = <<>>
           /\ events # <<>> => EventLog[Len(EventLog)] = Transition(LastEvent)
<1>1. events \in Seq(Events)
    BY DEF IInv, TypeOK
<1>2. /\ EventLog \in Seq(Transitions) /\ Len(EventLog) = Len(events)
      /\ \A i \in 1 .. Len(events) : EventLog[i] = Transition(events[i])
    BY <1>1, LogFromFacts, LogFromEvents
<1>3. EventLog = <<>> <=> Len(EventLog) = 0
    BY <1>2, EmptySeq
<1>4. events = <<>> <=> Len(events) = 0
    BY <1>1, EmptySeq
<1>5. events # <<>> => Len(events) \in 1 .. Len(events)
    BY <1>1, EmptySeq
<1> QED BY <1>2, <1>3, <1>4, <1>5 DEF LastEvent

LEMMA LogStep ==
    ASSUME IInv, HInv, [Next]_vars
    PROVE  [Log!Next]_EventLog
<1>1. events \in Seq(Events) /\ TypeOK
    BY DEF IInv, TypeOK
<1>2. UNCHANGED events => UNCHANGED EventLog
    BY DEF EventLog
<1>3. ASSUME NEW ev \in Events, events' = Append(events, ev)
      PROVE  EventLog' = Append(EventLog, Transition(ev))
  <2>1. EventLog' = LogFrom(events')
      BY DEF EventLog, LogFrom, Transition, Log!Entry
  <2> QED BY <1>1, <1>3, <2>1, LogFromEvents, LogGrows
<1>4. ASSUME NEW g \in Executions, cmd.generation = g, ~Announced(g)
      PROVE  Log!Over
  <2> SUFFICES ASSUME events # <<>>, LastEvent.new # "OFFLINE"
               PROVE  FALSE
      BY LogEnd DEF Log!Over, Transition, Log!Entry
  <2>1. Announced(LastEvent.execution)
      BY DEF HInv, TopInv
  <2>2. Len(events) \in DOMAIN events
      BY <1>1
  <2>3. LastEvent.execution \in Executions
      BY <1>1, <2>2, EventOwners DEF LastEvent
  <2>4. Active(LastEvent.execution)
      BY <2>1 DEF Announced, Active, Started, Owning
  <2>5. cmd.generation = LastEvent.execution
      BY <2>3, <2>4, ActiveIsCurrent DEF IInv, HInv, History
  <2> QED BY <1>4, <2>1, <2>5
<1>5. ASSUME NEW g \in Executions, AnnouncePublish(g)
      PROVE  Log!Open
  <2>1. run[g].pc = "announcing" /\ History(g) /\ cmd.generation = g /\ cmd.status # "OFFLINE"
      BY <1>5 DEF AnnouncePublish, HInv, IInv, OwnerInv, Owning
  <2>2. Pending(g) /\ ~Announced(g) /\ run[g].pc \notin Ended
      BY <2>1 DEF Pending, Announced, Started, Finalizing, Ended
  <2>3. /\ run[g].draft.execution = g /\ run[g].draft.sequence = 1
        /\ run[g].draft.old = "OFFLINE" /\ run[g].draft.new = cmd.status
        /\ \A i \in DOMAIN events : events[i].execution < g
      BY <2>1, <2>2 DEF History, DraftOf, LogOf
  <2>4. PICK ev \in Events :
            /\ events' = Append(events, ev) /\ ev.execution = g /\ ev.sequence = 1
            /\ ev.old = "OFFLINE" /\ ev.new = cmd.status
      BY <1>5, <2>3, PublishedEvent DEF AnnouncePublish
  <2>5. EventLog' = Append(EventLog, Log!Entry(g, 1, "OFFLINE", cmd.status))
      BY <1>3, <2>4 DEF Transition
  <2>6. cmd.status \in Log!Opening
      BY <2>1 DEF HInv, StatusInv, Opening, Log!Opening
  <2>7. EventLog # <<>> => Log!Last.execution < g
    <3>1. events # <<>> => LastEvent.execution < g
        BY <1>1, <2>3 DEF LastEvent
    <3> QED BY <3>1, LogEnd DEF Log!Last, Transition, Log!Entry
  <2> QED BY <1>4, <2>1, <2>2, <2>5, <2>6, <2>7 DEF Log!Open, Executions
<1>6. ASSUME NEW g \in Executions, ReadyPublish(g)
      PROVE  Log!Ready
  <2>1. run[g].ready = "publishing" /\ History(g)
      BY <1>6 DEF ReadyPublish, HInv
  <2>2. Publishing(g) /\ Pending(g) /\ run[g].pc \in Started
      BY <2>1 DEF Publishing, Pending, History, CommandOf
  <2>3. Announced(g) /\ Shown(g) = "PRE_START"
      BY <2>1, <2>2
         DEF History, RunOf, Announced, Shown, Started, Finalizing, IsSuppressed
  <2>4. /\ events # <<>> /\ LastEvent.execution = g /\ LastEvent.new = "PRE_START"
        /\ cmd.sequence = LastEvent.sequence + 1
      BY <2>1, <2>2, <2>3 DEF History, LogOf
  <2>5. /\ run[g].draft.execution = g /\ run[g].draft.sequence = cmd.sequence
        /\ run[g].draft.old = "PRE_START" /\ run[g].draft.new = "ONLINE"
      BY <2>1, <2>2 DEF History, DraftOf
  <2>6. PICK ev \in Events :
            /\ events' = Append(events, ev) /\ ev.execution = g
            /\ ev.sequence = LastEvent.sequence + 1
            /\ ev.old = "PRE_START" /\ ev.new = "ONLINE"
      BY <1>6, <2>4, <2>5, PublishedEvent DEF ReadyPublish
  <2>7. /\ Log!Last.execution = g /\ Log!Last.new = "PRE_START"
        /\ Log!Last.sequence = LastEvent.sequence /\ ~Log!Over
      BY <2>4, LogEnd DEF Log!Last, Log!Over, Transition, Log!Entry
  <2> QED BY <1>3, <2>6, <2>7 DEF Log!Ready, Transition
<1>7. ASSUME NEW g \in Executions, FinalizePublish(g)
      PROVE  Log!Close \/ Log!Fail
  <2>1. run[g].pc = "publishing" /\ History(g) /\ Pending(g)
      BY <1>7 DEF FinalizePublish, HInv, Pending
  <2>2. cmd.generation = g /\ run[g].old \in Opening
      BY <2>1 DEF History, CommandOf, Finalizing
  <2>3. /\ run[g].draft.execution = g /\ run[g].draft.sequence = cmd.sequence
        /\ run[g].draft.old = run[g].old /\ run[g].draft.new = "OFFLINE"
      BY <2>1 DEF History, DraftOf
  <2>4. PICK ev \in Events :
            /\ events' = Append(events, ev) /\ ev.execution = g
            /\ ev.sequence = cmd.sequence
            /\ ev.old = run[g].old /\ ev.new = "OFFLINE"
      BY <1>7, <2>3, PublishedEvent DEF FinalizePublish
  <2>5. EventLog' = Append(EventLog, Log!Entry(g, cmd.sequence, run[g].old, "OFFLINE"))
      BY <1>3, <2>4 DEF Transition
  <2>6. CASE Announced(g)
    <3>1. /\ events # <<>> /\ LastEvent.execution = g /\ LastEvent.new = run[g].old
          /\ cmd.sequence = LastEvent.sequence + 1
        BY <2>1, <2>6 DEF History, LogOf, Shown, Finalizing
    <3>2. /\ Log!Last.execution = g /\ Log!Last.new = run[g].old
          /\ Log!Last.sequence = LastEvent.sequence /\ ~Log!Over
        BY <2>2, <3>1, LogEnd DEF Log!Last, Log!Over, Transition, Log!Entry, Opening
    <3> QED BY <2>5, <3>1, <3>2 DEF Log!Close
  <2>7. CASE ~Announced(g)
    <3>1. cmd.sequence = 1 /\ \A i \in DOMAIN events : events[i].execution < g
        BY <2>1, <2>2, <2>7 DEF History, LogOf, Ended
    <3>2. EventLog # <<>> => Log!Last.execution < g
      <4>1. events # <<>> => LastEvent.execution < g
          BY <1>1, <3>1 DEF LastEvent
      <4> QED BY <4>1, LogEnd DEF Log!Last, Transition, Log!Entry
    <3>3. run[g].old \in Log!Opening
        BY <2>2 DEF Opening, Log!Opening
    <3> QED BY <1>4, <2>2, <2>5, <2>7, <3>1, <3>2, <3>3 DEF Log!Fail, Executions
  <2> QED BY <2>6, <2>7
<1>8. ASSUME NEW g \in Executions, RunStep(g) \/ ReadyStep(g) \/ ProcessExits(g)
      PROVE  \/ UNCHANGED events
             \/ AnnouncePublish(g) \/ ReadyPublish(g) \/ FinalizePublish(g)
    BY <1>8
       DEF RunStep, ReadyStep, ProcessExits, SpawnSucceeds, SpawnFails, AnnounceRecord,
           AnnounceNothing, Reap, Report, InternalEnds, FinalizeOffline, FinalizeRecord,
           FinalizeNothing, CloseExecution, MarkReady, ReadyRecord, AbandonReadiness, seen
<1>9. ASSUME NEW s \in Starters, StartStep(s) PROVE UNCHANGED events
    BY <1>9
       DEF StartStep, BeginStart, LookupNew, LookupKnown, LockExecution, RefuseStart,
           PrepareKnown, SetupFails, SetupSucceeds, FinishStart, seen
<1>10. ASSUME NEW p \in Stoppers, StopStep(p) PROVE UNCHANGED events
    BY <1>10
       DEF StopStep, BeginStop, LockStop, MarkIntentional, CaptureTarget, NothingToStop,
           StopFinished, StopTimesOut, seen
<1>11. ASSUME \/ \E r \in Readers : ReadLifecycle(r) \/ ReadStatus(r)
              \/ CreateShell \/ ShutDown \/ UNCHANGED vars
       PROVE  UNCHANGED events
    BY <1>11 DEF ReadLifecycle, ReadStatus, CreateShell, ShutDown, vars, seen
<1>12. UNCHANGED events \/ Log!Next
    BY <1>5, <1>6, <1>7, <1>8, <1>9, <1>10, <1>11 DEF Next, Log!Next
<1> QED BY <1>2, <1>12

(* The status events of a command are those of ExecutionLog: executions one  *)
(* after another, each opened once and closed by one OFFLINE, without gaps   *)
(* in their numbers, however the goroutines interleave.                      *)
THEOREM Refinement == Spec => RefinesExecutionLog
<1>1. Init => Log!Init
    BY LogFromEvents, InitIInv, LogEnd DEF Init, Log!Init
<1> QED BY <1>1, LogStep, Invariant, HistoryInvariant, PTL DEF Spec, RefinesExecutionLog, Log!Spec

====
