---- MODULE EventStream ----
(*****************************************************************************)
(* The way of a game server's status events from a remote node to the        *)
(* controller: node.EventEmitter keeps the latest event of the process and   *)
(* queues every event for each subscriber, the StreamEvents RPC carries them *)
(* over a connection that may break, and RemoteEventBridge, one goroutine    *)
(* per registration of the node, republishes them on the controller's        *)
(* eventbus.                                                                 *)
(*                                                                           *)
(* The node reports execution IDs; the reconstruction of the previous status *)
(* for a node that does not is left out.  The process's events are those of  *)
(* ExecutionLog.  An event's number is its position among all of them and    *)
(* its boot the life of the node it belongs to; the code knows neither, only *)
(* the execution and the sequence.                                           *)
(*****************************************************************************)
EXTENDS Naturals, Sequences

CONSTANTS
    MaxExecutions,  \* bound: executions of the process
    BufferSize,     \* eventBufferSize
    MaxBridges,     \* bound: goroutines started by startForClient
    MaxFaults       \* bound: broken connections, node restarts, failed lookups and moves
                    \* of the server

ASSUME EventStreamAssumption ==
    /\ {MaxExecutions, BufferSize, MaxBridges} \subseteq Nat \ {0}
    /\ MaxFaults \in Nat

Bridges == 1 .. MaxBridges

VARIABLES
    process,    \* the process on the node: execution, sequence, status
    emitted,    \* how many events the node has emitted
    boot,       \* how many times the node has been started
    retained,   \* latestProcessStatus: the event to replay
    bridge,     \* every goroutine: its stream and its cursor
    active,     \* the goroutine RemoteEventBridge.active refers to, 0 if none
    started,    \* how many goroutines have been started
    owned,      \* whether the server's row names this node
    published,  \* the event each goroutine has put on the bus last
    lost,       \* history: the number of the event each has dropped last because the
                \* server's row could not be read or named another node; 0 if none
    faults      \* how many faults, and moves of the server, have happened

node == <<process, emitted, boot, retained>>
controller == <<active, started, owned, published, lost>>
vars == <<node, bridge, controller, faults>>

Event(execution, sequence, old, new) ==
    [execution |-> execution, sequence |-> sequence, old |-> old, new |-> new,
     replayed |-> FALSE, number |-> emitted + 1, boot |-> boot]
NoEvent == [execution |-> 0, sequence |-> 0, old |-> "UNKNOWN", new |-> "UNKNOWN",
            replayed |-> FALSE, number |-> 0, boot |-> 0]
NoCursor == [execution |-> 0, sequence |-> 0]

NotStarted == [pc |-> "none", cancelled |-> FALSE, subscribed |-> FALSE, room |-> 0,
               queue |-> <<>>, arrived |-> <<>>, cursor |-> NoCursor]
Fresh == [NotStarted EXCEPT !.pc = "dialing"]

Init ==
    /\ process = [execution |-> 0, sequence |-> 0, status |-> "OFFLINE"]
    /\ emitted = 0
    /\ boot = 1
    /\ retained = NoEvent
    /\ bridge = [b \in Bridges |-> IF b = 1 THEN Fresh ELSE NotStarted]
    /\ active = 1
    /\ started = 1
    /\ owned = TRUE
    /\ published = [b \in Bridges |-> NoEvent]
    /\ lost = [b \in Bridges |-> 0]
    /\ faults = 0

-----------------------------------------------------------------------------
(* The node.                                                                 *)

(* The transition the process may make next, as the supervisor announces it. *)
NextEvents ==
    LET n == process.execution + 1
        next == process.sequence + 1
    IN  CASE process.status = "OFFLINE" ->
               {Event(n, 1, "OFFLINE", "PRE_START"), Event(n, 1, "PRE_START", "OFFLINE")}
          [] process.status = "PRE_START" ->
               {Event(process.execution, next, "PRE_START", new) : new \in {"ONLINE", "OFFLINE"}}
          [] OTHER ->
               {Event(process.execution, next, "ONLINE", "OFFLINE")}

(* Mistake: a lifecycle event is dropped like any other when a subscriber's  *)
(* buffer is full, and the subscriber stays.                                 *)
DeliverOrDrop(b, e) ==
    IF ~b.subscribed \/ Len(b.queue) >= b.room THEN b
    ELSE [b EXCEPT !.queue = Append(@, e)]

(* Mistake: the subscriber's channel has no capacity.                        *)
DeliverAlways(b, e) == IF ~b.subscribed THEN b ELSE [b EXCEPT !.queue = Append(@, e)]

(* A subscriber that cannot take a lifecycle event is removed and its        *)
(* channel closed; what the channel holds can still be received.             *)
Deliver(b, e) ==
    IF ~b.subscribed THEN b
    ELSE IF Len(b.queue) < b.room
         THEN [b EXCEPT !.queue = Append(@, e)]
         ELSE [b EXCEPT !.subscribed = FALSE]

Publish ==
    \E e \in NextEvents :
        /\ e.execution <= MaxExecutions
        /\ process' = [execution |-> e.execution, sequence |-> e.sequence, status |-> e.new]
        /\ emitted' = emitted + 1
        /\ retained' = e
        /\ bridge' = [b \in Bridges |-> Deliver(bridge[b], e)]
        /\ UNCHANGED <<boot, controller, faults>>

(* The node's program ends with its processes and its streams, and is        *)
(* started again; nothing it retained survives and nothing says OFFLINE.     *)
NodeRestarts ==
    /\ faults < MaxFaults
    /\ faults' = faults + 1
    /\ boot' = boot + 1
    /\ process' = [process EXCEPT !.status = "OFFLINE"]
    /\ retained' = NoEvent
    /\ bridge' = [b \in Bridges |-> [bridge[b] EXCEPT !.subscribed = FALSE, !.queue = <<>>]]
    /\ UNCHANGED <<emitted, controller>>

-----------------------------------------------------------------------------
(* The stream.                                                               *)

(* Mistake: a new stream starts with the next event.                         *)
SubscribeWithoutReplay(b) ==
    /\ bridge[b].pc = "dialing"
    /\ ~bridge[b].cancelled
    /\ bridge' = [bridge EXCEPT ![b].pc = "streaming", ![b].subscribed = TRUE,
                                ![b].room = BufferSize]
    /\ UNCHANGED <<node, controller, faults>>

(* Mistake: the cursor does not survive a reconnect.                         *)
SubscribeForgetfully(b) ==
    /\ bridge[b].pc = "dialing"
    /\ ~bridge[b].cancelled
    /\ bridge' = [bridge EXCEPT ![b].pc = "streaming", ![b].subscribed = TRUE,
                                ![b].cursor = NoCursor,
                                ![b].room = BufferSize + 1,
                                ![b].queue = IF retained = NoEvent THEN <<>>
                                             ELSE <<[retained EXCEPT !.replayed = TRUE]>>]
    /\ UNCHANGED <<node, controller, faults>>

(* SubscribeWithReplay, in one critical section: the latest event of the     *)
(* process goes in first, and the buffer has room for it.  A connection that *)
(* cannot be made is tried again later.                                      *)
Subscribe(b) ==
    /\ bridge[b].pc = "dialing"
    /\ ~bridge[b].cancelled
    /\ bridge' =
         LET replay == IF retained = NoEvent THEN <<>>
                       ELSE <<[retained EXCEPT !.replayed = TRUE]>>
         IN  [bridge EXCEPT ![b].pc = "streaming",
                            ![b].subscribed = TRUE,
                            ![b].room = BufferSize + Len(replay),
                            ![b].queue = replay]
    /\ UNCHANGED <<node, controller, faults>>

(* The RPC's two ends hand an event from the node's channel to the client's. *)
Receive(b) ==
    /\ bridge[b].queue # <<>>
    /\ bridge' = [bridge EXCEPT ![b].queue = Tail(@),
                                ![b].arrived = Append(@, Head(bridge[b].queue))]
    /\ UNCHANGED <<node, controller, faults>>

(* The connection breaks: the node unsubscribes the stream, and what the     *)
(* client has not received is lost.                                          *)
Break(b) ==
    /\ faults < MaxFaults
    /\ bridge[b].subscribed \/ bridge[b].queue # <<>>
    /\ faults' = faults + 1
    /\ bridge' = [bridge EXCEPT ![b].subscribed = FALSE, ![b].queue = <<>>]
    /\ UNCHANGED <<node, controller>>

-----------------------------------------------------------------------------
(* The bridge's goroutine: runForClient.                                     *)

(* A transition of the execution the cursor is in that is not newer than it. *)
Known(b, e) ==
    /\ bridge[b].cursor.execution = e.execution
    /\ e.sequence <= bridge[b].cursor.sequence

(* republish: an event of a server that is not the node's is dropped, and so *)
(* is a duplicate.                                                           *)
Republish(b) ==
    /\ bridge[b].pc = "streaming"
    /\ bridge[b].arrived # <<>>
    /\ LET e == Head(bridge[b].arrived)
           news == owned /\ ~Known(b, e)
       IN  /\ bridge' = [bridge EXCEPT
                            ![b].arrived = Tail(@),
                            ![b].cursor = IF news THEN [execution |-> e.execution,
                                                        sequence |-> e.sequence]
                                          ELSE @]
           /\ published' = IF news THEN [published EXCEPT ![b] = e] ELSE published
           /\ lost' = IF owned THEN lost ELSE [lost EXCEPT ![b] = e.number]
    /\ UNCHANGED <<node, active, started, owned, faults>>

(* The server's row cannot be read: the event is dropped, the cursor stays,  *)
(* and the stream goes on.                                                   *)
LookupFails(b) ==
    /\ faults < MaxFaults
    /\ faults' = faults + 1
    /\ bridge[b].pc = "streaming"
    /\ bridge[b].arrived # <<>>
    /\ bridge' = [bridge EXCEPT ![b].arrived = Tail(@)]
    /\ lost' = [lost EXCEPT ![b] = Head(bridge[b].arrived).number]
    /\ UNCHANGED <<node, active, started, owned, published>>

(* The client's channel is closed once it has given out what had arrived.    *)
StreamEnds(b) ==
    /\ bridge[b].pc = "streaming"
    /\ ~bridge[b].subscribed
    /\ bridge[b].queue = <<>>
    /\ bridge[b].arrived = <<>>
    /\ bridge' = [bridge EXCEPT ![b].pc = "dialing"]
    /\ UNCHANGED <<node, controller, faults>>

(* A cancelled goroutine may still take the other branch of its select, so   *)
(* it leaves at some moment after the cancellation.                          *)
Leave(b) ==
    /\ bridge[b].cancelled
    /\ bridge[b].pc \in {"dialing", "streaming"}
    /\ bridge' = [bridge EXCEPT ![b].pc = "stopped", ![b].subscribed = FALSE,
                                ![b].queue = <<>>, ![b].arrived = <<>>]
    /\ UNCHANGED <<node, controller, faults>>

-----------------------------------------------------------------------------
(* The controller.                                                           *)

(* Mistake: the goroutine that is replaced goes on.                          *)
StartForClientBesides ==
    /\ started < MaxBridges
    /\ started' = started + 1
    /\ active' = started + 1
    /\ bridge' = [bridge EXCEPT ![started + 1] = Fresh]
    /\ UNCHANGED <<node, owned, published, lost, faults>>

(* startForClient: the goroutine it replaces is cancelled and not waited for. *)
StartForClient ==
    /\ started < MaxBridges
    /\ started' = started + 1
    /\ active' = started + 1
    /\ bridge' = [b \in Bridges |-> IF b = active THEN [bridge[b] EXCEPT !.cancelled = TRUE]
                                    ELSE IF b = started + 1 THEN Fresh
                                    ELSE bridge[b]]
    /\ UNCHANGED <<node, owned, published, lost, faults>>

(* OnRemove.                                                                 *)
OnRemove ==
    /\ active # 0
    /\ active' = 0
    /\ bridge' = [bridge EXCEPT ![active].cancelled = TRUE]
    /\ UNCHANGED <<node, started, owned, published, lost, faults>>

(* An administrator moves the server to another node, or back to this one.   *)
MoveServer ==
    /\ faults < MaxFaults
    /\ faults' = faults + 1
    /\ owned' = ~owned
    /\ UNCHANGED <<node, bridge, active, started, published, lost>>

BridgeStep(b) ==
    Subscribe(b) \/ Receive(b) \/ Republish(b) \/ StreamEnds(b) \/ Leave(b)

Next ==
    \/ Publish
    \/ NodeRestarts
    \/ \E b \in Bridges : BridgeStep(b) \/ Break(b) \/ LookupFails(b)
    \/ StartForClient
    \/ OnRemove
    \/ MoveServer

(* The goroutines go on, the RPC delivers while the connection lasts, and a  *)
(* connection attempt that is repeated succeeds.                             *)
Spec == Init /\ [][Next]_vars
FairSpec == Spec /\ \A b \in Bridges : WF_vars(BridgeStep(b))

-----------------------------------------------------------------------------
(* Properties.                                                               *)

Statuses == {"UNKNOWN", "OFFLINE", "PRE_START", "ONLINE"}
Events == [execution : 0 .. MaxExecutions, sequence : Nat, old : Statuses, new : Statuses,
           replayed : BOOLEAN, number : Nat, boot : Nat]

TypeOK ==
    /\ process \in [execution : 0 .. MaxExecutions, sequence : Nat, status : Statuses]
    /\ emitted \in Nat
    /\ boot \in Nat
    /\ retained \in Events
    /\ bridge \in [Bridges -> [pc : {"none", "dialing", "streaming", "stopped"},
                               cancelled : BOOLEAN, subscribed : BOOLEAN, room : Nat,
                               queue : Seq(Events), arrived : Seq(Events),
                               cursor : [execution : 0 .. MaxExecutions, sequence : Nat]]]
    /\ active \in 0 .. MaxBridges
    /\ started \in Bridges
    /\ owned \in BOOLEAN
    /\ published \in [Bridges -> Events]
    /\ lost \in [Bridges -> Nat]
    /\ faults \in 0 .. MaxFaults
    /\ \A b \in Bridges : Len(bridge[b].queue) <= bridge[b].room

(* A goroutine puts every transition on the bus at most once and in the      *)
(* order the node made them, over any number of broken connections, replays  *)
(* and node restarts: it raises no alert twice for one exit, or on an old    *)
(* one.  (The goroutine that replaces it has a cursor of its own.)           *)
PublishedInOrder ==
    [][\A b \in Bridges : published'[b] # published[b]
          => published'[b].number > published[b].number]_vars

(* What a goroutine does not publish is missing for a reason it knows: where *)
(* its events are not consecutive, the later one is the replay of a          *)
(* reconnect, or the node was started again, or the goroutine itself has     *)
(* dropped the event right before it for what the server's row said or did   *)
(* not.  Neither a full buffer nor a reconnect loses anything in the middle  *)
(* of a stream.                                                              *)
NoSilentGap ==
    [][\A b \in Bridges : published'[b] # published[b] /\ published[b] # NoEvent
          => \/ published'[b].number = published[b].number + 1
             \/ published'[b].replayed
             \/ published'[b].boot # published[b].boot
             \/ published'[b].number = lost[b] + 1]_vars

(* A goroutine whose node was registered again or removed ends, although it  *)
(* may still publish what it had received: the bus does not keep hearing     *)
(* every event of a node twice.                                              *)
ReplacedBridgesEnd ==
    \A b \in Bridges : bridge[b].pc # "none" /\ b # active ~> bridge[b].pc = "stopped"

(* After the last fault and the last transition, the goroutine of a          *)
(* registered node has told the bus the state the process is in, unless it   *)
(* has dropped the event that says so: nothing but a reconnect or the next   *)
(* transition makes up for a lookup that failed or a server that was moved.  *)
EventuallyCurrent ==
    <>[](\A b \in Bridges :
            b = active /\ retained # NoEvent
                => retained.number \in {published[b].number, lost[b]})

====
