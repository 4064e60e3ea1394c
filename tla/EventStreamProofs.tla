---- MODULE EventStreamProofs ----
(* Theorems about EventStream.                                               *)
EXTENDS EventStream, Integers, TLAPS

(* What the goroutine has not taken yet, in the order in which it will.      *)
Arrived(b) == bridge[b].arrived
Queue(b) == bridge[b].queue
Size(b) == Len(Arrived(b)) + Len(Queue(b))
InFlight(b, i) ==
    IF i <= Len(Arrived(b)) THEN Arrived(b)[i] ELSE Queue(b)[i - Len(Arrived(b))]

(* The event before the one at position i: 1 is the next to be taken.        *)
Previous(b, i) == IF i = 1 THEN published[b] ELSE InFlight(b, i - 1)

(* The code's view of an event, and the node's life it belongs to.           *)
Same(e, f) == e.execution = f.execution /\ e.sequence = f.sequence /\ e.boot = f.boot

(* What the node replays is its latest event.                                *)
RetainedInv ==
    IF retained = NoEvent THEN TRUE
    ELSE /\ retained.number = emitted /\ emitted > 0 /\ retained.boot = boot
         /\ retained.execution = process.execution /\ retained.sequence = process.sequence

(* An event lies in the past of the node; it is the latest one if it has its *)
(* number, and nothing was forgotten since if it is of this life.            *)
Past(e) ==
    /\ e.number <= emitted /\ e.boot <= boot
    /\ e.execution <= process.execution
    /\ e.execution = process.execution => e.sequence <= process.sequence
    /\ e.execution = process.execution /\ e.number < emitted => e.sequence < process.sequence
    /\ e.number = emitted /\ retained # NoEvent => Same(e, retained)
    /\ e.number > 0 /\ e.boot = boot => retained # NoEvent

PastInv ==
    \A b \in Bridges :
        /\ Past(published[b])
        /\ \A i \in 1 .. Size(b) : Past(InFlight(b, i)) /\ InFlight(b, i).number > 0

(* Numbers grow, and with them the lives of the node, and the sequences      *)
(* within an execution.                                                      *)
Before(e, f) ==
    /\ e.number < f.number /\ e.boot <= f.boot
    /\ e.execution = f.execution => e.sequence < f.sequence

OrderInv ==
    \A b \in Bridges :
        /\ \A i \in 1 .. Size(b) :
               \/ Before(published[b], InFlight(b, i))
               \/ published[b].number = InFlight(b, i).number /\ Same(published[b], InFlight(b, i))
        /\ \A i, j \in 1 .. Size(b) : i < j => Before(InFlight(b, i), InFlight(b, j))

(* The cursor is the last event that was published.                          *)
CursorInv ==
    \A b \in Bridges :
        /\ bridge[b].cursor.execution = published[b].execution
        /\ bridge[b].cursor.sequence = published[b].sequence
        /\ published[b].number = 0 => published[b] = NoEvent

(* Goroutines are started one by one.                                        *)
StartedInv ==
    /\ active <= started
    /\ \A b \in Bridges : b > started => bridge[b] = NotStarted /\ published[b] = NoEvent

(* Only the goroutine of an open stream has anything to take.                *)
StreamInv ==
    \A b \in Bridges : bridge[b].pc # "streaming" => Size(b) = 0 /\ ~bridge[b].subscribed

(* Nothing is missing between e and number n of life l, as far as anybody is *)
(* told.                                                                     *)
Adjoins(e, n, l) == e.number + 1 = n \/ e.boot # l \/ e.number = 0

(* The goroutine itself has dropped the event before number n, which is or   *)
(* will be the next it takes.                                                *)
AfterLoss(b, i, n) == i = 1 /\ lost[b] + 1 = n

GapInv ==
    \A b \in Bridges :
        /\ \A i \in 1 .. Size(b) :
               \/ InFlight(b, i).replayed
               \/ Adjoins(Previous(b, i), InFlight(b, i).number, InFlight(b, i).boot)
               \/ AfterLoss(b, i, InFlight(b, i).number)
        /\ bridge[b].subscribed =>
               \/ Adjoins(Previous(b, Size(b) + 1), emitted + 1, boot)
               \/ AfterLoss(b, Size(b) + 1, emitted + 1)

IInv ==
    /\ TypeOK
    /\ RetainedInv
    /\ PastInv
    /\ OrderInv
    /\ CursorInv
    /\ StartedInv
    /\ StreamInv
    /\ GapInv

-----------------------------------------------------------------------------
(* Types.                                                                    *)

Places == {"none", "dialing", "streaming", "stopped"}
Cursors == [execution : 0 .. MaxExecutions, sequence : Nat]
Processes == [execution : 0 .. MaxExecutions, sequence : Nat, status : Statuses]
Goroutines ==
    [pc : Places, cancelled : BOOLEAN, subscribed : BOOLEAN, room : Nat,
     queue : Seq(Events), arrived : Seq(Events), cursor : Cursors]

NodeTyped == process \in Processes /\ emitted \in Nat /\ boot \in Nat /\ retained \in Events
BridgesTyped == bridge \in [Bridges -> Goroutines]
RoomTyped == \A b \in Bridges : Len(bridge[b].queue) <= bridge[b].room
ControllerTyped ==
    /\ active \in 0 .. MaxBridges /\ started \in Bridges /\ owned \in BOOLEAN
    /\ published \in [Bridges -> Events] /\ lost \in [Bridges -> Nat] /\ faults \in 0 .. MaxFaults
Typed == NodeTyped /\ BridgesTyped /\ RoomTyped /\ ControllerTyped

(* The type invariant in parts, for the provers.                             *)
LEMMA TypeParts == TypeOK <=> Typed
BY DEF TypeOK, Typed, NodeTyped, BridgesTyped, RoomTyped, ControllerTyped, Places, Cursors, Processes,
       Goroutines

LEMMA Naturals1 ==
    /\ Bridges \subseteq Nat /\ 1 \in Bridges /\ 0 \notin Bridges
    /\ BufferSize \in Nat /\ BufferSize > 0 /\ MaxBridges \in Nat /\ MaxExecutions \in Nat
    /\ \A b \in Bridges : b <= MaxBridges
    /\ \A n \in Nat : n < MaxBridges => n + 1 \in Bridges
BY EventStreamAssumption DEF Bridges

(* The fields of a goroutine.                                                *)
LEMMA GoroutineTypes ==
    ASSUME BridgesTyped, NEW b \in Bridges
    PROVE  /\ bridge[b] \in Goroutines /\ bridge[b].pc \in Places
           /\ bridge[b].subscribed \in BOOLEAN /\ bridge[b].room \in Nat
           /\ bridge[b].cursor \in Cursors
           /\ Queue(b) \in Seq(Events) /\ Arrived(b) \in Seq(Events)
           /\ Len(Queue(b)) \in Nat /\ Len(Arrived(b)) \in Nat /\ Size(b) \in Nat
<1>1. bridge[b] \in Goroutines
    BY DEF BridgesTyped
<1>2. /\ bridge[b].pc \in Places
      /\ bridge[b].subscribed \in BOOLEAN /\ bridge[b].room \in Nat
      /\ Queue(b) \in Seq(Events) /\ Arrived(b) \in Seq(Events)
      /\ bridge[b].cursor \in Cursors
    BY <1>1 DEF Goroutines, Queue, Arrived
<1>3. Len(Queue(b)) \in Nat /\ Len(Arrived(b)) \in Nat
    BY <1>2
<1>4. Size(b) \in Nat
    BY <1>3 DEF Size
<1> QED BY <1>1, <1>2, <1>3, <1>4

(* The fields of an event.                                                   *)
LEMMA EventTypes ==
    ASSUME NEW e \in Events
    PROVE  /\ e.execution \in Nat /\ e.sequence \in Nat /\ e.number \in Nat /\ e.boot \in Nat
           /\ e.execution \in 0 .. MaxExecutions
           /\ e.replayed \in BOOLEAN
<1>1. /\ e.execution \in 0 .. MaxExecutions /\ e.sequence \in Nat /\ e.number \in Nat
      /\ e.boot \in Nat /\ e.replayed \in BOOLEAN
    BY DEF Events
<1> QED BY <1>1, Naturals1

(* A replayed event is the event.                                            *)
Replayed(e) == [e EXCEPT !.replayed = TRUE]

LEMMA ReplayedTypes ==
    ASSUME NEW e \in Events
    PROVE  /\ Replayed(e) \in Events /\ Replayed(e).number = e.number /\ Replayed(e).boot = e.boot
           /\ Replayed(e).execution = e.execution /\ Replayed(e).sequence = e.sequence
           /\ Replayed(e).replayed
<1>1. Replayed(e) \in Events
    BY DEF Replayed, Events
<1> QED BY <1>1 DEF Replayed, Events

LEMMA FreshTypes ==
    /\ NoEvent \in Events /\ NoEvent.number = 0 /\ NoEvent.execution = 0 /\ NoEvent.sequence = 0
    /\ NoEvent.boot = 0
    /\ NotStarted \in Goroutines /\ Fresh \in Goroutines
    /\ NotStarted.cursor = NoCursor /\ Fresh.cursor = NoCursor
    /\ NoCursor.execution = 0 /\ NoCursor.sequence = 0
    /\ Fresh.pc = "dialing" /\ NotStarted.pc = "none" /\ ~Fresh.subscribed /\ ~NotStarted.subscribed
    /\ Fresh.queue = <<>> /\ Fresh.arrived = <<>> /\ NotStarted.queue = <<>> /\ NotStarted.arrived = <<>>
<1>1. NoEvent \in Events
    BY Naturals1 DEF NoEvent, Events, Statuses
<1>2. NoCursor \in Cursors
    BY Naturals1 DEF NoCursor, Cursors
<1>3. NotStarted \in Goroutines
    BY <1>2 DEF NotStarted, Goroutines, Places
<1>4. Fresh \in Goroutines
    BY <1>3 DEF Fresh, Goroutines, Places
<1> QED BY <1>1, <1>3, <1>4 DEF NoEvent, NoCursor, NotStarted, Fresh

(* The event a goroutine may take is one of the two lists'.                  *)
LEMMA InFlightTypes ==
    ASSUME BridgesTyped, NEW b \in Bridges, NEW i \in 1 .. Size(b)
    PROVE  InFlight(b, i) \in Events
<1>0. /\ Len(Queue(b)) \in Nat /\ Len(Arrived(b)) \in Nat
      /\ Queue(b) \in Seq(Events) /\ Arrived(b) \in Seq(Events)
      /\ i \in Nat /\ i > 0 /\ i <= Len(Arrived(b)) + Len(Queue(b))
    BY GoroutineTypes DEF Size
<1>1. CASE i <= Len(Arrived(b))
    BY <1>0, <1>1 DEF InFlight
<1>2. CASE ~(i <= Len(Arrived(b)))
  <2>1. i - Len(Arrived(b)) \in 1 .. Len(Queue(b))
      BY <1>0, <1>2
  <2> QED BY <1>0, <1>2, <2>1 DEF InFlight
<1> QED BY <1>1, <1>2

(* The event the process announces.                                          *)
LEMMA NextEventTypes ==
    ASSUME NodeTyped, NEW e \in NextEvents, e.execution <= MaxExecutions
    PROVE  /\ e \in Events /\ e.number = emitted + 1 /\ e.boot = boot /\ ~e.replayed
           /\ e.sequence \in Nat /\ e.execution \in 0 .. MaxExecutions /\ e.new \in Statuses
           /\ \/ e.execution = process.execution + 1 /\ e.sequence > 0
              \/ e.execution = process.execution /\ e.sequence = process.sequence + 1
<1> DEFINE n == process.execution + 1
           next == process.sequence + 1
<1>0. /\ process.execution \in Nat /\ process.execution \in 0 .. MaxExecutions
      /\ process.sequence \in Nat /\ emitted \in Nat /\ boot \in Nat
    BY Naturals1 DEF NodeTyped, Processes
<1>1. PICK m \in Nat, s \in Nat \ {0}, old \in Statuses, new \in Statuses :
          /\ e = Event(m, s, old, new)
          /\ m = n \/ (m = process.execution /\ s = next)
  <2>1. CASE process.status = "OFFLINE"
      BY <1>0, <2>1 DEF NextEvents, Statuses
  <2>2. CASE process.status = "PRE_START"
      BY <1>0, <2>2 DEF NextEvents, Statuses
  <2>3. CASE process.status \notin {"OFFLINE", "PRE_START"}
      BY <1>0, <2>3 DEF NextEvents, Statuses
  <2> QED BY <2>1, <2>2, <2>3
<1>2. /\ e.execution = m /\ e.sequence = s /\ e.number = emitted + 1 /\ e.boot = boot
      /\ e.replayed = FALSE /\ e.old = old /\ e.new = new
      /\ e = [execution |-> m, sequence |-> s, old |-> old, new |-> new,
              replayed |-> FALSE, number |-> emitted + 1, boot |-> boot]
    BY <1>1 DEF Event
<1>3. m \in 0 .. MaxExecutions /\ emitted + 1 \in Nat
    BY <1>0, <1>2, Naturals1
<1>4. e \in Events
    BY <1>0, <1>1, <1>2, <1>3 DEF Events
<1> QED BY <1>0, <1>1, <1>2, <1>3, <1>4

-----------------------------------------------------------------------------
(* What the steps do to the events in flight.                                *)

LEMMA ListsUnchanged ==
    ASSUME NEW b, Arrived(b)' = Arrived(b), Queue(b)' = Queue(b)
    PROVE  Size(b)' = Size(b) /\ \A i : InFlight(b, i)' = InFlight(b, i)
BY DEF Size, InFlight

LEMMA QueueDropped ==
    ASSUME BridgesTyped, NEW b \in Bridges, Arrived(b)' = Arrived(b), Queue(b)' = <<>>
    PROVE  /\ Size(b)' \in 0 .. Size(b)
           /\ \A i \in 1 .. Size(b)' : InFlight(b, i)' = InFlight(b, i)
<1>1. Size(b)' = Len(Arrived(b)) /\ Len(Arrived(b)) \in Nat /\ Len(Queue(b)) \in Nat
    BY GoroutineTypes DEF Size
<1>2. Size(b)' \in 0 .. Size(b)
    BY <1>1 DEF Size
<1> QED BY <1>1, <1>2 DEF InFlight

LEMMA ListsEmptied ==
    ASSUME NEW b, Arrived(b)' = <<>>, Queue(b)' = <<>>
    PROVE  Size(b)' = 0
BY DEF Size

LEMMA QueueAppended ==
    ASSUME BridgesTyped, NEW b \in Bridges, NEW e \in Events,
           Arrived(b)' = Arrived(b), Queue(b)' = Append(Queue(b), e)
    PROVE  /\ Size(b)' = Size(b) + 1
           /\ \A i \in 1 .. Size(b) : InFlight(b, i)' = InFlight(b, i)
           /\ \A i \in 1 .. Size(b)' : i = Size(b) + 1 => InFlight(b, i)' = e
<1>0. /\ Queue(b) \in Seq(Events) /\ Len(Arrived(b)) \in Nat /\ Len(Queue(b)) \in Nat
      /\ Size(b) \in Nat
    BY GoroutineTypes
<1>1. /\ Len(Append(Queue(b), e)) = Len(Queue(b)) + 1
      /\ Append(Queue(b), e)[Len(Queue(b)) + 1] = e
      /\ \A i \in 1 .. Len(Queue(b)) : Append(Queue(b), e)[i] = Queue(b)[i]
    BY <1>0
<1>2. Size(b)' = Size(b) + 1
    BY <1>0, <1>1 DEF Size
<1>3. ASSUME NEW i \in 1 .. Size(b)
      PROVE  InFlight(b, i)' = InFlight(b, i)
  <2>1. ~(i <= Len(Arrived(b))) => i - Len(Arrived(b)) \in 1 .. Len(Queue(b))
      BY <1>0 DEF Size
  <2> QED BY <1>1, <2>1 DEF InFlight
<1>4. ASSUME NEW i \in 1 .. Size(b)', i = Size(b) + 1
      PROVE  InFlight(b, i)' = e
  <2>1. ~(i <= Len(Arrived(b))) /\ i - Len(Arrived(b)) = Len(Queue(b)) + 1
      BY <1>0, <1>4 DEF Size
  <2> QED BY <1>1, <2>1 DEF InFlight
<1> QED BY <1>2, <1>3, <1>4

LEMMA EventReceived ==
    ASSUME BridgesTyped, NEW b \in Bridges, Queue(b) # <<>>,
           Arrived(b)' = Append(Arrived(b), Head(Queue(b))), Queue(b)' = Tail(Queue(b))
    PROVE  Size(b)' = Size(b) /\ \A i \in 1 .. Size(b) : InFlight(b, i)' = InFlight(b, i)
<1> DEFINE e == Head(Queue(b))
<1>0. /\ Queue(b) \in Seq(Events) /\ Arrived(b) \in Seq(Events)
      /\ Len(Arrived(b)) \in Nat /\ Len(Queue(b)) \in Nat /\ Size(b) \in Nat
    BY GoroutineTypes
<1>1. /\ Len(Queue(b)) > 0 /\ e = Queue(b)[1] /\ e \in Events
      /\ Len(Tail(Queue(b))) = Len(Queue(b)) - 1
      /\ \A i \in 1 .. Len(Tail(Queue(b))) : Tail(Queue(b))[i] = Queue(b)[i + 1]
    BY <1>0
<1>2. /\ Len(Append(Arrived(b), e)) = Len(Arrived(b)) + 1
      /\ Append(Arrived(b), e)[Len(Arrived(b)) + 1] = e
      /\ \A i \in 1 .. Len(Arrived(b)) : Append(Arrived(b), e)[i] = Arrived(b)[i]
    BY <1>0, <1>1
<1>3. Size(b)' = Size(b)
    BY <1>0, <1>1, <1>2 DEF Size
<1>4. ASSUME NEW i \in 1 .. Size(b)
      PROVE  InFlight(b, i)' = InFlight(b, i)
  <2>1. CASE i <= Len(Arrived(b))
    <3>1. i <= Len(Arrived(b)) + 1 /\ i \in 1 .. Len(Arrived(b))
        BY <1>0, <2>1
    <3> QED BY <1>2, <2>1, <3>1 DEF InFlight
  <2>2. CASE i = Len(Arrived(b)) + 1
    <3>1. ~(i <= Len(Arrived(b))) /\ i <= Len(Arrived(b)) + 1 /\ i - Len(Arrived(b)) = 1
        BY <1>0, <2>2
    <3> QED BY <1>1, <1>2, <2>2, <3>1 DEF InFlight
  <2>3. CASE i > Len(Arrived(b)) + 1
    <3>1. /\ ~(i <= Len(Arrived(b))) /\ ~(i <= Len(Arrived(b)) + 1)
          /\ i - (Len(Arrived(b)) + 1) \in 1 .. Len(Tail(Queue(b)))
          /\ i - (Len(Arrived(b)) + 1) + 1 = i - Len(Arrived(b))
        BY <1>0, <1>1, <2>3 DEF Size
    <3> QED BY <1>1, <1>2, <3>1 DEF InFlight
  <2> QED BY <1>0, <2>1, <2>2, <2>3
<1> QED BY <1>3, <1>4

LEMMA EventTaken ==
    ASSUME BridgesTyped, NEW b \in Bridges, Arrived(b) # <<>>,
           Arrived(b)' = Tail(Arrived(b)), Queue(b)' = Queue(b)
    PROVE  /\ Head(Arrived(b)) = InFlight(b, 1) /\ Size(b) > 0
           /\ Size(b)' = Size(b) - 1
           /\ \A i \in 1 .. Size(b)' : InFlight(b, i)' = InFlight(b, i + 1)
<1>0. /\ Queue(b) \in Seq(Events) /\ Arrived(b) \in Seq(Events)
      /\ Len(Arrived(b)) \in Nat /\ Len(Queue(b)) \in Nat /\ Size(b) \in Nat
    BY GoroutineTypes
<1>1. /\ Len(Arrived(b)) > 0 /\ Head(Arrived(b)) = Arrived(b)[1]
      /\ Len(Tail(Arrived(b))) = Len(Arrived(b)) - 1
      /\ \A i \in 1 .. Len(Tail(Arrived(b))) : Tail(Arrived(b))[i] = Arrived(b)[i + 1]
    BY <1>0
<1>2. Size(b)' = Size(b) - 1 /\ Size(b) > 0
    BY <1>0, <1>1 DEF Size
<1>3. Head(Arrived(b)) = InFlight(b, 1)
    BY <1>0, <1>1 DEF InFlight
<1>4. ASSUME NEW i \in 1 .. Size(b)'
      PROVE  InFlight(b, i)' = InFlight(b, i + 1)
  <2>0. i \in Nat /\ i > 0 /\ i <= Size(b) - 1
      BY <1>0, <1>2
  <2>1. CASE i <= Len(Arrived(b)) - 1
    <3>1. i + 1 <= Len(Arrived(b)) /\ i \in 1 .. Len(Tail(Arrived(b)))
        BY <1>0, <1>1, <2>0, <2>1
    <3> QED BY <1>1, <2>1, <3>1 DEF InFlight
  <2>2. CASE ~(i <= Len(Arrived(b)) - 1)
    <3>1. ~(i + 1 <= Len(Arrived(b))) /\ i - (Len(Arrived(b)) - 1) = i + 1 - Len(Arrived(b))
        BY <1>0, <2>0, <2>2
    <3> QED BY <1>1, <2>2, <3>1 DEF InFlight
  <2> QED BY <2>1, <2>2
<1> QED BY <1>2, <1>3, <1>4

-----------------------------------------------------------------------------
(* What the steps do to a goroutine.                                         *)

Kept(b) ==
    /\ published'[b] = published[b] /\ lost'[b] = lost[b]
    /\ bridge'[b].cursor = bridge[b].cursor

OpenOrEmpty(b) == bridge[b].pc # "streaming" => Size(b) = 0 /\ ~bridge[b].subscribed

(* It may lose the stream and what it would have taken.                      *)
Shrinks(b) ==
    /\ Kept(b) /\ OpenOrEmpty(b)'
    /\ Size(b)' \in 0 .. Size(b)
    /\ \A i \in 1 .. Size(b)' : InFlight(b, i)' = InFlight(b, i)
    /\ bridge'[b].subscribed => bridge[b].subscribed /\ Size(b)' = Size(b)

(* It will take one more event.                                              *)
Gets(b, e) ==
    /\ Kept(b) /\ OpenOrEmpty(b)'
    /\ bridge[b].subscribed
    /\ Size(b)' = Size(b) + 1
    /\ \A i \in 1 .. Size(b) : InFlight(b, i)' = InFlight(b, i)
    /\ \A i \in 1 .. Size(b)' : i = Size(b) + 1 => InFlight(b, i)' = e

(* It starts again with the latest event.                                    *)
Resumes(b) ==
    /\ Kept(b) /\ OpenOrEmpty(b)'
    /\ Size(b) = 0
    /\ Size(b)' = IF retained = NoEvent THEN 0 ELSE 1
    /\ \A i \in 1 .. Size(b)' : InFlight(b, i)' = Replayed(retained)

(* It takes the next event, and publishes, ignores or drops it.              *)
Publishes(b, e) ==
    /\ published'[b] = e /\ lost'[b] = lost[b]
    /\ bridge'[b].cursor = [execution |-> e.execution, sequence |-> e.sequence]

Drops(b, e) ==
    /\ published'[b] = published[b] /\ lost'[b] = e.number
    /\ bridge'[b].cursor = bridge[b].cursor

Takes(b) ==
    /\ OpenOrEmpty(b)'
    /\ Size(b) > 0 /\ Size(b)' = Size(b) - 1
    /\ \A i \in 1 .. Size(b)' : InFlight(b, i)' = InFlight(b, i + 1)
    /\ bridge'[b].subscribed = bridge[b].subscribed
    /\ \/ owned /\ ~Known(b, InFlight(b, 1)) /\ Publishes(b, InFlight(b, 1))
       \/ owned /\ Known(b, InFlight(b, 1)) /\ Kept(b)
       \/ Drops(b, InFlight(b, 1))

(* The node announces a transition, to those who can still take it.          *)
Announced ==
    \E e \in NextEvents :
        /\ e.execution <= MaxExecutions
        /\ process' = [execution |-> e.execution, sequence |-> e.sequence, status |-> e.new]
        /\ emitted' = emitted + 1 /\ boot' = boot /\ retained' = e
        /\ \A b \in Bridges : (Shrinks(b) /\ ~bridge'[b].subscribed) \/ Gets(b, e)

Restarted ==
    /\ process' = [process EXCEPT !.status = "OFFLINE"]
    /\ emitted' = emitted /\ boot' = boot + 1 /\ retained' = NoEvent
    /\ \A b \in Bridges : Shrinks(b) /\ ~bridge'[b].subscribed

Local ==
    /\ UNCHANGED node
    /\ \A b \in Bridges : Shrinks(b) \/ Resumes(b) \/ Takes(b)

Effect == Announced \/ Restarted \/ Local

LEMMA Untouched ==
    ASSUME BridgesTyped, StreamInv, NEW c \in Bridges,
           bridge'[c] = bridge[c], published'[c] = published[c], lost'[c] = lost[c]
    PROVE  Shrinks(c)
<1>1. Size(c)' = Size(c) /\ \A i : InFlight(c, i)' = InFlight(c, i)
    BY DEF Size, InFlight, Arrived, Queue
<1> QED BY <1>1, GoroutineTypes DEF Shrinks, Kept, OpenOrEmpty, StreamInv

(* A goroutine whose stream is closed and whose events are forgotten.        *)
LEMMA Quiet ==
    ASSUME BridgesTyped, NEW b \in Bridges, Size(b)' = 0, ~bridge'[b].subscribed, Kept(b)
    PROVE  Shrinks(b)
BY GoroutineTypes DEF Shrinks, OpenOrEmpty

(* A goroutine that has only lost its stream.                                *)
LEMMA Unsubscribed ==
    ASSUME BridgesTyped, StreamInv, NEW b \in Bridges, Kept(b),
           bridge'[b].pc = bridge[b].pc, ~bridge'[b].subscribed,
           Arrived(b)' = Arrived(b), Queue(b)' = <<>> \/ Queue(b)' = Queue(b)
    PROVE  Shrinks(b)
<1>1. Size(b)' \in 0 .. Size(b) /\ \A i \in 1 .. Size(b)' : InFlight(b, i)' = InFlight(b, i)
    BY QueueDropped, ListsUnchanged, GoroutineTypes
<1>2. OpenOrEmpty(b)'
    BY <1>1 DEF OpenOrEmpty, StreamInv
<1> QED BY <1>1, <1>2 DEF Shrinks

LEMMA AnnouncedBy ==
    ASSUME Typed, StreamInv, Publish
    PROVE  Announced
<1>1. PICK e \in NextEvents :
          /\ e.execution <= MaxExecutions
          /\ process' = [execution |-> e.execution, sequence |-> e.sequence, status |-> e.new]
          /\ emitted' = emitted + 1 /\ retained' = e
          /\ bridge' = [b \in Bridges |-> Deliver(bridge[b], e)]
          /\ UNCHANGED <<boot, controller, faults>>
    BY DEF Publish
<1>2. e \in Events
    BY <1>1, NextEventTypes DEF Typed
<1>3. ASSUME NEW b \in Bridges
      PROVE  (Shrinks(b) /\ ~bridge'[b].subscribed) \/ Gets(b, e)
  <2>0. /\ bridge'[b] = Deliver(bridge[b], e) /\ bridge[b] \in Goroutines
        /\ published'[b] = published[b] /\ lost'[b] = lost[b]
      BY <1>1, GoroutineTypes DEF controller, Typed
  <2>1. CASE ~bridge[b].subscribed
      BY <2>0, <2>1, Untouched DEF Typed, Deliver
  <2>2. CASE bridge[b].subscribed /\ Len(bridge[b].queue) < bridge[b].room
    <3>1. bridge'[b] = [bridge[b] EXCEPT !.queue = Append(bridge[b].queue, e)]
        BY <2>0, <2>2 DEF Deliver
    <3>2. /\ Arrived(b)' = Arrived(b) /\ Queue(b)' = Append(Queue(b), e)
          /\ bridge'[b].cursor = bridge[b].cursor /\ bridge'[b].pc = bridge[b].pc
          /\ bridge'[b].subscribed = bridge[b].subscribed
        BY <2>0, <3>1 DEF Goroutines, Arrived, Queue
    <3>3. /\ Size(b)' = Size(b) + 1
          /\ \A i \in 1 .. Size(b) : InFlight(b, i)' = InFlight(b, i)
          /\ \A i \in 1 .. Size(b)' : i = Size(b) + 1 => InFlight(b, i)' = e
        BY <1>2, <3>2, QueueAppended DEF Typed
    <3>4. OpenOrEmpty(b)'
        BY <2>2, <3>2 DEF StreamInv, OpenOrEmpty
    <3> QED BY <2>0, <2>2, <3>2, <3>3, <3>4 DEF Gets, Kept
  <2>3. CASE bridge[b].subscribed /\ ~(Len(bridge[b].queue) < bridge[b].room)
    <3>1. bridge'[b] = [bridge[b] EXCEPT !.subscribed = FALSE]
        BY <2>0, <2>3 DEF Deliver
    <3>2. /\ Arrived(b)' = Arrived(b) /\ Queue(b)' = Queue(b)
          /\ bridge'[b].cursor = bridge[b].cursor /\ bridge'[b].pc = bridge[b].pc
          /\ ~bridge'[b].subscribed
        BY <2>0, <3>1 DEF Goroutines, Arrived, Queue
    <3> QED BY <2>0, <3>2, Unsubscribed DEF Typed, Kept
  <2> QED BY <2>1, <2>2, <2>3
<1> QED BY <1>1, <1>3 DEF Announced, controller

LEMMA RestartedBy ==
    ASSUME Typed, StreamInv, NodeRestarts
    PROVE  Restarted
<1>1. ASSUME NEW b \in Bridges
      PROVE  Shrinks(b) /\ ~bridge'[b].subscribed
  <2>0. /\ bridge'[b] = [bridge[b] EXCEPT !.subscribed = FALSE, !.queue = <<>>]
        /\ published'[b] = published[b] /\ lost'[b] = lost[b] /\ bridge[b] \in Goroutines
      BY GoroutineTypes DEF NodeRestarts, controller, Typed
  <2>1. /\ Arrived(b)' = Arrived(b) /\ Queue(b)' = <<>>
        /\ bridge'[b].cursor = bridge[b].cursor /\ bridge'[b].pc = bridge[b].pc
        /\ ~bridge'[b].subscribed
      BY <2>0 DEF Goroutines, Arrived, Queue
  <2> QED BY <2>0, <2>1, Unsubscribed DEF Typed, Kept
<1> QED BY <1>1 DEF NodeRestarts, Restarted, controller

(* A step of one goroutine is local if its effect on that one is.            *)
LEMMA LocalStep ==
    ASSUME Typed, StreamInv, NEW b \in Bridges, NEW g,
           bridge' = [bridge EXCEPT ![b] = g],
           \A c \in Bridges : c # b => published'[c] = published[c] /\ lost'[c] = lost[c],
           UNCHANGED node,
           Shrinks(b) \/ Resumes(b) \/ Takes(b)
    PROVE  Local
<1>1. ASSUME NEW c \in Bridges, c # b
      PROVE  Shrinks(c)
    BY <1>1, Untouched DEF Typed, BridgesTyped
<1> QED BY <1>1 DEF Local

LEMMA ReplayTaken ==
    ASSUME Typed, StreamInv, NEW b \in Bridges, Subscribe(b)
    PROVE  Local
<1> DEFINE replay == IF retained = NoEvent THEN <<>> ELSE <<Replayed(retained)>>
           g == [bridge[b] EXCEPT !.pc = "streaming", !.subscribed = TRUE,
                                  !.room = BufferSize + Len(replay), !.queue = replay]
<1>0. bridge[b] \in Goroutines /\ BridgesTyped
    BY GoroutineTypes DEF Typed
<1>1. bridge' = [bridge EXCEPT ![b] = g] /\ bridge'[b] = g
    BY <1>0 DEF Subscribe, Replayed, BridgesTyped
<1> HIDE DEF replay
<1>2. /\ bridge'[b].pc = "streaming" /\ bridge'[b].cursor = bridge[b].cursor
      /\ Queue(b)' = replay /\ Arrived(b)' = Arrived(b)
  <2>1. g.pc = "streaming" /\ g.cursor = bridge[b].cursor
      BY <1>0 DEF Goroutines
  <2>2. g.queue = replay /\ g.arrived = bridge[b].arrived
      BY <1>0 DEF Goroutines
  <2> HIDE DEF g
  <2> QED BY <1>1, <2>1, <2>2 DEF Arrived, Queue
<1>3. Size(b) = 0 /\ Len(Arrived(b)) = 0
  <2>1. Size(b) = 0
      BY DEF Subscribe, StreamInv
  <2> QED BY <1>0, <2>1, GoroutineTypes DEF Size
<1>4. /\ Len(replay) = IF retained = NoEvent THEN 0 ELSE 1
      /\ \A i \in 1 .. Len(replay) : replay[i] = Replayed(retained)
    BY DEF replay
<1>5. Size(b)' = Len(replay) /\ \A i \in 1 .. Size(b)' : InFlight(b, i)' = replay[i]
  <2>1. Len(Arrived(b)') = 0 /\ Len(Queue(b)') = Len(replay) /\ Len(replay) \in Nat
      BY <1>2, <1>3, <1>4
  <2>2. Size(b)' = Len(replay)
      BY <2>1 DEF Size
  <2>3. ASSUME NEW i \in 1 .. Size(b)'
        PROVE  InFlight(b, i)' = replay[i]
    <3>1. ~(i <= 0) /\ i - 0 = i
        BY <2>1, <2>2
    <3> QED BY <1>2, <2>1, <3>1 DEF InFlight
  <2> QED BY <2>2, <2>3
<1>6. Resumes(b)
    BY <1>2, <1>3, <1>4, <1>5 DEF Resumes, Kept, OpenOrEmpty, Subscribe, controller
<1> QED BY <1>1, <1>6, LocalStep DEF Subscribe, controller

LEMMA EventHandedOver ==
    ASSUME Typed, StreamInv, NEW b \in Bridges, Receive(b)
    PROVE  Local
<1> DEFINE g == [bridge[b] EXCEPT !.queue = Tail(Queue(b)),
                                  !.arrived = Append(Arrived(b), Head(Queue(b)))]
<1>0. bridge[b] \in Goroutines /\ BridgesTyped
    BY GoroutineTypes DEF Typed
<1>1. bridge' = [bridge EXCEPT ![b] = g] /\ bridge'[b] = g
    BY <1>0 DEF Receive, BridgesTyped, Arrived, Queue
<1>2. /\ bridge'[b].pc = bridge[b].pc /\ bridge'[b].cursor = bridge[b].cursor
      /\ bridge'[b].subscribed = bridge[b].subscribed
      /\ Queue(b)' = Tail(Queue(b)) /\ Arrived(b)' = Append(Arrived(b), Head(Queue(b)))
  <2>1. g.pc = bridge[b].pc /\ g.cursor = bridge[b].cursor /\ g.subscribed = bridge[b].subscribed
      BY <1>0 DEF Goroutines
  <2>2. g.queue = Tail(Queue(b)) /\ g.arrived = Append(Arrived(b), Head(Queue(b)))
      BY <1>0 DEF Goroutines
  <2> HIDE DEF g
  <2> QED BY <1>1, <2>1, <2>2 DEF Arrived, Queue
<1>3. Size(b)' = Size(b) /\ \A i \in 1 .. Size(b) : InFlight(b, i)' = InFlight(b, i)
  <2>1. Queue(b) # <<>>
      BY DEF Receive, Queue
  <2> QED BY <1>0, <1>2, <2>1, EventReceived
<1>4. Shrinks(b)
  <2>1. Kept(b) /\ OpenOrEmpty(b)'
      BY <1>2, <1>3 DEF Kept, OpenOrEmpty, StreamInv, Receive, controller
  <2> QED BY <1>0, <1>2, <1>3, <2>1, GoroutineTypes DEF Shrinks
<1> QED BY <1>1, <1>4, LocalStep DEF Receive, controller

LEMMA ConnectionLost ==
    ASSUME Typed, StreamInv, NEW b \in Bridges, Break(b)
    PROVE  Local
<1> DEFINE g == [bridge[b] EXCEPT !.subscribed = FALSE, !.queue = <<>>]
<1>0. bridge[b] \in Goroutines /\ BridgesTyped
    BY GoroutineTypes DEF Typed
<1>1. bridge' = [bridge EXCEPT ![b] = g] /\ bridge'[b] = g
    BY <1>0 DEF Break, BridgesTyped
<1>2. /\ bridge'[b].pc = bridge[b].pc /\ bridge'[b].cursor = bridge[b].cursor
      /\ ~bridge'[b].subscribed /\ Queue(b)' = <<>> /\ Arrived(b)' = Arrived(b)
  <2>1. g.pc = bridge[b].pc /\ g.cursor = bridge[b].cursor /\ ~g.subscribed
      BY <1>0 DEF Goroutines
  <2>2. g.queue = <<>> /\ g.arrived = bridge[b].arrived
      BY <1>0 DEF Goroutines
  <2> HIDE DEF g
  <2> QED BY <1>1, <2>1, <2>2 DEF Arrived, Queue
<1>3. Shrinks(b)
    BY <1>0, <1>2, Unsubscribed DEF Break, controller, Kept
<1> QED BY <1>1, <1>3, LocalStep DEF Break, controller

LEMMA GoroutineLeaves ==
    ASSUME Typed, StreamInv, NEW b \in Bridges, Leave(b) \/ StreamEnds(b)
    PROVE  Local
<1>0. bridge[b] \in Goroutines /\ BridgesTyped
    BY GoroutineTypes DEF Typed
<1>1. CASE Leave(b)
  <2> DEFINE g == [bridge[b] EXCEPT !.pc = "stopped", !.subscribed = FALSE, !.queue = <<>>,
                                    !.arrived = <<>>]
  <2>1. bridge' = [bridge EXCEPT ![b] = g] /\ bridge'[b] = g
      BY <1>0, <1>1 DEF Leave, BridgesTyped
  <2>2. /\ bridge'[b].cursor = bridge[b].cursor
        /\ ~bridge'[b].subscribed /\ Queue(b)' = <<>> /\ Arrived(b)' = <<>>
    <3>1. g.cursor = bridge[b].cursor /\ ~g.subscribed /\ g.queue = <<>> /\ g.arrived = <<>>
        BY <1>0 DEF Goroutines
    <3> HIDE DEF g
    <3> QED BY <2>1, <3>1 DEF Arrived, Queue
  <2>3. Shrinks(b)
      BY <1>0, <1>1, <2>2, ListsEmptied, Quiet DEF Leave, controller, Kept
  <2> QED BY <1>1, <2>1, <2>3, LocalStep DEF Leave, controller
<1>2. CASE StreamEnds(b)
  <2> DEFINE g == [bridge[b] EXCEPT !.pc = "dialing"]
  <2>1. bridge' = [bridge EXCEPT ![b] = g] /\ bridge'[b] = g
      BY <1>0, <1>2 DEF StreamEnds, BridgesTyped
  <2>2. /\ bridge'[b].cursor = bridge[b].cursor
        /\ ~bridge'[b].subscribed /\ Queue(b)' = <<>> /\ Arrived(b)' = <<>>
    <3>1. /\ g.cursor = bridge[b].cursor /\ g.subscribed = bridge[b].subscribed
          /\ g.queue = bridge[b].queue /\ g.arrived = bridge[b].arrived
        BY <1>0 DEF Goroutines
    <3>2. ~bridge[b].subscribed /\ bridge[b].queue = <<>> /\ bridge[b].arrived = <<>>
        BY <1>2 DEF StreamEnds
    <3> HIDE DEF g
    <3> QED BY <2>1, <3>1, <3>2 DEF Arrived, Queue
  <2>3. Shrinks(b)
      BY <1>0, <1>2, <2>2, ListsEmptied, Quiet DEF StreamEnds, controller, Kept
  <2> QED BY <1>2, <2>1, <2>3, LocalStep DEF StreamEnds, controller
<1> QED BY <1>1, <1>2

LEMMA EventRepublished ==
    ASSUME Typed, StreamInv, NEW b \in Bridges, Republish(b)
    PROVE  Local
<1> DEFINE e == Head(Arrived(b))
           news == owned /\ ~Known(b, e)
           next == IF news THEN [execution |-> e.execution, sequence |-> e.sequence]
                   ELSE bridge[b].cursor
           g == [bridge[b] EXCEPT !.arrived = Tail(Arrived(b)), !.cursor = next]
<1>0. /\ bridge[b] \in Goroutines /\ BridgesTyped
      /\ published \in [Bridges -> Events] /\ lost \in [Bridges -> Nat]
    BY GoroutineTypes DEF Typed, ControllerTyped
<1>1. bridge' = [bridge EXCEPT ![b] = g] /\ bridge'[b] = g
    BY <1>0 DEF Republish, BridgesTyped, Arrived
<1> HIDE DEF next
<1>2. /\ bridge'[b].pc = bridge[b].pc /\ bridge'[b].cursor = next
      /\ bridge'[b].subscribed = bridge[b].subscribed
      /\ Queue(b)' = Queue(b) /\ Arrived(b)' = Tail(Arrived(b))
  <2>1. g.pc = bridge[b].pc /\ g.cursor = next /\ g.subscribed = bridge[b].subscribed
      BY <1>0 DEF Goroutines
  <2>2. g.queue = bridge[b].queue /\ g.arrived = Tail(Arrived(b))
      BY <1>0 DEF Goroutines
  <2> HIDE DEF g
  <2> QED BY <1>1, <2>1, <2>2 DEF Arrived, Queue
<1>3. /\ e = InFlight(b, 1) /\ Size(b) > 0 /\ Size(b)' = Size(b) - 1
      /\ \A i \in 1 .. Size(b)' : InFlight(b, i)' = InFlight(b, i + 1)
  <2>1. Arrived(b) # <<>>
      BY DEF Republish, Arrived
  <2> QED BY <1>0, <1>2, <2>1, EventTaken
<1>4. /\ published' = IF news THEN [published EXCEPT ![b] = e] ELSE published
      /\ lost' = IF owned THEN lost ELSE [lost EXCEPT ![b] = e.number]
    BY DEF Republish, Arrived
<1>5. \/ news /\ Publishes(b, e)
      \/ owned /\ ~news /\ Kept(b)
      \/ Drops(b, e)
  <2>1. CASE news
      BY <1>0, <1>2, <1>4, <2>1 DEF Publishes, next
  <2>2. CASE owned /\ ~news
      BY <1>0, <1>2, <1>4, <2>2 DEF Kept, next
  <2>3. CASE ~owned
      BY <1>0, <1>2, <1>4, <2>3 DEF Drops, next
  <2> QED BY <2>1, <2>2, <2>3
<1>6. OpenOrEmpty(b)'
    BY <1>2 DEF OpenOrEmpty, Republish
<1>7. Takes(b)
    BY <1>2, <1>3, <1>5, <1>6 DEF Takes
<1>8. \A c \in Bridges : c # b => published'[c] = published[c] /\ lost'[c] = lost[c]
    BY <1>0, <1>4
<1> QED BY <1>1, <1>7, <1>8, LocalStep DEF Republish

LEMMA EventDropped ==
    ASSUME Typed, StreamInv, NEW b \in Bridges, LookupFails(b)
    PROVE  Local
<1> DEFINE e == Head(Arrived(b))
           g == [bridge[b] EXCEPT !.arrived = Tail(Arrived(b))]
<1>0. /\ bridge[b] \in Goroutines /\ BridgesTyped
      /\ published \in [Bridges -> Events] /\ lost \in [Bridges -> Nat]
    BY GoroutineTypes DEF Typed, ControllerTyped
<1>1. bridge' = [bridge EXCEPT ![b] = g] /\ bridge'[b] = g
    BY <1>0 DEF LookupFails, BridgesTyped, Arrived
<1>2. /\ bridge'[b].pc = bridge[b].pc /\ bridge'[b].cursor = bridge[b].cursor
      /\ bridge'[b].subscribed = bridge[b].subscribed
      /\ Queue(b)' = Queue(b) /\ Arrived(b)' = Tail(Arrived(b))
  <2>1. /\ g.pc = bridge[b].pc /\ g.cursor = bridge[b].cursor
        /\ g.subscribed = bridge[b].subscribed
      BY <1>0 DEF Goroutines
  <2>2. g.queue = bridge[b].queue /\ g.arrived = Tail(Arrived(b))
      BY <1>0 DEF Goroutines
  <2> HIDE DEF g
  <2> QED BY <1>1, <2>1, <2>2 DEF Arrived, Queue
<1>3. /\ e = InFlight(b, 1) /\ Size(b) > 0 /\ Size(b)' = Size(b) - 1
      /\ \A i \in 1 .. Size(b)' : InFlight(b, i)' = InFlight(b, i + 1)
  <2>1. Arrived(b) # <<>>
      BY DEF LookupFails, Arrived
  <2> QED BY <1>0, <1>2, <2>1, EventTaken
<1>4. published' = published /\ lost' = [lost EXCEPT ![b] = e.number]
    BY DEF LookupFails, Arrived
<1>5. Drops(b, e)
    BY <1>0, <1>2, <1>4 DEF Drops
<1>6. OpenOrEmpty(b)'
    BY <1>2 DEF OpenOrEmpty, LookupFails
<1>7. Takes(b)
    BY <1>2, <1>3, <1>5, <1>6 DEF Takes
<1>8. \A c \in Bridges : c # b => published'[c] = published[c] /\ lost'[c] = lost[c]
    BY <1>0, <1>4
<1> QED BY <1>1, <1>7, <1>8, LocalStep DEF LookupFails

LEMMA GoroutinesReplaced ==
    ASSUME Typed, StreamInv, StartedInv, StartForClient \/ OnRemove \/ MoveServer
    PROVE  Local
<1>0. BridgesTyped /\ started \in Nat /\ started \in Bridges
    BY Naturals1 DEF Typed, ControllerTyped
<1>1. ASSUME NEW b \in Bridges
      PROVE  Shrinks(b)
  <2>0. published'[b] = published[b] /\ lost'[b] = lost[b] /\ bridge[b] \in Goroutines
      BY <1>0, GoroutineTypes DEF StartForClient, OnRemove, MoveServer
  <2>1. CASE bridge'[b] = bridge[b]
      BY <1>0, <2>0, <2>1, Untouched
  <2>2. CASE bridge'[b] = [bridge[b] EXCEPT !.cancelled = TRUE]
    <3>1. /\ bridge'[b].pc = bridge[b].pc /\ bridge'[b].cursor = bridge[b].cursor
          /\ bridge'[b].subscribed = bridge[b].subscribed
          /\ Queue(b)' = Queue(b) /\ Arrived(b)' = Arrived(b)
        BY <2>0, <2>2 DEF Goroutines, Arrived, Queue
    <3>2. Size(b)' = Size(b) /\ \A i : InFlight(b, i)' = InFlight(b, i)
        BY <3>1, ListsUnchanged
    <3> QED BY <1>0, <2>0, <3>1, <3>2, GoroutineTypes DEF Shrinks, Kept, OpenOrEmpty, StreamInv
  <2>3. CASE b = started + 1 /\ bridge'[b] = Fresh
    <3>1. bridge[b] = NotStarted
        BY <1>0, <2>3 DEF StartedInv
    <3>2. /\ bridge'[b].cursor = bridge[b].cursor
          /\ ~bridge'[b].subscribed /\ Queue(b)' = <<>> /\ Arrived(b)' = <<>>
        BY <2>3, <3>1, FreshTypes DEF Queue, Arrived
    <3> QED BY <1>0, <2>0, <3>2, ListsEmptied, Quiet DEF Kept
  <2>4. bridge'[b] = bridge[b] \/ bridge'[b] = [bridge[b] EXCEPT !.cancelled = TRUE]
        \/ (b = started + 1 /\ bridge'[b] = Fresh)
    <3>1. CASE StartForClient
        BY <3>1 DEF StartForClient
    <3>2. CASE OnRemove
        BY <1>0, <3>2 DEF OnRemove, BridgesTyped
    <3>3. CASE MoveServer
        BY <3>3 DEF MoveServer
    <3> QED BY <3>1, <3>2, <3>3
  <2> QED BY <2>1, <2>2, <2>3, <2>4
<1>2. UNCHANGED node
    BY DEF StartForClient, OnRemove, MoveServer
<1> QED BY <1>1, <1>2 DEF Local

(* Every step is an announcement, a restart of the node, or local to the     *)
(* goroutines.                                                               *)
LEMMA StepsHaveEffects ==
    ASSUME Typed, StreamInv, StartedInv, Next
    PROVE  Effect
<1>1. CASE Publish
    BY <1>1, AnnouncedBy DEF Effect
<1>2. CASE NodeRestarts
    BY <1>2, RestartedBy DEF Effect
<1>3. CASE \E b \in Bridges : BridgeStep(b) \/ Break(b) \/ LookupFails(b)
    BY <1>3, ReplayTaken, EventHandedOver, ConnectionLost, GoroutineLeaves, EventRepublished,
       EventDropped
    DEF Effect, BridgeStep
<1>4. CASE StartForClient \/ OnRemove \/ MoveServer
    BY <1>4, GoroutinesReplaced DEF Effect
<1> QED BY <1>1, <1>2, <1>3, <1>4 DEF Next

-----------------------------------------------------------------------------
(* The steps keep the types.                                                 *)

Fits(g) == g \in Goroutines /\ Len(g.queue) <= g.room

LEMMA AllFit ==
    /\ BridgesTyped /\ RoomTyped => \A b \in Bridges : Fits(bridge[b])
    /\ bridge' = [b \in Bridges |-> bridge'[b]] /\ (\A b \in Bridges : Fits(bridge'[b]))
           => BridgesTyped' /\ RoomTyped'
BY DEF BridgesTyped, RoomTyped, Fits

LEMMA OneFits ==
    ASSUME BridgesTyped, RoomTyped, NEW b \in Bridges, NEW g, Fits(g),
           bridge' = [bridge EXCEPT ![b] = g]
    PROVE  BridgesTyped' /\ RoomTyped'
BY DEF BridgesTyped, RoomTyped, Fits

LEMMA TypesAreKeptByBridges ==
    ASSUME Typed, NEW b \in Bridges, BridgeStep(b) \/ Break(b) \/ LookupFails(b)
    PROVE  BridgesTyped' /\ RoomTyped'
<1>0. /\ bridge[b] \in Goroutines /\ BridgesTyped /\ RoomTyped
      /\ Queue(b) \in Seq(Events) /\ Arrived(b) \in Seq(Events) /\ retained \in Events
      /\ <<>> \in Seq(Events) /\ Len(Queue(b)) <= bridge[b].room /\ bridge[b].room \in Nat /\ Len(Queue(b)) \in Nat
    BY GoroutineTypes DEF Typed, RoomTyped, NodeTyped, Queue
<1>1. CASE Subscribe(b)
  <2> DEFINE replay == IF retained = NoEvent THEN <<>> ELSE <<Replayed(retained)>>
             g == [bridge[b] EXCEPT !.pc = "streaming", !.subscribed = TRUE,
                                    !.room = BufferSize + Len(replay), !.queue = replay]
  <2>1. bridge' = [bridge EXCEPT ![b] = g]
      BY <1>1 DEF Subscribe, Replayed
  <2>2. replay \in Seq(Events) /\ Len(replay) \in Nat
      BY <1>0, ReplayedTypes
  <2> HIDE DEF replay
  <2>3. g \in Goroutines /\ g.queue = replay /\ g.room = BufferSize + Len(replay)
    <3>1. BufferSize + Len(replay) \in Nat
        BY <2>2, Naturals1
    <3>2. g.queue = replay /\ g.room = BufferSize + Len(replay)
        BY <1>0 DEF Goroutines
    <3>3. g \in Goroutines
        BY <1>0, <2>2, <3>1 DEF Goroutines, Places
    <3> QED BY <3>2, <3>3
  <2>4. Fits(g)
      BY <2>2, <2>3, Naturals1 DEF Fits
  <2> QED BY <1>0, <2>1, <2>4, OneFits
<1>2. CASE Receive(b)
  <2> DEFINE g == [bridge[b] EXCEPT !.queue = Tail(Queue(b)),
                                    !.arrived = Append(Arrived(b), Head(Queue(b)))]
  <2>1. bridge' = [bridge EXCEPT ![b] = g] /\ Queue(b) # <<>>
      BY <1>2 DEF Receive, Arrived, Queue
  <2>2. /\ Head(Queue(b)) \in Events /\ Tail(Queue(b)) \in Seq(Events)
        /\ Len(Tail(Queue(b))) = Len(Queue(b)) - 1
      BY <1>0, <2>1
  <2>3. Append(Arrived(b), Head(Queue(b))) \in Seq(Events)
      BY <1>0, <2>2
  <2>4. g \in Goroutines /\ g.queue = Tail(Queue(b)) /\ g.room = bridge[b].room
      BY <1>0, <2>2, <2>3 DEF Goroutines
  <2>5. Fits(g)
      BY <1>0, <2>2, <2>4 DEF Fits
  <2> QED BY <1>0, <2>1, <2>5, OneFits
<1>3. CASE Republish(b)
  <2> DEFINE e == Head(Arrived(b))
             next == IF owned /\ ~Known(b, e) THEN [execution |-> e.execution, sequence |-> e.sequence]
                     ELSE bridge[b].cursor
             g == [bridge[b] EXCEPT !.arrived = Tail(Arrived(b)), !.cursor = next]
  <2>1. bridge' = [bridge EXCEPT ![b] = g] /\ Arrived(b) # <<>>
      BY <1>3 DEF Republish, Arrived
  <2>2. e \in Events /\ Tail(Arrived(b)) \in Seq(Events)
      BY <1>0, <2>1
  <2>3. next \in Cursors
      BY <1>0, <2>2, EventTypes, GoroutineTypes DEF Cursors
  <2> HIDE DEF next
  <2>4. g \in Goroutines /\ g.queue = Queue(b) /\ g.room = bridge[b].room
      BY <1>0, <2>2, <2>3 DEF Goroutines, Queue
  <2>5. Fits(g)
      BY <1>0, <2>4 DEF Fits
  <2> QED BY <1>0, <2>1, <2>5, OneFits
<1>4. CASE StreamEnds(b)
  <2> DEFINE g == [bridge[b] EXCEPT !.pc = "dialing"]
  <2>1. bridge' = [bridge EXCEPT ![b] = g]
      BY <1>4 DEF StreamEnds
  <2>2. g \in Goroutines /\ g.queue = Queue(b) /\ g.room = bridge[b].room
      BY <1>0 DEF Goroutines, Places, Queue
  <2>3. Fits(g)
      BY <1>0, <2>2 DEF Fits
  <2> QED BY <1>0, <2>1, <2>3, OneFits
<1>5. CASE Leave(b)
  <2> DEFINE g == [bridge[b] EXCEPT !.pc = "stopped", !.subscribed = FALSE, !.queue = <<>>,
                                    !.arrived = <<>>]
  <2>1. bridge' = [bridge EXCEPT ![b] = g]
      BY <1>5 DEF Leave
  <2>2. g.queue = <<>> /\ g.room = bridge[b].room /\ Len(<<>>) = 0
      BY <1>0 DEF Goroutines
  <2>3. g \in Goroutines
      BY <1>0 DEF Goroutines, Places
  <2>4. Fits(g)
      BY <1>0, <2>2, <2>3 DEF Fits
  <2> QED BY <1>0, <2>1, <2>4, OneFits
<1>6. CASE Break(b)
  <2> DEFINE g == [bridge[b] EXCEPT !.subscribed = FALSE, !.queue = <<>>]
  <2>1. bridge' = [bridge EXCEPT ![b] = g]
      BY <1>6 DEF Break
  <2>2. g.queue = <<>> /\ g.room = bridge[b].room /\ Len(<<>>) = 0
      BY <1>0 DEF Goroutines
  <2>3. g \in Goroutines
      BY <1>0 DEF Goroutines
  <2>4. Fits(g)
      BY <1>0, <2>2, <2>3 DEF Fits
  <2> QED BY <1>0, <2>1, <2>4, OneFits
<1>7. CASE LookupFails(b)
  <2> DEFINE g == [bridge[b] EXCEPT !.arrived = Tail(Arrived(b))]
  <2>1. bridge' = [bridge EXCEPT ![b] = g] /\ Arrived(b) # <<>>
      BY <1>7 DEF LookupFails, Arrived
  <2>2. Tail(Arrived(b)) \in Seq(Events)
      BY <1>0, <2>1
  <2>3. g \in Goroutines /\ g.queue = Queue(b) /\ g.room = bridge[b].room
      BY <1>0, <2>2 DEF Goroutines, Queue
  <2>4. Fits(g)
      BY <1>0, <2>3 DEF Fits
  <2> QED BY <1>0, <2>1, <2>4, OneFits
<1> QED BY <1>1, <1>2, <1>3, <1>4, <1>5, <1>6, <1>7 DEF BridgeStep

LEMMA TypesAreKept ==
    ASSUME Typed, StreamInv, StartedInv, Next
    PROVE  Typed'
<1>0. NodeTyped /\ BridgesTyped /\ RoomTyped /\ ControllerTyped
    BY DEF Typed
<1>1. CASE Publish
  <2>1. PICK e \in NextEvents :
            /\ e.execution <= MaxExecutions
            /\ process' = [execution |-> e.execution, sequence |-> e.sequence, status |-> e.new]
            /\ emitted' = emitted + 1 /\ retained' = e
            /\ bridge' = [b \in Bridges |-> Deliver(bridge[b], e)]
            /\ UNCHANGED <<boot, controller, faults>>
      BY <1>1 DEF Publish
  <2>2. /\ e \in Events /\ e.sequence \in Nat /\ e.execution \in 0 .. MaxExecutions
        /\ e.new \in Statuses
      BY <1>0, <2>1, NextEventTypes
  <2>3. NodeTyped'
      BY <1>0, <2>1, <2>2 DEF NodeTyped, Processes
  <2>4. ASSUME NEW b \in Bridges
        PROVE  Fits(Deliver(bridge[b], e))
    <3>0. /\ bridge[b] \in Goroutines /\ Queue(b) \in Seq(Events) /\ Fits(bridge[b])
          /\ Len(Queue(b)) \in Nat /\ bridge[b].room \in Nat
        BY <1>0, GoroutineTypes, AllFit
    <3>1. CASE ~bridge[b].subscribed
        BY <3>0, <3>1 DEF Deliver
    <3>2. CASE bridge[b].subscribed /\ Len(Queue(b)) < bridge[b].room
      <4> DEFINE g == [bridge[b] EXCEPT !.queue = Append(Queue(b), e)]
      <4>1. Deliver(bridge[b], e) = g
          BY <3>2 DEF Deliver, Queue
      <4>2. Append(Queue(b), e) \in Seq(Events) /\ Len(Append(Queue(b), e)) = Len(Queue(b)) + 1
          BY <2>2, <3>0
      <4>3. g \in Goroutines /\ g.queue = Append(Queue(b), e) /\ g.room = bridge[b].room
          BY <3>0, <4>2 DEF Goroutines
      <4>4. Fits(g)
          BY <3>0, <3>2, <4>2, <4>3 DEF Fits
      <4> QED BY <4>1, <4>4
    <3>3. CASE bridge[b].subscribed /\ ~(Len(Queue(b)) < bridge[b].room)
      <4>1. Deliver(bridge[b], e) = [bridge[b] EXCEPT !.subscribed = FALSE]
          BY <3>3 DEF Deliver, Queue
      <4> QED BY <3>0, <4>1 DEF Fits, Goroutines
    <3> QED BY <3>1, <3>2, <3>3
  <2>5. BridgesTyped' /\ RoomTyped'
      BY <2>1, <2>4, AllFit
  <2>6. ControllerTyped'
      BY <1>0, <2>1 DEF ControllerTyped, controller
  <2> QED BY <2>3, <2>5, <2>6 DEF Typed
<1>2. CASE NodeRestarts
  <2>0. /\ boot' = boot + 1 /\ emitted' = emitted /\ retained' = NoEvent
        /\ faults < MaxFaults /\ faults' = faults + 1
        /\ process' = [process EXCEPT !.status = "OFFLINE"] /\ UNCHANGED controller
      BY <1>2 DEF NodeRestarts
  <2>1. ASSUME NEW b \in Bridges
        PROVE  Fits([bridge[b] EXCEPT !.subscribed = FALSE, !.queue = <<>>])
    <3>0. /\ bridge[b] \in Goroutines /\ <<>> \in Seq(Events) /\ Len(<<>>) = 0
          /\ bridge[b].room \in Nat
        BY <1>0, GoroutineTypes
    <3> DEFINE g == [bridge[b] EXCEPT !.subscribed = FALSE, !.queue = <<>>]
    <3>1. g.queue = <<>> /\ g.room = bridge[b].room
        BY <3>0 DEF Goroutines
    <3>2. g \in Goroutines
        BY <3>0 DEF Goroutines
    <3> QED BY <3>0, <3>1, <3>2 DEF Fits
  <2>2. BridgesTyped' /\ RoomTyped'
      BY <1>2, <2>1, AllFit DEF NodeRestarts
  <2>3. NodeTyped'
    <3>1. process' \in Processes
        BY <1>0, <2>0 DEF NodeTyped, Processes, Statuses
    <3> QED BY <1>0, <2>0, <3>1, FreshTypes DEF NodeTyped
  <2>4. ControllerTyped'
    <3>1. faults' \in 0 .. MaxFaults
        BY <1>0, <2>0, EventStreamAssumption DEF ControllerTyped
    <3> QED BY <1>0, <2>0, <3>1 DEF ControllerTyped, controller
  <2> QED BY <2>2, <2>3, <2>4 DEF Typed
<1>3. ASSUME NEW b \in Bridges, BridgeStep(b) \/ Break(b) \/ LookupFails(b)
      PROVE  Typed'
  <2>1. BridgesTyped' /\ RoomTyped'
      BY <1>3, TypesAreKeptByBridges
  <2>2. NodeTyped'
      BY <1>0, <1>3 DEF NodeTyped, node, BridgeStep, Subscribe, Receive, Republish, StreamEnds,
                        Leave, Break, LookupFails
  <2>3. /\ UNCHANGED <<active, started, owned>>
        /\ faults' = faults \/ (faults < MaxFaults /\ faults' = faults + 1)
      BY <1>3 DEF controller, BridgeStep, Subscribe, Receive, Republish, StreamEnds, Leave, Break,
                  LookupFails
  <2>4. faults' \in 0 .. MaxFaults
      BY <1>0, <2>3, EventStreamAssumption DEF ControllerTyped
  <2>5. published' \in [Bridges -> Events]
    <3>1. CASE Republish(b)
      <4>1. Head(bridge[b].arrived) \in Events
          BY <1>0, <3>1, GoroutineTypes DEF Republish, Arrived
      <4> QED BY <1>0, <3>1, <4>1 DEF Republish, ControllerTyped
    <3>2. CASE published' = published
        BY <1>0, <3>2 DEF ControllerTyped
    <3> QED BY <1>3, <3>1, <3>2 DEF controller, BridgeStep, Subscribe, Receive, StreamEnds, Leave,
                                    Break, LookupFails
  <2>7. lost' \in [Bridges -> Nat]
    <3>1. CASE LookupFails(b)
      <4>1. Head(bridge[b].arrived) \in Events
          BY <1>0, <3>1, GoroutineTypes DEF LookupFails, Arrived
      <4>2. Head(bridge[b].arrived).number \in Nat
          BY <4>1, EventTypes
      <4> QED BY <1>0, <3>1, <4>2 DEF LookupFails, ControllerTyped
    <3>2. CASE lost' = lost
        BY <1>0, <3>2 DEF ControllerTyped
    <3>3. CASE Republish(b)
      <4>1. Head(bridge[b].arrived) \in Events
          BY <1>0, <3>3, GoroutineTypes DEF Republish, Arrived
      <4>2. Head(bridge[b].arrived).number \in Nat
          BY <4>1, EventTypes
      <4> QED BY <1>0, <3>3, <4>2 DEF Republish, ControllerTyped
    <3> QED BY <1>3, <3>1, <3>2, <3>3 DEF controller, BridgeStep, Subscribe, Receive,
                                          StreamEnds, Leave, Break
  <2>6. ControllerTyped'
      BY <1>0, <2>3, <2>4, <2>5, <2>7 DEF ControllerTyped
  <2> QED BY <2>1, <2>2, <2>6 DEF Typed
<1>4. CASE StartForClient \/ OnRemove \/ MoveServer
  <2>1. NodeTyped'
      BY <1>0, <1>4 DEF NodeTyped, node, StartForClient, OnRemove, MoveServer
  <2>2. ControllerTyped'
    <3>0. started \in Nat /\ MaxBridges \in Nat
        BY <1>0, Naturals1 DEF ControllerTyped
    <3>1. active' \in 0 .. MaxBridges /\ started' \in Bridges
        BY <1>0, <1>4, <3>0 DEF ControllerTyped, StartForClient, OnRemove, MoveServer, Bridges
    <3>2. faults' \in 0 .. MaxFaults
        BY <1>0, <1>4, EventStreamAssumption DEF ControllerTyped, StartForClient, OnRemove, MoveServer
    <3> QED BY <1>0, <1>4, <3>1, <3>2 DEF ControllerTyped, StartForClient, OnRemove, MoveServer
  <2>3. ASSUME NEW b \in Bridges
        PROVE  Fits(Fresh) /\ Fits(bridge[b]) /\ Fits([bridge[b] EXCEPT !.cancelled = TRUE])
    <3>1. bridge[b] \in Goroutines /\ Fits(bridge[b])
        BY <1>0, GoroutineTypes, AllFit
    <3>2. Fits([bridge[b] EXCEPT !.cancelled = TRUE])
        BY <3>1 DEF Fits, Goroutines
    <3>3. Fits(Fresh)
        BY FreshTypes DEF Fits, Fresh, NotStarted
    <3> QED BY <3>1, <3>2, <3>3
  <2>4. CASE StartForClient
    <3>1. ASSUME NEW b \in Bridges
          PROVE  Fits(bridge'[b])
        BY <2>3, <2>4 DEF StartForClient
    <3>2. bridge' = [b \in Bridges |-> bridge'[b]]
        BY <2>4 DEF StartForClient
    <3>3. BridgesTyped' /\ RoomTyped'
        BY <3>1, <3>2, AllFit
    <3> QED BY <2>1, <2>2, <3>3 DEF Typed
  <2>5. CASE OnRemove
    <3>1. active \in Bridges
        BY <1>0, <2>5 DEF OnRemove, ControllerTyped, Bridges
    <3>2. BridgesTyped' /\ RoomTyped'
        BY <1>0, <2>3, <2>5, <3>1, OneFits DEF OnRemove
    <3> QED BY <2>1, <2>2, <3>2 DEF Typed
  <2>6. CASE MoveServer
    <3>1. BridgesTyped' /\ RoomTyped'
        BY <1>0, <2>6 DEF MoveServer, BridgesTyped, RoomTyped
    <3> QED BY <2>1, <2>2, <3>1 DEF Typed
  <2> QED BY <1>4, <2>4, <2>5, <2>6
<1> QED BY <1>1, <1>2, <1>3, <1>4 DEF Next

-----------------------------------------------------------------------------
(* The steps keep the invariant.                                             *)

LEMMA NodeNumbers ==
    ASSUME Typed
    PROVE  /\ process.execution \in Nat /\ process.sequence \in Nat /\ emitted \in Nat /\ boot \in Nat
           /\ process \in Processes /\ retained \in Events /\ owned \in BOOLEAN
           /\ \A b \in Bridges : published[b] \in Events /\ lost[b] \in Nat
           /\ \A b \in Bridges : Size(b) \in Nat
           /\ \A b \in Bridges : \A i \in 1 .. Size(b) : InFlight(b, i) \in Events
<1>1. /\ process.execution \in Nat /\ process.sequence \in Nat /\ emitted \in Nat /\ boot \in Nat
      /\ process \in Processes /\ retained \in Events
    BY Naturals1 DEF Typed, NodeTyped, Processes
<1>2. /\ owned \in BOOLEAN
      /\ \A b \in Bridges : published[b] \in Events /\ lost[b] \in Nat
    BY DEF Typed, ControllerTyped
<1>3. /\ \A b \in Bridges : Size(b) \in Nat
      /\ \A b \in Bridges : \A i \in 1 .. Size(b) : InFlight(b, i) \in Events
    BY GoroutineTypes, InFlightTypes DEF Typed
<1> QED BY <1>1, <1>2, <1>3

(* What an announcement adds.                                                *)
New(e) ==
    /\ e \in Events /\ e.number = emitted + 1 /\ e.boot = boot /\ e.number \in Nat
    /\ e.execution \in Nat /\ e.sequence \in Nat /\ e.boot \in Nat
    /\ \/ e.execution = process.execution + 1
       \/ e.execution = process.execution /\ e.sequence = process.sequence + 1
    /\ process'.execution = e.execution /\ process'.sequence = e.sequence
    /\ emitted' = emitted + 1 /\ boot' = boot /\ retained' = e
    /\ \A b \in Bridges : (Shrinks(b) /\ ~bridge'[b].subscribed) \/ Gets(b, e)

LEMMA AnnouncedIsNew ==
    ASSUME Typed, Announced
    PROVE  \E e : New(e)
<1>1. PICK e \in NextEvents :
        /\ e.execution <= MaxExecutions
        /\ process' = [execution |-> e.execution, sequence |-> e.sequence, status |-> e.new]
        /\ emitted' = emitted + 1 /\ boot' = boot /\ retained' = e
        /\ \A b \in Bridges : (Shrinks(b) /\ ~bridge'[b].subscribed) \/ Gets(b, e)
    BY DEF Announced
<1>2. /\ e \in Events /\ e.number = emitted + 1 /\ e.boot = boot
      /\ \/ e.execution = process.execution + 1
         \/ e.execution = process.execution /\ e.sequence = process.sequence + 1
    BY <1>1, NextEventTypes DEF Typed
<1>3. e.execution \in Nat /\ e.sequence \in Nat /\ e.number \in Nat /\ e.boot \in Nat
    BY <1>2, EventTypes
<1>4. process'.execution = e.execution /\ process'.sequence = e.sequence
    BY <1>1
<1> QED BY <1>1, <1>2, <1>3, <1>4 DEF New

(* The past of the node stays past, and comes before what is new.            *)
LEMMA PastGrows ==
    ASSUME Typed, NEW e, New(e), NEW f \in Events, Past(f)
    PROVE  Past(f)' /\ Before(f, e) /\ Past(e)' /\ e.number > 0
<1>0. f.number \in Nat /\ f.boot \in Nat /\ f.execution \in Nat /\ f.sequence \in Nat
    BY EventTypes
<1>1. Before(f, e)
    BY <1>0, NodeNumbers DEF Past, New, Before
<1>2. e # NoEvent /\ e.number > 0
    BY NodeNumbers, FreshTypes DEF New
<1>3. Past(f)'
    BY <1>0, <1>2, NodeNumbers DEF Past, New
<1>4. Past(e)'
    BY <1>2, NodeNumbers DEF Past, New, Same
<1> QED BY <1>1, <1>2, <1>3, <1>4

LEMMA PastSurvives ==
    ASSUME Typed, Restarted, NEW f \in Events, Past(f)
    PROVE  Past(f)'
<1>0. f.number \in Nat /\ f.boot \in Nat /\ f.execution \in Nat /\ f.sequence \in Nat
    BY EventTypes
<1>1. process'.execution = process.execution /\ process'.sequence = process.sequence
    BY NodeNumbers DEF Restarted, Processes
<1>2. emitted' = emitted /\ boot' = boot + 1 /\ retained' = NoEvent
    BY DEF Restarted
<1> QED BY <1>0, <1>1, <1>2, NodeNumbers DEF Past

LEMMA PastStays ==
    ASSUME UNCHANGED node, NEW f, Past(f)
    PROVE  Past(f)'
BY DEF Past, Same, node

(* What is replayed is the node's latest event.                              *)
LEMMA ReplayIsPast ==
    ASSUME Typed, RetainedInv, retained # NoEvent
    PROVE  /\ Past(Replayed(retained)) /\ Replayed(retained).number > 0
           /\ Replayed(retained).number = emitted /\ Replayed(retained).boot = boot
<1>1. /\ Replayed(retained).number = retained.number /\ Replayed(retained).boot = retained.boot
      /\ Replayed(retained).execution = retained.execution
      /\ Replayed(retained).sequence = retained.sequence
    BY NodeNumbers, ReplayedTypes
<1> QED BY <1>1, NodeNumbers DEF RetainedInv, Past, Same

LEMMA RetainedIsKept ==
    ASSUME Typed, RetainedInv, Effect
    PROVE  RetainedInv'
<1>1. CASE Announced
    BY <1>1, AnnouncedIsNew, NodeNumbers DEF New, RetainedInv
<1>2. CASE Restarted
    BY <1>2 DEF Restarted, RetainedInv
<1>3. CASE Local
    BY <1>3 DEF Local, RetainedInv, node
<1> QED BY <1>1, <1>2, <1>3 DEF Effect

LEMMA StreamIsKept ==
    ASSUME Effect
    PROVE  StreamInv'
<1>1. \A b \in Bridges : OpenOrEmpty(b)'
    BY DEF Effect, Announced, Restarted, Local, Shrinks, Gets, Resumes, Takes
<1> QED BY <1>1 DEF OpenOrEmpty, StreamInv

LEMMA CursorIsKept ==
    ASSUME Typed, CursorInv, PastInv, Effect
    PROVE  CursorInv'
<1> SUFFICES ASSUME NEW b \in Bridges
             PROVE  /\ bridge'[b].cursor.execution = published'[b].execution
                    /\ bridge'[b].cursor.sequence = published'[b].sequence
                    /\ published'[b].number = 0 => published'[b] = NoEvent
    BY DEF CursorInv
<1>1. CASE Kept(b)
    BY <1>1 DEF Kept, CursorInv
<1>2. CASE ~Kept(b)
  <2>1. Takes(b) /\ (Publishes(b, InFlight(b, 1)) \/ Drops(b, InFlight(b, 1)))
      BY <1>2 DEF Effect, Announced, Restarted, Local, Shrinks, Gets, Resumes, Takes
  <2>2. 1 \in 1 .. Size(b)
      BY <2>1, NodeNumbers DEF Takes
  <2>3. InFlight(b, 1).number > 0
      BY <2>2 DEF PastInv
  <2> QED BY <2>1, <2>3 DEF Publishes, Drops, CursorInv
<1> QED BY <1>1, <1>2

LEMMA PastIsKept ==
    ASSUME Typed, RetainedInv, PastInv, Effect
    PROVE  PastInv'
<1>0. /\ \A b \in Bridges : Size(b) \in Nat /\ published[b] \in Events /\ Past(published[b])
      /\ \A b \in Bridges : \A i \in 1 .. Size(b) :
             InFlight(b, i) \in Events /\ Past(InFlight(b, i)) /\ InFlight(b, i).number > 0
    BY NodeNumbers DEF PastInv
<1> SUFFICES ASSUME NEW b \in Bridges
             PROVE  /\ Past(published[b])'
                    /\ \A i \in 1 .. Size(b)' : Past(InFlight(b, i))' /\ InFlight(b, i)'.number > 0
    BY DEF PastInv
<1>1. CASE Announced
  <2>1. PICK e : New(e)
      BY <1>1, AnnouncedIsNew
  <2>2. \A f \in Events : Past(f) => Past(f)'
      BY <2>1, PastGrows
  <2>3. Past(e)' /\ e.number > 0
      BY <1>0, <2>1, PastGrows
  <2>4. CASE Shrinks(b)
    <3>1. Past(published[b])'
      <4>1. published'[b] = published[b]
          BY <2>4 DEF Shrinks, Kept
      <4> QED BY <1>0, <2>2, <4>1 DEF Past
    <3>2. ASSUME NEW i \in 1 .. Size(b)'
          PROVE  Past(InFlight(b, i))' /\ InFlight(b, i)'.number > 0
      <4>1. i \in 1 .. Size(b) /\ InFlight(b, i)' = InFlight(b, i)
          BY <1>0, <2>4 DEF Shrinks
      <4> QED BY <1>0, <2>2, <4>1 DEF Past
    <3> QED BY <3>1, <3>2
  <2>5. CASE Gets(b, e)
    <3>1. Past(published[b])'
      <4>1. published'[b] = published[b]
          BY <2>5 DEF Gets, Kept
      <4> QED BY <1>0, <2>2, <4>1 DEF Past
    <3>2. ASSUME NEW i \in 1 .. Size(b)'
          PROVE  Past(InFlight(b, i))' /\ InFlight(b, i)'.number > 0
      <4>1. CASE i = Size(b) + 1
        <5>1. InFlight(b, i)' = e
            BY <2>5, <4>1 DEF Gets
        <5> QED BY <2>3, <5>1 DEF Past
      <4>2. CASE i # Size(b) + 1
        <5>1. i \in 1 .. Size(b) /\ InFlight(b, i)' = InFlight(b, i)
            BY <1>0, <2>5, <4>2 DEF Gets
        <5> QED BY <1>0, <2>2, <5>1 DEF Past
      <4> QED BY <4>1, <4>2
    <3> QED BY <3>1, <3>2
  <2> QED BY <2>1, <2>4, <2>5 DEF New
<1>2. CASE Restarted
  <2>1. \A f \in Events : Past(f) => Past(f)'
      BY <1>2, PastSurvives
  <2>2. Shrinks(b)
      BY <1>2 DEF Restarted
  <2>3. Past(published[b])'
    <3>1. published'[b] = published[b]
        BY <2>2 DEF Shrinks, Kept
    <3> QED BY <1>0, <2>1, <3>1 DEF Past
  <2>4. ASSUME NEW i \in 1 .. Size(b)'
        PROVE  Past(InFlight(b, i))' /\ InFlight(b, i)'.number > 0
    <3>1. i \in 1 .. Size(b) /\ InFlight(b, i)' = InFlight(b, i)
        BY <1>0, <2>2 DEF Shrinks
    <3> QED BY <1>0, <2>1, <3>1 DEF Past
  <2> QED BY <2>3, <2>4
<1>3. CASE Local
  <2>1. \A f : Past(f) => Past(f)'
      BY <1>3, PastStays DEF Local
  <2>2. CASE Shrinks(b)
    <3>1. Past(published[b])'
      <4>1. published'[b] = published[b]
          BY <2>2 DEF Shrinks, Kept
      <4> QED BY <1>0, <2>1, <4>1 DEF Past
    <3>2. ASSUME NEW i \in 1 .. Size(b)'
          PROVE  Past(InFlight(b, i))' /\ InFlight(b, i)'.number > 0
      <4>1. i \in 1 .. Size(b) /\ InFlight(b, i)' = InFlight(b, i)
          BY <1>0, <2>2 DEF Shrinks
      <4> QED BY <1>0, <2>1, <4>1 DEF Past
    <3> QED BY <3>1, <3>2
  <2>3. CASE Resumes(b)
    <3>1. Past(published[b])'
      <4>1. published'[b] = published[b]
          BY <2>3 DEF Resumes, Kept
      <4> QED BY <1>0, <2>1, <4>1 DEF Past
    <3>2. ASSUME NEW i \in 1 .. Size(b)'
          PROVE  Past(InFlight(b, i))' /\ InFlight(b, i)'.number > 0
      <4>1. retained # NoEvent /\ InFlight(b, i)' = Replayed(retained)
          BY <2>3 DEF Resumes
      <4>2. Past(Replayed(retained)) /\ Replayed(retained).number > 0
          BY <4>1, ReplayIsPast
      <4> QED BY <2>1, <4>1, <4>2 DEF Past
    <3> QED BY <3>1, <3>2
  <2>4. CASE Takes(b)
    <3>0. 1 \in 1 .. Size(b) /\ \A i \in 1 .. Size(b)' : i + 1 \in 1 .. Size(b)
        BY <1>0, <2>4 DEF Takes
    <3>1. Past(published[b])'
      <4>1. published'[b] = published[b] \/ published'[b] = InFlight(b, 1)
          BY <2>4 DEF Takes, Kept, Publishes, Drops
      <4>2. Past(published[b]) /\ Past(InFlight(b, 1))
          BY <1>0, <3>0
      <4> QED BY <2>1, <4>1, <4>2 DEF Past
    <3>2. ASSUME NEW i \in 1 .. Size(b)'
          PROVE  Past(InFlight(b, i))' /\ InFlight(b, i)'.number > 0
      <4>1. InFlight(b, i)' = InFlight(b, i + 1) /\ i + 1 \in 1 .. Size(b)
          BY <2>4, <3>0 DEF Takes
      <4> QED BY <1>0, <2>1, <4>1 DEF Past
    <3> QED BY <3>1, <3>2
  <2> QED BY <1>3, <2>2, <2>3, <2>4 DEF Local
<1> QED BY <1>1, <1>2, <1>3 DEF Effect

(* One goroutine's part of the order.                                        *)
Follows(e, f) == Before(e, f) \/ (e.number = f.number /\ Same(e, f))
Ordered(b) ==
    /\ \A i \in 1 .. Size(b) : Follows(published[b], InFlight(b, i))
    /\ \A i, j \in 1 .. Size(b) : i < j => Before(InFlight(b, i), InFlight(b, j))

LEMMA OrderParts == OrderInv <=> \A b \in Bridges : Ordered(b)
BY DEF OrderInv, Ordered, Follows

LEMMA OrderIsKept ==
    ASSUME Typed, RetainedInv, PastInv, OrderInv, Effect
    PROVE  OrderInv'
<1> SUFFICES ASSUME NEW b \in Bridges
             PROVE  Ordered(b)'
    BY DEF OrderInv, Ordered, Follows
<1>0. /\ Size(b) \in Nat /\ published[b] \in Events /\ Past(published[b]) /\ Ordered(b)
      /\ \A i \in 1 .. Size(b) : InFlight(b, i) \in Events /\ Past(InFlight(b, i))
    BY NodeNumbers, OrderParts DEF PastInv
<1>1. CASE Shrinks(b)
  <2>1. /\ Size(b)' \in 0 .. Size(b) /\ published'[b] = published[b]
        /\ \A i \in 1 .. Size(b)' : InFlight(b, i)' = InFlight(b, i)
      BY <1>1 DEF Shrinks, Kept
  <2>2. \A i \in 1 .. Size(b)' : i \in 1 .. Size(b)
      BY <1>0, <2>1
  <2> QED BY <1>0, <2>1, <2>2 DEF Ordered, Follows, Before, Same
<1>2. ASSUME NEW e, New(e), Gets(b, e)
      PROVE  Ordered(b)'
  <2>1. /\ Size(b)' = Size(b) + 1 /\ published'[b] = published[b]
        /\ \A i \in 1 .. Size(b) : InFlight(b, i)' = InFlight(b, i)
        /\ \A i \in 1 .. Size(b)' : i = Size(b) + 1 => InFlight(b, i)' = e
      BY <1>2 DEF Gets, Kept
  <2>2. \A f \in Events : Past(f) => Before(f, e)
      BY <1>2, PastGrows
  <2>3. ASSUME NEW i \in 1 .. Size(b)'
        PROVE  Follows(published[b], InFlight(b, i))'
    <3>1. CASE i \in 1 .. Size(b)
      <4>1. Follows(published[b], InFlight(b, i))
          BY <1>0, <3>1 DEF Ordered
      <4> QED BY <2>1, <3>1, <4>1 DEF Follows, Before, Same
    <3>2. CASE i = Size(b) + 1
      <4>1. InFlight(b, i)' = e /\ Before(published[b], e)
          BY <1>0, <2>1, <2>2, <3>2
      <4> QED BY <2>1, <4>1 DEF Follows, Before
    <3> QED BY <1>0, <2>1, <3>1, <3>2
  <2>4. ASSUME NEW i \in 1 .. Size(b)', NEW j \in 1 .. Size(b)', i < j
        PROVE  Before(InFlight(b, i), InFlight(b, j))'
    <3>1. i \in 1 .. Size(b) /\ InFlight(b, i)' = InFlight(b, i)
        BY <1>0, <2>1, <2>4
    <3>2. CASE j \in 1 .. Size(b)
      <4>1. Before(InFlight(b, i), InFlight(b, j)) /\ InFlight(b, j)' = InFlight(b, j)
          BY <1>0, <2>1, <2>4, <3>1, <3>2 DEF Ordered
      <4> QED BY <3>1, <4>1 DEF Before
    <3>3. CASE j = Size(b) + 1
      <4>1. InFlight(b, j)' = e /\ Before(InFlight(b, i), e)
          BY <1>0, <2>1, <2>2, <3>1, <3>3
      <4> QED BY <3>1, <4>1 DEF Before
    <3> QED BY <1>0, <2>1, <3>2, <3>3
  <2> QED BY <2>3, <2>4 DEF Ordered
<1>3. CASE Resumes(b)
  <2>1. CASE retained = NoEvent
    <3>1. Size(b)' = 0
        BY <1>3, <2>1 DEF Resumes
    <3> QED BY <3>1 DEF Ordered
  <2>2. CASE retained # NoEvent
    <3>1. /\ Size(b)' = 1 /\ published'[b] = published[b]
          /\ \A i \in 1 .. Size(b)' : InFlight(b, i)' = Replayed(retained)
        BY <1>3, <2>2 DEF Resumes, Kept
    <3>2. Follows(published[b], Replayed(retained))
      <4>1. /\ Replayed(retained).number = retained.number
            /\ Replayed(retained).boot = retained.boot
            /\ Replayed(retained).execution = retained.execution
            /\ Replayed(retained).sequence = retained.sequence
          BY NodeNumbers, ReplayedTypes
      <4>2. /\ published[b].number \in Nat /\ published[b].execution \in Nat
            /\ published[b].sequence \in Nat
          BY <1>0, EventTypes
      <4> QED BY <1>0, <2>2, <4>1, <4>2, NodeNumbers
              DEF Past, RetainedInv, Follows, Before, Same
    <3>3. ASSUME NEW i \in 1 .. Size(b)'
          PROVE  Follows(published[b], InFlight(b, i))'
        BY <3>1, <3>2 DEF Follows, Before, Same
    <3>4. ~\E i, j \in 1 .. Size(b)' : i < j
        BY <3>1
    <3> QED BY <3>3, <3>4 DEF Ordered
  <2> QED BY <2>1, <2>2
<1>4. CASE Takes(b)
  <2>1. /\ Size(b)' = Size(b) - 1 /\ Size(b) > 0
        /\ \A i \in 1 .. Size(b)' : InFlight(b, i)' = InFlight(b, i + 1)
        /\ published'[b] = published[b] \/ published'[b] = InFlight(b, 1)
      BY <1>4 DEF Takes, Kept, Publishes, Drops
  <2>2. /\ 1 \in 1 .. Size(b)
        /\ \A i \in 1 .. Size(b)' : i + 1 \in 1 .. Size(b) /\ 1 < i + 1
        /\ \A i, j \in 1 .. Size(b)' : i < j => i + 1 < j + 1
      BY <1>0, <2>1
  <2>3. ASSUME NEW i \in 1 .. Size(b)'
        PROVE  Follows(published[b], InFlight(b, i))'
    <3>1. /\ Follows(published[b], InFlight(b, i + 1))
          /\ Before(InFlight(b, 1), InFlight(b, i + 1))
        BY <1>0, <2>2 DEF Ordered
    <3> QED BY <2>1, <3>1 DEF Follows, Before, Same
  <2>4. ASSUME NEW i \in 1 .. Size(b)', NEW j \in 1 .. Size(b)', i < j
        PROVE  Before(InFlight(b, i), InFlight(b, j))'
    <3>1. Before(InFlight(b, i + 1), InFlight(b, j + 1))
        BY <1>0, <2>2, <2>4 DEF Ordered
    <3> QED BY <2>1, <3>1 DEF Before
  <2> QED BY <2>3, <2>4 DEF Ordered
<1> QED BY <1>1, <1>2, <1>3, <1>4, AnnouncedIsNew DEF Effect, New, Restarted, Local

(* One goroutine's part of what is missing.                                  *)
GapBefore(b, i) ==
    \/ InFlight(b, i).replayed
    \/ Adjoins(Previous(b, i), InFlight(b, i).number, InFlight(b, i).boot)
    \/ AfterLoss(b, i, InFlight(b, i).number)
GapAfter(b) ==
    bridge[b].subscribed =>
        \/ Adjoins(Previous(b, Size(b) + 1), emitted + 1, boot)
        \/ AfterLoss(b, Size(b) + 1, emitted + 1)

LEMMA GapParts ==
    GapInv <=> \A b \in Bridges : (\A i \in 1 .. Size(b) : GapBefore(b, i)) /\ GapAfter(b)
BY DEF GapInv, GapBefore, GapAfter

(* An event that was taken as known was published before.                    *)
LEMMA KnownWasPublished ==
    ASSUME Typed, CursorInv, OrderInv, NEW b \in Bridges, Size(b) > 0, Known(b, InFlight(b, 1))
    PROVE  /\ published[b].number = InFlight(b, 1).number
           /\ published[b].boot = InFlight(b, 1).boot
<1>0. 1 \in 1 .. Size(b)
    BY NodeNumbers
<1>1. /\ InFlight(b, 1) \in Events /\ published[b] \in Events
      /\ Follows(published[b], InFlight(b, 1))
    BY <1>0, NodeNumbers, OrderParts DEF Ordered
<1>2. /\ InFlight(b, 1).sequence \in Nat /\ published[b].sequence \in Nat
    BY <1>1, EventTypes
<1>3. ~Before(published[b], InFlight(b, 1))
    BY <1>2 DEF Before, Known, CursorInv
<1> QED BY <1>1, <1>3 DEF Follows, Same

LEMMA GapIsKept ==
    ASSUME Typed, RetainedInv, PastInv, OrderInv, CursorInv, GapInv, Effect
    PROVE  GapInv'
<1> SUFFICES ASSUME NEW b \in Bridges
             PROVE  (\A i \in 1 .. Size(b)' : GapBefore(b, i)') /\ GapAfter(b)'
    BY DEF GapInv, GapBefore, GapAfter
<1>0. /\ Size(b) \in Nat /\ published[b] \in Events /\ Past(published[b])
      /\ \A i \in 1 .. Size(b) : GapBefore(b, i)
      /\ GapAfter(b)
    BY NodeNumbers, GapParts DEF PastInv
<1>1. ASSUME Shrinks(b), ~bridge'[b].subscribed \/ (emitted' = emitted /\ boot' = boot)
      PROVE  (\A i \in 1 .. Size(b)' : GapBefore(b, i)') /\ GapAfter(b)'
  <2>1. /\ Size(b)' \in 0 .. Size(b) /\ published'[b] = published[b] /\ lost'[b] = lost[b]
        /\ \A i \in 1 .. Size(b)' : InFlight(b, i)' = InFlight(b, i)
        /\ bridge'[b].subscribed => bridge[b].subscribed /\ Size(b)' = Size(b)
      BY <1>1 DEF Shrinks, Kept
  <2>2. \A i \in 1 .. Size(b)' + 1 : Previous(b, i)' = Previous(b, i)
    <3>1. ASSUME NEW i \in 1 .. Size(b)' + 1, i # 1
          PROVE  i - 1 \in 1 .. Size(b)'
        BY <1>0, <2>1, <3>1
    <3> QED BY <2>1, <3>1 DEF Previous
  <2>3. ASSUME NEW i \in 1 .. Size(b)'
        PROVE  GapBefore(b, i)'
    <3>1. i \in 1 .. Size(b) /\ i \in 1 .. Size(b)' + 1
        BY <1>0, <2>1
    <3> QED BY <1>0, <2>1, <2>2, <3>1 DEF GapBefore, Adjoins, AfterLoss
  <2>4. GapAfter(b)'
    <3>1. Size(b)' + 1 \in 1 .. Size(b)' + 1
        BY <1>0, <2>1
    <3> QED BY <1>0, <1>1, <2>1, <2>2, <3>1 DEF GapAfter, Adjoins, AfterLoss
  <2> QED BY <2>3, <2>4
<1>2. ASSUME NEW e, New(e), Gets(b, e)
      PROVE  (\A i \in 1 .. Size(b)' : GapBefore(b, i)') /\ GapAfter(b)'
  <2>1. /\ Size(b)' = Size(b) + 1 /\ published'[b] = published[b] /\ lost'[b] = lost[b]
        /\ \A i \in 1 .. Size(b) : InFlight(b, i)' = InFlight(b, i)
        /\ \A i \in 1 .. Size(b)' : i = Size(b) + 1 => InFlight(b, i)' = e
        /\ bridge[b].subscribed
      BY <1>2 DEF Gets, Kept
  <2>2. \A i \in 1 .. Size(b) + 1 : Previous(b, i)' = Previous(b, i)
    <3>1. ASSUME NEW i \in 1 .. Size(b) + 1, i # 1
          PROVE  i - 1 \in 1 .. Size(b)
        BY <1>0, <3>1
    <3> QED BY <2>1, <3>1 DEF Previous
  <2>3. ASSUME NEW i \in 1 .. Size(b)'
        PROVE  GapBefore(b, i)'
    <3>1. CASE i \in 1 .. Size(b)
      <4>1. i \in 1 .. Size(b) + 1
          BY <1>0, <3>1
      <4> QED BY <1>0, <2>1, <2>2, <3>1, <4>1 DEF GapBefore, Adjoins, AfterLoss
    <3>2. CASE i = Size(b) + 1
      <4>1. i \in 1 .. Size(b) + 1
          BY <1>0, <3>2
      <4>2. Adjoins(Previous(b, i), e.number, e.boot) \/ AfterLoss(b, i, e.number)
          BY <1>0, <1>2, <2>1, <3>2 DEF GapAfter, New
      <4> QED BY <1>2, <2>1, <2>2, <3>2, <4>1, <4>2 DEF GapBefore, Adjoins, AfterLoss, New
    <3> QED BY <1>0, <2>1, <3>1, <3>2
  <2>4. GapAfter(b)'
    <3>1. PICK n : n = Size(b) + 1
        OBVIOUS
    <3>2. n \in 1 .. Size(b)' /\ n # 0 /\ n + 1 # 1 /\ n + 1 - 1 = n /\ Size(b)' = n
        BY <1>0, <2>1, <3>1
    <3>3. InFlight(b, n)' = e
        BY <2>1, <3>1, <3>2
    <3>4. Previous(b, n + 1)' = e
        BY <3>2, <3>3 DEF Previous
    <3> QED BY <1>2, <3>2, <3>4 DEF GapAfter, Adjoins, New
  <2> QED BY <2>3, <2>4
<1>3. ASSUME Resumes(b), Local
      PROVE  (\A i \in 1 .. Size(b)' : GapBefore(b, i)') /\ GapAfter(b)'
  <2>0. emitted' = emitted /\ boot' = boot /\ published'[b] = published[b]
      BY <1>3 DEF Local, node, Resumes, Kept
  <2>1. ASSUME NEW i \in 1 .. Size(b)'
        PROVE  GapBefore(b, i)'
      BY <1>3, NodeNumbers, ReplayedTypes DEF Resumes, GapBefore
  <2>2. CASE retained = NoEvent
    <3>1. Size(b)' + 1 = 1
        BY <1>3, <2>2 DEF Resumes
    <3>2. Adjoins(published[b], emitted + 1, boot)
      <4>1. published[b].number \in Nat
          BY <1>0, EventTypes
      <4> QED BY <1>0, <2>2, <4>1 DEF Past, Adjoins
    <3> QED BY <1>0, <2>0, <2>1, <3>1, <3>2 DEF GapAfter, Previous, Adjoins
  <2>3. CASE retained # NoEvent
    <3>1. PICK e : e = Replayed(retained)
        OBVIOUS
    <3>2. Size(b)' = 1 /\ 1 \in 1 .. Size(b)'
        BY <1>3, <2>3 DEF Resumes
    <3>3. InFlight(b, 1)' = e /\ e.number = emitted
        BY <1>3, <2>3, <3>1, <3>2, ReplayIsPast DEF Resumes
    <3>4. Previous(b, 2)' = e
        BY <3>3 DEF Previous
    <3> QED BY <2>0, <2>1, <3>2, <3>3, <3>4 DEF GapAfter, Adjoins
  <2> QED BY <2>2, <2>3
<1>4. ASSUME Takes(b), Local
      PROVE  (\A i \in 1 .. Size(b)' : GapBefore(b, i)') /\ GapAfter(b)'
  <2>0. emitted' = emitted /\ boot' = boot
      BY <1>4 DEF Local, node
  <2>1. /\ Size(b)' = Size(b) - 1 /\ Size(b) > 0
        /\ \A i \in 1 .. Size(b)' : InFlight(b, i)' = InFlight(b, i + 1)
        /\ bridge'[b].subscribed = bridge[b].subscribed
      BY <1>4 DEF Takes
  <2>e. PICK e : e = InFlight(b, 1)
      OBVIOUS
  <2>p. /\ e.number \in Nat /\ e.boot \in Nat /\ e.number > 0 /\ e.boot <= boot
        /\ published[b].boot \in Nat /\ published[b].boot <= e.boot
        /\ \A i \in 1 .. Size(b)' : e.boot <= InFlight(b, i + 1).boot
    <3>1. 1 \in 1 .. Size(b) /\ \A i \in 1 .. Size(b)' : i + 1 \in 1 .. Size(b) /\ 1 < i + 1
        BY <1>0, <2>1
    <3>2. Ordered(b) /\ e \in Events /\ Past(e) /\ e.number > 0
        BY <2>e, <3>1, NodeNumbers, OrderParts DEF PastInv
    <3>3. /\ e.number \in Nat /\ e.boot \in Nat /\ published[b].boot \in Nat
        BY <1>0, <3>2, EventTypes
    <3>4. Follows(published[b], e) /\ \A i \in 1 .. Size(b)' : Before(e, InFlight(b, i + 1))
        BY <2>e, <3>1, <3>2 DEF Ordered
    <3>5. published[b].boot <= e.boot
        BY <3>3, <3>4 DEF Follows, Before, Same
    <3> QED BY <3>2, <3>3, <3>4, <3>5 DEF Past, Before
  <2>2. \/ published'[b].number = e.number /\ published'[b].boot = e.boot
        \/ published'[b] = published[b] /\ lost'[b] = e.number
    <3>1. CASE Known(b, InFlight(b, 1)) /\ Kept(b)
        BY <2>1, <2>e, <3>1, KnownWasPublished DEF Kept
    <3>2. CASE Drops(b, InFlight(b, 1))
        BY <2>e, <3>2 DEF Drops
    <3> QED BY <1>4, <2>e, <3>1, <3>2 DEF Takes, Publishes
  (* What adjoins the event that is taken, or a later one, does so still.    *)
  <2>3. ASSUME NEW i \in 1 .. Size(b), NEW n \in Nat, NEW l \in Nat, e.boot <= l,
               Adjoins(Previous(b, i + 1), n, l)
        PROVE  \/ Previous(b, i)'.number + 1 = n \/ Previous(b, i)'.boot # l
               \/ Previous(b, i)'.number = 0
               \/ i = 1 /\ lost'[b] + 1 = n
    <3>1. i + 1 # 1 /\ i + 1 - 1 = i
        BY <1>0
    <3>2. CASE i = 1
      <4>1. Previous(b, i)' = published'[b] /\ Previous(b, i + 1) = e
          BY <2>e, <3>1, <3>2 DEF Previous
      <4>2. e.number + 1 = n \/ e.boot # l
          BY <2>3, <2>p, <4>1 DEF Adjoins
      <4>4. CASE published'[b].number = e.number /\ published'[b].boot = e.boot
          BY <1>0, <4>1, <4>2, <4>4
      <4>5. CASE published'[b] = published[b] /\ lost'[b] = e.number
          BY <1>0, <2>3, <2>p, <3>2, <4>1, <4>2, <4>5
      <4> QED BY <2>2, <4>4, <4>5
    <3>3. CASE i # 1
      <4>1. i - 1 \in 1 .. Size(b)' /\ i - 1 + 1 = i
          BY <1>0, <2>1, <3>3
      <4>2. InFlight(b, i - 1)' = InFlight(b, i)
          BY <2>1, <4>1
      <4>3. Previous(b, i)' = Previous(b, i + 1)
          BY <3>1, <3>3, <4>2 DEF Previous
      <4> QED BY <1>0, <2>3, <4>3 DEF Adjoins
    <3> QED BY <3>2, <3>3
  <2>4. ASSUME NEW i \in 1 .. Size(b)'
        PROVE  GapBefore(b, i)'
    <3>1. i \in 1 .. Size(b) /\ i + 1 \in 1 .. Size(b) /\ i + 1 # 1
        BY <1>0, <2>1
    <3>2. GapBefore(b, i + 1) /\ InFlight(b, i)' = InFlight(b, i + 1)
        BY <1>0, <2>1, <3>1
    <3>3. /\ InFlight(b, i + 1).number \in Nat /\ InFlight(b, i + 1).boot \in Nat
          /\ e.boot <= InFlight(b, i + 1).boot
        BY <2>p, <3>1, NodeNumbers, EventTypes
    <3> QED BY <2>3, <3>1, <3>2, <3>3 DEF GapBefore, Adjoins, AfterLoss
  <2>5. GapAfter(b)'
    <3>1. Size(b)' + 1 = Size(b) /\ Size(b) \in 1 .. Size(b) /\ Size(b) + 1 # 1
        BY <1>0, <2>1
    <3>2. emitted + 1 \in Nat /\ boot \in Nat /\ e.boot <= boot
        BY <2>p, NodeNumbers
    <3> QED BY <1>0, <2>0, <2>1, <2>3, <3>1, <3>2 DEF GapAfter, Adjoins, AfterLoss
  <2> QED BY <2>4, <2>5
<1>5. CASE Announced
  <2>1. PICK e : New(e)
      BY <1>5, AnnouncedIsNew
  <2> QED BY <1>1, <1>2, <2>1 DEF New
<1>6. CASE Restarted
    BY <1>1, <1>6 DEF Restarted
<1>7. CASE Local
    BY <1>1, <1>3, <1>4, <1>7 DEF Local, node
<1> QED BY <1>5, <1>6, <1>7 DEF Effect

LEMMA StartedIsKept ==
    ASSUME Typed, StartedInv, StreamInv, Next
    PROVE  StartedInv'
<1>0. /\ started \in Nat /\ active \in Nat /\ Bridges \subseteq Nat /\ active <= started
      /\ BridgesTyped /\ published \in [Bridges -> Events]
    BY Naturals1 DEF Typed, ControllerTyped, StartedInv
<1>1. ASSUME NEW b \in Bridges, b > started
      PROVE  /\ bridge[b] = NotStarted /\ published[b] = NoEvent
             /\ bridge[b].pc = "none" /\ ~bridge[b].subscribed /\ ~bridge[b].cancelled
             /\ bridge[b].queue = <<>>
  <2>1. bridge[b] = NotStarted /\ published[b] = NoEvent
      BY <1>1 DEF StartedInv
  <2>2. NotStarted.cancelled = FALSE
      BY DEF NotStarted
  <2> QED BY <2>1, <2>2, FreshTypes
<1>2. CASE Publish
  <2>1. /\ UNCHANGED <<active, started, published>>
        /\ \E e : bridge' = [b \in Bridges |-> Deliver(bridge[b], e)]
      BY <1>2 DEF Publish, controller
  <2> QED BY <1>0, <1>1, <2>1 DEF StartedInv, Deliver
<1>3. CASE NodeRestarts
  <2>1. /\ UNCHANGED <<active, started, published>>
        /\ bridge' = [b \in Bridges |-> [bridge[b] EXCEPT !.subscribed = FALSE, !.queue = <<>>]]
      BY <1>3 DEF NodeRestarts, controller
  <2>2. [NotStarted EXCEPT !.subscribed = FALSE, !.queue = <<>>] = NotStarted
    <3>1. NotStarted.subscribed = FALSE /\ NotStarted.queue = <<>> /\ NotStarted \in Goroutines
        BY FreshTypes DEF NotStarted
    <3> QED BY <3>1 DEF Goroutines
  <2> QED BY <1>0, <1>1, <2>1, <2>2 DEF StartedInv
<1>4. ASSUME NEW c \in Bridges, BridgeStep(c) \/ Break(c) \/ LookupFails(c)
      PROVE  StartedInv'
  <2>1. ~(c > started)
    <3>1. CASE Receive(c)
        BY <1>1, <3>1 DEF Receive
    <3>2. CASE Subscribe(c) \/ Republish(c) \/ StreamEnds(c) \/ Leave(c) \/ Break(c) \/ LookupFails(c)
        BY <1>1, <3>2 DEF Subscribe, Republish, StreamEnds, Leave, Break, LookupFails
    <3> QED BY <1>4, <3>1, <3>2 DEF BridgeStep
  <2>2. UNCHANGED <<active, started>>
      BY <1>4 DEF controller, BridgeStep, Subscribe, Receive, Republish, StreamEnds, Leave, Break,
                  LookupFails
  <2>3. \A b \in Bridges : b # c => bridge'[b] = bridge[b] /\ published'[b] = published[b]
    <3>1. CASE Republish(c)
        BY <1>0, <3>1 DEF Republish, BridgesTyped
    <3>2. CASE Subscribe(c) \/ Receive(c) \/ StreamEnds(c) \/ Leave(c) \/ Break(c) \/ LookupFails(c)
        BY <1>0, <3>2 DEF Subscribe, Receive, StreamEnds, Leave, Break, LookupFails, BridgesTyped,
                          controller
    <3> QED BY <1>4, <3>1, <3>2 DEF BridgeStep
  <2> QED BY <1>0, <1>1, <2>1, <2>2, <2>3 DEF StartedInv
<1>5. CASE StartForClient
  <2>1. /\ active' = started + 1 /\ started' = started + 1 /\ published' = published
        /\ \A b \in Bridges : b # active /\ b # started + 1 => bridge'[b] = bridge[b]
      BY <1>5 DEF StartForClient
  <2>2. active' <= started'
      BY <1>0, <2>1
  <2>3. ASSUME NEW b \in Bridges, b > started'
        PROVE  bridge'[b] = NotStarted /\ published'[b] = NoEvent
    <3>1. b > started /\ b # active /\ b # started + 1
        BY <1>0, <2>1, <2>3
    <3> QED BY <1>1, <2>1, <3>1
  <2> QED BY <2>2, <2>3 DEF StartedInv
<1>6. CASE OnRemove
  <2>1. /\ active' = 0 /\ started' = started /\ published' = published
        /\ \A b \in Bridges : b # active => bridge'[b] = bridge[b]
      BY <1>0, <1>6 DEF OnRemove, BridgesTyped
  <2>2. \A b \in Bridges : b > started => b # active
      BY <1>0
  <2> QED BY <1>0, <1>1, <2>1, <2>2 DEF StartedInv
<1>7. CASE MoveServer
    BY <1>7 DEF MoveServer, StartedInv
<1> QED BY <1>2, <1>3, <1>4, <1>5, <1>6, <1>7 DEF Next

LEMMA InitInv == Init => IInv
<1> SUFFICES ASSUME Init
             PROVE  IInv
    OBVIOUS
<1>0. /\ process = [execution |-> 0, sequence |-> 0, status |-> "OFFLINE"]
      /\ emitted = 0 /\ boot = 1 /\ retained = NoEvent /\ active = 1 /\ started = 1 /\ owned = TRUE
      /\ faults = 0 /\ published = [b \in Bridges |-> NoEvent]
      /\ lost = [b \in Bridges |-> 0]
      /\ \A b \in Bridges : published[b] = NoEvent
    BY DEF Init
<1>1. /\ bridge \in [Bridges -> Goroutines]
      /\ \A b \in Bridges :
             /\ bridge[b] = Fresh \/ bridge[b] = NotStarted
             /\ b > 1 => bridge[b] = NotStarted
    BY FreshTypes, Naturals1 DEF Init
<1>2. \A b \in Bridges :
          /\ bridge[b].queue = <<>> /\ bridge[b].arrived = <<>> /\ ~bridge[b].subscribed
          /\ bridge[b].cursor = NoCursor /\ bridge[b].room = 0
    BY <1>1, FreshTypes DEF Fresh, NotStarted
<1>3. \A b \in Bridges : Size(b) = 0
  <2> SUFFICES ASSUME NEW b \in Bridges
               PROVE  Size(b) = 0
      OBVIOUS
  <2>1. Len(Arrived(b)) = 0 /\ Len(Queue(b)) = 0
      BY <1>2 DEF Arrived, Queue
  <2> QED BY <2>1 DEF Size
<1>4. TypeOK
  <2>1. NodeTyped
      BY <1>0, FreshTypes, Naturals1 DEF NodeTyped, Processes, Statuses
  <2>2. BridgesTyped /\ RoomTyped
      BY <1>1, <1>2 DEF BridgesTyped, RoomTyped
  <2>3. ControllerTyped
      BY <1>0, FreshTypes, Naturals1, EventStreamAssumption DEF ControllerTyped
  <2> QED BY <2>1, <2>2, <2>3, TypeParts DEF Typed
<1>5. RetainedInv /\ StartedInv
    BY <1>0, <1>1, Naturals1 DEF RetainedInv, StartedInv
<1>6. PastInv
    BY <1>0, <1>3, FreshTypes DEF PastInv, Past
<1>7. OrderInv /\ StreamInv
    BY <1>2, <1>3 DEF OrderInv, StreamInv
<1>8. CursorInv
    BY <1>0, <1>2, FreshTypes DEF CursorInv
<1>9. GapInv
    BY <1>2, <1>3 DEF GapInv
<1> QED BY <1>4, <1>5, <1>6, <1>7, <1>8, <1>9 DEF IInv

LEMMA StutterInv == IInv /\ UNCHANGED vars => IInv'
<1> SUFFICES ASSUME IInv, UNCHANGED vars
             PROVE  IInv'
    OBVIOUS
<1> USE DEF vars, node, controller
<1>1. TypeOK'
    BY DEF IInv, TypeOK
<1>2. /\ \A b : Size(b)' = Size(b)
      /\ \A b, i : InFlight(b, i)' = InFlight(b, i)
    BY DEF Size, InFlight, Arrived, Queue
<1>3. RetainedInv' /\ StartedInv' /\ CursorInv'
    BY DEF IInv, RetainedInv, StartedInv, CursorInv
<1>4. PastInv' /\ StreamInv'
    BY <1>2 DEF IInv, PastInv, Past, Same, StreamInv
<1>5. OrderInv'
    BY <1>2 DEF IInv, OrderInv, Before, Same
<1>6. GapInv'
  <2>1. \A b, i : Previous(b, i)' = Previous(b, i)
      BY DEF Previous, InFlight, Arrived, Queue
  <2> QED BY <1>2, <2>1 DEF IInv, GapInv, Adjoins, AfterLoss
<1> QED BY <1>1, <1>3, <1>4, <1>5, <1>6 DEF IInv

(* The inductive invariant holds in every state, for any buffer size and any *)
(* numbers of executions, goroutines and faults.                             *)
THEOREM Invariant == Spec => []IInv
<1>1. IInv /\ [Next]_vars => IInv'
  <2> SUFFICES ASSUME IInv, Next
               PROVE  IInv'
      BY StutterInv
  <2>1. Typed
      BY TypeParts DEF IInv
  <2>2. TypeOK'
    <3>1. Typed'
        BY <2>1, TypesAreKept DEF IInv
    <3> QED BY <3>1 DEF Typed, TypeOK, NodeTyped, BridgesTyped, RoomTyped, ControllerTyped, Places,
                        Cursors, Processes, Goroutines
  <2>3. Effect
      BY <2>1, StepsHaveEffects DEF IInv
  <2>4. /\ RetainedInv' /\ PastInv' /\ OrderInv' /\ CursorInv' /\ StartedInv' /\ StreamInv'
        /\ GapInv'
      BY <2>1, <2>3, RetainedIsKept, PastIsKept, OrderIsKept, CursorIsKept, StartedIsKept,
         StreamIsKept, GapIsKept DEF IInv
  <2> QED BY <2>2, <2>4 DEF IInv
<1> QED BY InitInv, <1>1, PTL DEF Spec

(* Every variable keeps its type; no subscriber's channel holds more than it *)
(* has room for.                                                             *)
THEOREM TypeCorrect == Spec => []TypeOK
<1>1. IInv => TypeOK
    BY DEF IInv
<1> QED BY Invariant, <1>1, PTL

(* Only republish puts an event on the bus.                                  *)
LEMMA OnlyRepublishPublishes ==
    ASSUME IInv, Next, NEW b \in Bridges, published'[b] # published[b]
    PROVE  /\ ~Known(b, InFlight(b, 1)) /\ published'[b] = InFlight(b, 1)
           /\ 1 \in 1 .. Size(b)
<1>1. Typed /\ Effect
    BY TypeParts, StepsHaveEffects DEF IInv
<1>2. Takes(b) /\ ~Kept(b) /\ ~Drops(b, InFlight(b, 1))
    BY <1>1 DEF Effect, Announced, Restarted, Local, Shrinks, Gets, Resumes, Kept, Drops
<1> QED BY <1>1, <1>2, NodeNumbers DEF Takes, Publishes

(* What the action properties say of a step.                                 *)
Ascends ==
    \A b \in Bridges : published'[b] # published[b] => published'[b].number > published[b].number
Announces ==
    \A b \in Bridges : published'[b] # published[b] /\ published[b] # NoEvent
        => \/ published'[b].number = published[b].number + 1
           \/ published'[b].replayed
           \/ published'[b].boot # published[b].boot
           \/ published'[b].number = lost[b] + 1

(* republish and its cursor put every transition on the bus at most once and *)
(* in order, whatever breaks and however often the node is registered.       *)
THEOREM EventsStayInOrder == Spec => PublishedInOrder
<1>1. IInv /\ [Next]_vars => [Ascends]_vars
  <2> SUFFICES ASSUME IInv, Next
               PROVE  Ascends
      BY DEF vars, controller, Ascends
  <2> SUFFICES ASSUME NEW b \in Bridges, published'[b] # published[b]
               PROVE  published'[b].number > published[b].number
      BY DEF Ascends
  <2>1. /\ ~Known(b, InFlight(b, 1)) /\ published'[b] = InFlight(b, 1) /\ 1 \in 1 .. Size(b)
      BY OnlyRepublishPublishes
  <2>2. published[b] \in Events /\ InFlight(b, 1) \in Events
      BY <2>1, NodeNumbers, TypeParts DEF IInv
  <2>3. Follows(published[b], InFlight(b, 1))
      BY <2>1, OrderParts DEF IInv, Ordered
  <2>4. Before(published[b], InFlight(b, 1))
      BY <2>1, <2>2, <2>3, EventTypes DEF IInv, CursorInv, Known, Follows, Same
  <2> QED BY <2>1, <2>2, <2>4, EventTypes DEF Before
<1>2. [][Ascends]_vars => PublishedInOrder
    BY PTL DEF Ascends, PublishedInOrder
<1> QED BY Invariant, <1>1, <1>2, PTL DEF Spec

(* Between the emitter and the bus no transition is lost unless a replay or  *)
(* another life of the node follows, or the bridge itself has just dropped   *)
(* the transition before, when the server's row named another node or could  *)
(* not be read (remote-event-bridge.go:190 to 195).                          *)
THEOREM LossesAreAnnounced == Spec => NoSilentGap
<1>1. IInv /\ [Next]_vars => [Announces]_vars
  <2> SUFFICES ASSUME IInv, Next
               PROVE  Announces
      BY DEF vars, controller, Announces
  <2> SUFFICES ASSUME NEW b \in Bridges, published'[b] # published[b], published[b] # NoEvent
               PROVE  \/ published'[b].number = published[b].number + 1
                      \/ published'[b].replayed
                      \/ published'[b].boot # published[b].boot
                      \/ published'[b].number = lost[b] + 1
      BY DEF Announces
  <2>1. published'[b] = InFlight(b, 1) /\ 1 \in 1 .. Size(b)
      BY OnlyRepublishPublishes
  <2>2. GapBefore(b, 1) /\ Previous(b, 1) = published[b]
      BY <2>1, GapParts DEF IInv, Previous
  <2>3. published[b].number # 0
      BY DEF IInv, CursorInv
  <2> QED BY <2>1, <2>2, <2>3 DEF GapBefore, Adjoins, AfterLoss
<1>2. [][Announces]_vars => NoSilentGap
    BY PTL DEF Announces, NoSilentGap
<1> QED BY Invariant, <1>1, <1>2, PTL DEF Spec

====
