---- MODULE ExecutionLog ----
(*****************************************************************************)
(* What the status events of one supervised command promise to whoever reads *)
(* them in order (the websocket broadcast, auto-restart, the alert           *)
(* evaluator, a remote controller): executions follow one another, each is   *)
(* opened once, moves forward and is closed by one OFFLINE, and its          *)
(* transitions are numbered without gaps.                                    *)
(*****************************************************************************)
EXTENDS Naturals, Sequences

CONSTANT MaxExecutions  \* bound on the executions recorded

VARIABLE log            \* the transitions published so far

Opening == {"PRE_START", "ONLINE", "INSTALLING", "UPDATING"}

Entry(execution, sequence, old, new) ==
    [execution |-> execution, sequence |-> sequence, old |-> old, new |-> new]

Over == log = <<>> \/ log[Len(log)].new = "OFFLINE"
Last == log[Len(log)]

Init == log = <<>>

(* A later execution announces the status it starts in.                      *)
Open ==
    /\ Over
    /\ \E g \in 1 .. MaxExecutions, status \in Opening :
          /\ log # <<>> => Last.execution < g
          /\ log' = Append(log, Entry(g, 1, "OFFLINE", status))

(* A later execution whose process could not be started is only closed.      *)
Fail ==
    /\ Over
    /\ \E g \in 1 .. MaxExecutions, status \in Opening :
          /\ log # <<>> => Last.execution < g
          /\ log' = Append(log, Entry(g, 1, status, "OFFLINE"))

(* The server is ready for players.                                          *)
Ready ==
    /\ ~Over
    /\ Last.new = "PRE_START"
    /\ log' = Append(log, Entry(Last.execution, Last.sequence + 1, "PRE_START", "ONLINE"))

(* The execution ends.                                                       *)
Close ==
    /\ ~Over
    /\ log' = Append(log, Entry(Last.execution, Last.sequence + 1, Last.new, "OFFLINE"))

Next == Open \/ Fail \/ Ready \/ Close

Spec == Init /\ [][Next]_log

====
