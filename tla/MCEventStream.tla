---- MODULE MCEventStream ----
(* Model checking of EventStream.  Two goroutines let an old one overlap     *)
(* with its successor, and a buffer of one is full after one event.          *)
EXTENDS EventStream

====
