---- MODULE MCSupervisor ----
(* Model checking of Supervisor.  One start caller and one stop caller are   *)
(* enough: calls on a server directory are serialised, each caller may call  *)
(* again, and every call races with the goroutines of the executions.        *)
EXTENDS Supervisor

====
