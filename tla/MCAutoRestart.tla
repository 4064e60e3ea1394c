---- MODULE MCAutoRestart ----
(* Model checking of AutoRestart.  Two user calls at a time race with each   *)
(* other and with the threads of the executions.                             *)
EXTENDS AutoRestart, TLC

Symmetry == Permutations(Callers)

====
