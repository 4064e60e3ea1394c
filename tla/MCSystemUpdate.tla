---- MODULE MCSystemUpdate ----
(* Model checking of SystemUpdate.                                           *)
EXTENDS SystemUpdate

====
