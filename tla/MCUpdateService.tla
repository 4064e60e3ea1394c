---- MODULE MCUpdateService ----
(* Model checking of UpdateService.  The payload has a path that the backup  *)
(* covers, one that only the staged update retains, and a new one.           *)
EXTENDS UpdateService

ExistingPaths == {1, 2}
CoveredPaths == {1}

====
