---------------------------- MODULE MCScheduler ----------------------------
(* Instance of Scheduler for TLC.                                           *)
EXTENDS Scheduler

=============================================================================
