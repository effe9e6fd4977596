-------------------------- MODULE MCSchedulerClock --------------------------
(* An instance of SchedulerClock for TLC. *)
EXTENDS SchedulerClock
=============================================================================
