---------------------------- MODULE MCScheduler ----------------------------
(* The main thread and two more, on two cores.                              *)
EXTENDS Scheduler
============================================================================
