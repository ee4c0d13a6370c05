---------------------------- MODULE MCScheduler ----------------------------
(* Instances of Scheduler for TLC: a task run by the task thread and one with *)
(* a thread of its own.                                                       *)
EXTENDS Scheduler

CONSTANTS plain, threaded
=============================================================================
