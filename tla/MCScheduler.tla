---------------------------- MODULE MCScheduler ----------------------------
(* Two workers and two tasks: enough for a wake-up to go to a busy worker *)
(* while the other one parks, and for a steal.                             *)
EXTENDS Scheduler

CONSTANTS t1, t2

MCTasks == {t1, t2}
=============================================================================
