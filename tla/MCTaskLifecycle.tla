-------------------------- MODULE MCTaskLifecycle --------------------------
(* Two workers, so that a waker's spawn can reach a second worker while   *)
(* the first is still inside Task::resume; two tasks.     *)
EXTENDS TaskLifecycle

CONSTANTS w1, w2, t1, t2

MCWorkers == {w1, w2}
MCTasks   == {t1, t2}
=============================================================================
