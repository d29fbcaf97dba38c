----------------------------- MODULE MCChaseLev -----------------------------
(* One owner, two thieves; the owner is the only pusher (Worker::schedule *)
(* has no caller in the repository that runs on another thread).         *)
EXTENDS ChaseLev

CONSTANTS o, th1, th2

MCThieves == {th1, th2}
MCOwnerOnly == {o}
=============================================================================
