---------------------------- MODULE AsyncMutex ----------------------------
(***************************************************************************)
(* AsyncMutex of include/async_mutex.h: a locked_ flag and a FIFO of      *)
(* suspended handles, both guarded by wait_mtx_, so each awaiter method    *)
(* is one atomic step.  lock() tries await_ready (fast path), then         *)
(* await_suspend re-checks locked_ before queueing; unlock() either clears *)
(* locked_ or passes the baton: it pops the head waiter and spawns it      *)
(* with locked_ still true, and the woken task owns the lock when a worker *)
(* resumes it (await_resume builds the ScopedLock).                        *)
(*                                                                         *)
(* Tasks loop forever: lock, critical section, guard drop (unlock), like   *)
(* handle_client of src/mini_redis.cpp.  Spawning is abstracted to "the    *)
(* woken task is eventually resumed", which module Scheduler checks.      *)
(***************************************************************************)
EXTENDS Naturals, Sequences, SequencesExt, FiniteSets

CONSTANTS
    Tasks,
    NoTask   \* no holder (the abstract lock's free owner)

VARIABLES
    locked,    \* AsyncMutex::locked_
    waiters,   \* AsyncMutex::waiters_
    pc         \* where each task is in its lock/unlock cycle

vars == <<locked, waiters, pc>>

(* idle: outside the mutex; slow: await_ready returned false;            *)
(* waiting: in waiters_; woken: spawned by unlock, not yet resumed;      *)
(* cs: inside the critical section, holding the ScopedLock.              *)
TypeOK ==
    /\ locked \in BOOLEAN
    /\ waiters \in Seq(Tasks)
    /\ pc \in [Tasks -> {"idle", "slow", "waiting", "woken", "cs"}]

Init ==
    /\ locked = FALSE
    /\ waiters = <<>>
    /\ pc = [t \in Tasks |-> "idle"]

-----------------------------------------------------------------------------
(* LockAwaiter::await_ready: take the lock if it is free.                 *)
AwaitReady(t) ==
    /\ pc[t] = "idle"
    /\ IF ~locked
       THEN /\ locked' = TRUE
            /\ pc' = [pc EXCEPT ![t] = "cs"]
       ELSE /\ pc' = [pc EXCEPT ![t] = "slow"]
            /\ UNCHANGED locked
    /\ UNCHANGED waiters

(* Mutant of AwaitSuspend: queue without re-checking locked_.           *)
AwaitSuspendNoRecheck(t) ==
    /\ pc[t] = "slow"
    /\ waiters' = Append(waiters, t)
    /\ pc' = [pc EXCEPT ![t] = "waiting"]
    /\ UNCHANGED locked

(* LockAwaiter::await_suspend: re-check under wait_mtx_; take the lock if *)
(* it was released meanwhile, else queue the handle and suspend.           *)
AwaitSuspend(t) ==
    /\ pc[t] = "slow"
    /\ IF ~locked
       THEN /\ locked' = TRUE
            /\ pc' = [pc EXCEPT ![t] = "cs"]
            /\ UNCHANGED waiters
       ELSE /\ waiters' = Append(waiters, t)
            /\ pc' = [pc EXCEPT ![t] = "waiting"]
            /\ UNCHANGED locked

(* Mutant of Unlock: clear locked_ also when handing over to a waiter.   *)
UnlockClearing(t) ==
    /\ pc[t] = "cs"
    /\ locked' = FALSE
    /\ IF waiters = <<>>
       THEN /\ pc' = [pc EXCEPT ![t] = "idle"]
            /\ UNCHANGED waiters
       ELSE /\ pc' = [pc EXCEPT ![t] = "idle", ![Head(waiters)] = "woken"]
            /\ waiters' = Tail(waiters)

(* Mutant of Unlock: wake the second waiter when there are two or more.  *)
UnlockSecond(t) ==
    /\ pc[t] = "cs"
    /\ IF waiters = <<>>
       THEN /\ locked' = FALSE
            /\ pc' = [pc EXCEPT ![t] = "idle"]
            /\ UNCHANGED waiters
       ELSE LET i == IF Len(waiters) >= 2 THEN 2 ELSE 1 IN
            /\ pc' = [pc EXCEPT ![t] = "idle", ![waiters[i]] = "woken"]
            /\ waiters' = RemoveAt(waiters, i)
            /\ UNCHANGED locked

(* Mutant of Unlock: wake the most recent waiter (a stack, not a queue). *)
UnlockLifo(t) ==
    /\ pc[t] = "cs"
    /\ IF waiters = <<>>
       THEN /\ locked' = FALSE
            /\ pc' = [pc EXCEPT ![t] = "idle"]
            /\ UNCHANGED waiters
       ELSE /\ pc' = [pc EXCEPT ![t] = "idle", ![Last(waiters)] = "woken"]
            /\ waiters' = Front(waiters)
            /\ UNCHANGED locked

(* ~ScopedLock -> AsyncMutex::unlock: with no waiter clear locked_; else  *)
(* pop the head and spawn it, leaving locked_ true (baton passing).        *)
Unlock(t) ==
    /\ pc[t] = "cs"
    /\ IF waiters = <<>>
       THEN /\ locked' = FALSE
            /\ pc' = [pc EXCEPT ![t] = "idle"]
            /\ UNCHANGED waiters
       ELSE /\ pc' = [pc EXCEPT ![t] = "idle", ![Head(waiters)] = "woken"]
            /\ waiters' = Tail(waiters)
            /\ UNCHANGED locked

(* A worker resumes the spawned waiter: await_resume returns the guard.   *)
Resumed(t) ==
    /\ pc[t] = "woken"
    /\ pc' = [pc EXCEPT ![t] = "cs"]
    /\ UNCHANGED <<locked, waiters>>

Next ==
    \E t \in Tasks :
        AwaitReady(t) \/ AwaitSuspend(t) \/ Unlock(t) \/ Resumed(t)

(* A task may stop taking the lock, but once inside lock() the awaiter   *)
(* runs on; a critical section ends (the guard is dropped); a spawned     *)
(* task is resumed by some worker (Scheduler's SpawnedTaskRuns).          *)
Fairness ==
    \A t \in Tasks : WF_vars(AwaitSuspend(t)) /\ WF_vars(Unlock(t)) /\ WF_vars(Resumed(t))

Spec == Init /\ [][Next]_vars /\ Fairness

-----------------------------------------------------------------------------
Holders == {t \in Tasks : pc[t] \in {"woken", "cs"}}

(* Mutual exclusion with baton passing: at most one task holds the lock  *)
(* or has been handed it, and locked_ is set exactly when one does: no    *)
(* fast-path caller can barge in between an unlock and the woken waiter.  *)
BatonExclusive ==
    /\ Cardinality(Holders) <= 1
    /\ locked <=> Holders # {}

(* The lock's owner, seen abstractly: the task in the critical section,  *)
(* or the waiter unlock has already handed it to and a worker has not yet *)
(* resumed.                                                                *)
Owner == IF Holders = {} THEN NoTask ELSE CHOOSE t \in Holders : TRUE

FifoLock == INSTANCE AbstractFifoLock WITH owner <- Owner, queue <- waiters,
                                           NoOwner <- NoTask

(* AsyncMutex implements a FIFO lock (spec section 8, property 2): every  *)
(* lock that takes a free mutex finds no one queued, every handle pushed  *)
(* to waiters_ is behind a held lock, and each unlock hands the lock to   *)
(* the oldest waiter, with await_ready's fast path, await_suspend's       *)
(* double-check and the baton's window before resumption all interleaved. *)
FifoLockRefinement == FifoLock!Spec
=============================================================================
