----------------------------- MODULE Scheduler -----------------------------
(***************************************************************************)
(* The M:N scheduler of include/scheduler.h together with the Parker of    *)
(* include/parker.h: worker threads that look for work (local deque, then  *)
(* the global queue, then stealing), spin on the global queue, and park;   *)
(* Scheduler::spawn, which pushes onto the global queue and unparks one    *)
(* worker chosen round-robin; Worker::schedule, which pushes onto a local  *)
(* deque; and the destructor, which sets stop_ and wakes every worker.     *)
(*                                                                         *)
(* The deques and the global queue are taken here as atomic sequences     *)
(* (their own protocols are modelled in other modules).  A task's body is *)
(* abstracted to "it completes, or it suspends and is later spawned again  *)
(* by whoever it waits for" (reactor, mutex unlock, channel peer).  Those  *)
(* other parties form the environment: the Spawn and Schedule actions.     *)
(***************************************************************************)
EXTENDS Naturals, Sequences, SequencesExt

CONSTANTS
    NumWorkers,   \* workers_.size()
    Tasks,        \* coroutine frames (model values)
    SpinTries,    \* the 50 iterations of the spin loop in Worker::run_once
    MaxSuspends,  \* bound on how often one task suspends and is re-spawned
    NoTask        \* a worker resuming no task (model value)

ASSUME NumWorkers \in Nat \ {0} /\ SpinTries \in Nat /\ MaxSuspends \in Nat
ASSUME NoTask \notin Tasks

Workers == 0 .. NumWorkers - 1

\* Parker::State
EMPTY    == "EMPTY"
PARKED   == "PARKED"
NOTIFIED == "NOTIFIED"

VARIABLES
    global,    \* Scheduler::global_queue_
    local,     \* Worker::local_queue_ of every worker
    task,      \* where each task's life is: idle | queued | running | done
    suspends,  \* how often each task has suspended so far
    wakeDue,   \* spawn(t) has pushed t and has yet to call wake()
    wpc,       \* program counter of each worker thread
    spins,     \* loop index i of the spin loop
    cur,       \* the task a worker is resuming
    parker,    \* Parker::state of each worker
    rr,        \* the static round-robin counter `next` in spawn
    stop,      \* Scheduler::stop_
    dtor       \* loop index of ~Scheduler's wake loop: the next worker to wake

vars == <<global, local, task, suspends, wakeDue, wpc, spins, cur, parker, rr, stop, dtor>>

TypeOK ==
    /\ global \in Seq(Tasks)
    /\ local \in [Workers -> Seq(Tasks)]
    /\ task \in [Tasks -> {"idle", "queued", "running", "done"}]
    /\ suspends \in [Tasks -> 0 .. MaxSuspends]
    /\ wakeDue \in [Tasks -> BOOLEAN]
    /\ wpc \in [Workers -> {"loop", "find", "run", "spin", "park_cas", "park_wait", "park_reset", "exited"}]
    /\ spins \in [Workers -> 0 .. SpinTries]
    /\ cur \in [Workers -> Tasks \cup {NoTask}]
    /\ parker \in [Workers -> {EMPTY, PARKED, NOTIFIED}]
    /\ rr \in Workers
    /\ stop \in BOOLEAN
    /\ dtor \in 0 .. NumWorkers

Init ==
    /\ global = <<>>
    /\ local = [w \in Workers |-> <<>>]
    /\ task = [t \in Tasks |-> "idle"]
    /\ suspends = [t \in Tasks |-> 0]
    /\ wakeDue = [t \in Tasks |-> FALSE]
    /\ wpc = [w \in Workers |-> "loop"]
    /\ spins = [w \in Workers |-> 0]
    /\ cur = [w \in Workers |-> NoTask]
    /\ parker = [w \in Workers |-> EMPTY]
    /\ rr = 0
    /\ stop = FALSE
    /\ dtor = 0

-----------------------------------------------------------------------------
(* Mutant of Unpark: notify only a worker that is already parked.       *)
UnparkIfParked(w) ==
    parker' = [parker EXCEPT ![w] = IF @ = PARKED THEN NOTIFIED ELSE @]

(* Parker::unpark: store NOTIFIED whatever the state was; notify_one wakes  *)
(* a thread blocked in park, which the enabling of ParkWait stands for.    *)
Unpark(w) == parker' = [parker EXCEPT ![w] = NOTIFIED]

(* Scheduler::spawn, first half: detach the handle and push it onto the    *)
(* global queue.  Called by whoever wakes the task (reactor, unlock, ...). *)
SpawnPush(t) ==
    /\ task[t] = "idle"
    /\ global' = Append(global, t)
    /\ task' = [task EXCEPT ![t] = "queued"]
    /\ wakeDue' = [wakeDue EXCEPT ![t] = TRUE]
    /\ UNCHANGED <<local, suspends, wpc, spins, cur, parker, rr, stop, dtor>>

(* Scheduler::spawn, second half: wake workers_[next++ % n].               *)
SpawnWake(t) ==
    /\ wakeDue[t]
    /\ Unpark(rr)
    /\ rr' = (rr + 1) % NumWorkers
    /\ wakeDue' = [wakeDue EXCEPT ![t] = FALSE]
    /\ UNCHANGED <<global, local, task, suspends, wpc, spins, cur, stop, dtor>>

(* Worker::schedule(t): push onto worker w's local deque; nobody is woken. *)
Schedule(w, t) ==
    /\ task[t] = "idle"
    /\ local' = [local EXCEPT ![w] = Append(@, t)]
    /\ task' = [task EXCEPT ![t] = "queued"]
    /\ UNCHANGED <<global, suspends, wakeDue, wpc, spins, cur, parker, rr, stop, dtor>>

-----------------------------------------------------------------------------
(* Worker::run: while (scheduler_.is_running()) run_once();                *)
Loop(w) ==
    /\ wpc[w] = "loop"
    /\ wpc' = [wpc EXCEPT ![w] = IF stop THEN "exited" ELSE "find"]
    /\ UNCHANGED <<global, local, task, suspends, wakeDue, spins, cur, parker, rr, stop, dtor>>

Take(w, t) ==
    /\ cur' = [cur EXCEPT ![w] = t]
    /\ task' = [task EXCEPT ![t] = "running"]
    /\ wpc' = [wpc EXCEPT ![w] = "run"]

(* The EBR-guarded block of run_once: local pop (bottom end), else the     *)
(* global queue, else a steal (top end) from the first non-empty victim of *)
(* a scan that starts at a random worker; on a miss, enter the spin loop.  *)
Find(w) ==
    /\ wpc[w] = "find"
    /\ \/ /\ local[w] # <<>>
          /\ Take(w, Last(local[w]))
          /\ local' = [local EXCEPT ![w] = Front(@)]
          /\ UNCHANGED <<global, spins>>
       \/ /\ local[w] = <<>> /\ global # <<>>
          /\ Take(w, Head(global))
          /\ global' = Tail(global)
          /\ UNCHANGED <<local, spins>>
       \/ /\ local[w] = <<>> /\ global = <<>> /\ NumWorkers > 1
          /\ \E v \in Workers :
                /\ local[v] # <<>>
                /\ Take(w, Head(local[v]))
                /\ local' = [local EXCEPT ![v] = Tail(@)]
          /\ UNCHANGED <<global, spins>>
       \/ /\ global = <<>>
          /\ \A v \in Workers : local[v] = <<>>
          /\ wpc' = [wpc EXCEPT ![w] = "spin"]
          /\ spins' = [spins EXCEPT ![w] = 0]
          /\ UNCHANGED <<global, local, task, cur>>
    /\ UNCHANGED <<suspends, wakeDue, parker, rr, stop, dtor>>

(* task->resume(): the body runs to its next suspension point or to its   *)
(* end; a suspended task waits for some other party to spawn it again.     *)
Run(w) ==
    /\ wpc[w] = "run"
    /\ LET t == cur[w] IN
       \/ /\ task' = [task EXCEPT ![t] = "done"]
          /\ UNCHANGED suspends
       \/ /\ suspends[t] < MaxSuspends
          /\ task' = [task EXCEPT ![t] = "idle"]
          /\ suspends' = [suspends EXCEPT ![t] = @ + 1]
    /\ cur' = [cur EXCEPT ![w] = NoTask]
    /\ wpc' = [wpc EXCEPT ![w] = "loop"]
    /\ UNCHANGED <<global, local, wakeDue, spins, parker, rr, stop, dtor>>

(* Mutant of Spin: the loop runs while i <= 50, one try too many.        *)
SpinOneMore(w) ==
    /\ wpc[w] = "spin"
    /\ \/ /\ spins[w] <= SpinTries /\ global # <<>>
          /\ Take(w, Head(global))
          /\ global' = Tail(global)
          /\ UNCHANGED spins
       \/ /\ spins[w] <= SpinTries /\ global = <<>>
          /\ spins' = [spins EXCEPT ![w] = @ + 1]
          /\ UNCHANGED <<global, task, cur, wpc>>
       \/ /\ spins[w] > SpinTries
          /\ wpc' = [wpc EXCEPT ![w] = "park_cas"]
          /\ UNCHANGED <<global, task, cur, spins>>
    /\ UNCHANGED <<local, suspends, wakeDue, parker, rr, stop, dtor>>

(* One iteration of `for (i = 0; i < 50; ++i)`: pop_global, or pause.     *)
Spin(w) ==
    /\ wpc[w] = "spin"
    /\ \/ /\ spins[w] < SpinTries /\ global # <<>>
          /\ Take(w, Head(global))
          /\ global' = Tail(global)
          /\ UNCHANGED spins
       \/ /\ spins[w] < SpinTries /\ global = <<>>
          /\ spins' = [spins EXCEPT ![w] = @ + 1]
          /\ UNCHANGED <<global, task, cur, wpc>>
       \/ /\ spins[w] = SpinTries
          /\ wpc' = [wpc EXCEPT ![w] = "park_cas"]
          /\ UNCHANGED <<global, task, cur, spins>>
    /\ UNCHANGED <<local, suspends, wakeDue, parker, rr, stop, dtor>>

(* Mutant of ParkCas: a plain store of PARKED instead of the CAS.        *)
ParkStore(w) ==
    /\ wpc[w] = "park_cas"
    /\ parker' = [parker EXCEPT ![w] = PARKED]
    /\ wpc' = [wpc EXCEPT ![w] = "park_wait"]
    /\ UNCHANGED <<global, local, task, suspends, wakeDue, spins, cur, rr, stop, dtor>>

(* Parker::park: compare_exchange(EMPTY -> PARKED); on failure skip the   *)
(* wait.                                                                   *)
ParkCas(w) ==
    /\ wpc[w] = "park_cas"
    /\ IF parker[w] = EMPTY
       THEN /\ parker' = [parker EXCEPT ![w] = PARKED]
            /\ wpc' = [wpc EXCEPT ![w] = "park_wait"]
       ELSE /\ wpc' = [wpc EXCEPT ![w] = "park_reset"]
            /\ UNCHANGED parker
    /\ UNCHANGED <<global, local, task, suspends, wakeDue, spins, cur, rr, stop, dtor>>

(* while (state.load() == PARKED) state.wait(PARKED);                      *)
ParkWait(w) ==
    /\ wpc[w] = "park_wait"
    /\ parker[w] # PARKED
    /\ wpc' = [wpc EXCEPT ![w] = "park_reset"]
    /\ UNCHANGED <<global, local, task, suspends, wakeDue, spins, cur, parker, rr, stop, dtor>>

(* state.store(EMPTY), then back to the loop head of Worker::run.          *)
ParkReset(w) ==
    /\ wpc[w] = "park_reset"
    /\ parker' = [parker EXCEPT ![w] = EMPTY]
    /\ wpc' = [wpc EXCEPT ![w] = "loop"]
    /\ UNCHANGED <<global, local, task, suspends, wakeDue, spins, cur, rr, stop, dtor>>

-----------------------------------------------------------------------------
(* ~Scheduler: (reactor stop), stop_ = true, then wake every worker in     *)
(* order; the joins are the workers reaching "exited".                     *)
Stop ==
    /\ ~stop
    /\ stop' = TRUE
    /\ UNCHANGED <<global, local, task, suspends, wakeDue, wpc, spins, cur, parker, rr, dtor>>

(* Mutant of DtorWake: the destructor's loop skips the wake() call.      *)
DtorNoWake ==
    /\ stop /\ dtor < NumWorkers
    /\ dtor' = dtor + 1
    /\ UNCHANGED <<global, local, task, suspends, wakeDue, wpc, spins, cur, parker, rr, stop>>

DtorWake ==
    /\ stop /\ dtor < NumWorkers
    /\ Unpark(dtor)
    /\ dtor' = dtor + 1
    /\ UNCHANGED <<global, local, task, suspends, wakeDue, wpc, spins, cur, rr, stop>>

(* Every thread has been joined: the program is over.                      *)
Joined ==
    /\ stop /\ dtor = NumWorkers
    /\ \A w \in Workers : wpc[w] = "exited"
    /\ UNCHANGED vars

WorkerStep(w) ==
    Loop(w) \/ Find(w) \/ Run(w) \/ Spin(w) \/ ParkCas(w) \/ ParkWait(w) \/ ParkReset(w)

Next ==
    \/ \E w \in Workers : WorkerStep(w)
    \/ \E t \in Tasks : SpawnPush(t) \/ SpawnWake(t)
    \/ \E w \in Workers, t \in Tasks : Schedule(w, t)
    \/ Stop \/ DtorWake \/ Joined

(* Worker threads and the thread inside spawn or the destructor are       *)
(* scheduled by the OS: each keeps running while it can.  Who spawns a     *)
(* task, schedules one, or destroys the scheduler is left free.            *)
Fairness ==
    /\ \A w \in Workers : WF_vars(WorkerStep(w))
    /\ \A t \in Tasks : WF_vars(SpawnWake(t))
    /\ WF_vars(DtorWake)

Spec == Init /\ [][Next]_vars /\ Fairness

-----------------------------------------------------------------------------
Blocked(w) == wpc[w] = "park_wait" /\ parker[w] = PARKED

(* No lost wake-up: while a spawned task sits in the global queue, some    *)
(* worker is not blocked in Parker::park, or spawn has still to call       *)
(* wake().  This is what the push-before-unpark order of spawn and the     *)
(* unconditional NOTIFIED store of unpark must guarantee together.         *)
NoLostWakeup ==
    global # <<>> =>
        \/ \E w \in Workers : ~Blocked(w)
        \/ \E t \in Tasks : wakeDue[t]

(* Every task pushed by spawn is eventually taken off the global queue by *)
(* some worker, unless the scheduler is being destroyed.                   *)
SpawnedTaskRuns ==
    \A t \in Tasks : (t \in ToSet(global)) ~> (t \notin ToSet(global) \/ stop)

(* ~Scheduler returns: once stop_ is set, every worker thread leaves its   *)
(* loop, including one blocked in park.                                     *)
ShutdownJoins ==
    stop ~> \A w \in Workers : wpc[w] = "exited"
=============================================================================
