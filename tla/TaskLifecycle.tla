--------------------------- MODULE TaskLifecycle ---------------------------
(***************************************************************************)
(* Ownership of a coroutine frame (include/task.h) as its handle travels   *)
(* between the global queue, the workers that resume it, and whatever it   *)
(* suspends on: a reactor registration (read/write/accept), a timer, a     *)
(* mutex waiter queue, a channel waiter queue.                             *)
(*                                                                         *)
(* The promise keeps ref_count and is_running.  A worker pops an owning    *)
(* Task, calls Task::resume (done check, CAS on is_running, body, store    *)
(* is_running = false if not done), then drops the Task (dec_ref, destroy  *)
(* on 1 -> 0).  A body either reaches final_suspend (FinalAwaiter clears   *)
(* is_running) or suspends in an awaiter's await_suspend, which publishes  *)
(* the raw handle to a waker; the waker later adopts it with              *)
(* Task::from_address and spawns it (detach + push onto the global queue). *)
(***************************************************************************)
EXTENDS Naturals, Sequences, SequencesExt, FiniteSets

CONSTANTS
    Workers,     \* worker threads (model values)
    Tasks,       \* coroutine frames (model values)
    Kinds,       \* the awaiters the bodies suspend on
    MaxAwaits,   \* bound on suspensions per task
    NoTask       \* model value: a worker holding no Task

AllKinds == {"read", "accept", "sleep", "lock", "send", "recv"}
NoReg    == "none"

ASSUME Kinds \subseteq AllKinds /\ MaxAwaits \in Nat /\ NoTask \notin Tasks

(* ref_count increments done by each awaiter's await_suspend before it    *)
(* publishes the handle.                                                   *)
NoRefTaken == 0        \* mutant of ReadAwaitRefs: the fetch_add(1) is missing
ReadAwaitRefs   == 1    \* AsyncReadAwaiter: fetch_add(1), register_read
AcceptAwaitRefs == 1    \* AsyncAcceptAwaiter: fetch_add(1), register_read
SleepAwaitRefs  == 0    \* AsyncSleep: add_timer(expiry, h)
LockAwaitRefs   == 0    \* LockAwaiter: waiters_.push(h)
SendAwaitRefs   == 0    \* SendAwaiter: send_waiters_.push({h, &value})
RecvAwaitRefs   == 0    \* RecvAwaiter: recv_waiters_.push({h, &result})

RefsTaken(k) ==
    CASE k = "read"   -> ReadAwaitRefs
      [] k = "accept" -> AcceptAwaitRefs
      [] k = "sleep"  -> SleepAwaitRefs
      [] k = "lock"   -> LockAwaitRefs
      [] k = "send"   -> SendAwaitRefs
      [] k = "recv"   -> RecvAwaitRefs

VARIABLES
    rc,         \* Promise::ref_count
    running,    \* Promise::is_running
    frame,      \* "suspended" | "final" (done()) | "destroyed"
    completed,  \* the body has run to co_return (history)
    awaits,     \* suspensions so far
    reg,        \* the waker holding the raw handle, or NoReg
    global,     \* Scheduler::global_queue_: owning Tasks
    wpc,        \* worker program counter inside run_once
    cur         \* the owning Task a worker holds

vars == <<rc, running, frame, completed, awaits, reg, global, wpc, cur>>

MaxRef == Cardinality(Workers) + 2

TypeOK ==
    /\ rc \in [Tasks -> 0 .. MaxRef]
    /\ running \in [Tasks -> BOOLEAN]
    /\ frame \in [Tasks -> {"suspended", "final", "destroyed"}]
    /\ completed \in [Tasks -> BOOLEAN]
    /\ awaits \in [Tasks -> 0 .. MaxAwaits]
    /\ reg \in [Tasks -> Kinds \cup {NoReg}]
    /\ global \in Seq(Tasks)
    /\ wpc \in [Workers -> {"idle", "resume", "body", "after", "drop"}]
    /\ cur \in [Workers -> Tasks \cup {NoTask}]

(* Each task was created (ref_count 1, suspended at initial_suspend) and  *)
(* handed to Scheduler::spawn.                                             *)
Init ==
    /\ rc = [t \in Tasks |-> 1]
    /\ running = [t \in Tasks |-> FALSE]
    /\ frame = [t \in Tasks |-> "suspended"]
    /\ completed = [t \in Tasks |-> FALSE]
    /\ awaits = [t \in Tasks |-> 0]
    /\ reg = [t \in Tasks |-> NoReg]
    /\ global \in {s \in [1 .. Cardinality(Tasks) -> Tasks] : ToSet(s) = Tasks}
    /\ wpc = [w \in Workers |-> "idle"]
    /\ cur = [w \in Workers |-> NoTask]

-----------------------------------------------------------------------------
(* run_once: pop_global moves the queue's owning Task into the worker.    *)
Pop(w) ==
    /\ wpc[w] = "idle" /\ global # <<>>
    /\ cur' = [cur EXCEPT ![w] = Head(global)]
    /\ global' = Tail(global)
    /\ wpc' = [wpc EXCEPT ![w] = "resume"]
    /\ UNCHANGED <<rc, running, frame, completed, awaits, reg>>

(* Task::resume: `if (handle.done()) return;` then CAS is_running false   *)
(* -> true; when either fails, resume returns without running the body.    *)
ResumeBegin(w) ==
    LET t == cur[w] IN
    /\ wpc[w] = "resume" /\ frame[t] # "destroyed"
    /\ IF frame[t] = "suspended" /\ ~running[t]
       THEN /\ running' = [running EXCEPT ![t] = TRUE]
            /\ wpc' = [wpc EXCEPT ![w] = "body"]
       ELSE /\ wpc' = [wpc EXCEPT ![w] = "drop"]
            /\ UNCHANGED running
    /\ UNCHANGED <<rc, frame, completed, awaits, reg, global, cur>>

(* handle.resume() up to co_return: FinalAwaiter::await_suspend stores    *)
(* is_running = false; there is no continuation, so the frame stays done.  *)
FinalSuspend(w) ==
    LET t == cur[w] IN
    /\ wpc[w] = "body"
    /\ frame' = [frame EXCEPT ![t] = "final"]
    /\ completed' = [completed EXCEPT ![t] = TRUE]
    /\ running' = [running EXCEPT ![t] = FALSE]
    /\ wpc' = [wpc EXCEPT ![w] = "after"]
    /\ UNCHANGED <<rc, awaits, reg, global, cur>>

(* handle.resume() up to an awaiter that suspends: its await_suspend adds *)
(* RefsTaken(k) to ref_count and publishes the raw handle to the waker.    *)
AwaitSuspend(w, k) ==
    LET t == cur[w] IN
    /\ wpc[w] = "body" /\ awaits[t] < MaxAwaits
    /\ rc' = [rc EXCEPT ![t] = @ + RefsTaken(k)]
    /\ reg' = [reg EXCEPT ![t] = k]
    /\ awaits' = [awaits EXCEPT ![t] = @ + 1]
    /\ wpc' = [wpc EXCEPT ![w] = "after"]
    /\ UNCHANGED <<running, frame, completed, global, cur>>

(* Task::resume after handle.resume() returns:                            *)
(* `if (handle && !handle.done()) is_running.store(false);`                *)
ResumeEnd(w) ==
    LET t == cur[w] IN
    /\ wpc[w] = "after" /\ frame[t] # "destroyed"
    /\ running' = [running EXCEPT ![t] = IF frame[t] = "final" THEN @ ELSE FALSE]
    /\ wpc' = [wpc EXCEPT ![w] = "drop"]
    /\ UNCHANGED <<rc, frame, completed, awaits, reg, global, cur>>

(* Mutant of Drop: destroy when the count left after the decrement is 1 *)
(* (the value after fetch_sub compared instead of the value before).      *)
DropOffByOne(w) ==
    LET t == cur[w] IN
    /\ wpc[w] = "drop" /\ frame[t] # "destroyed"
    /\ rc' = [rc EXCEPT ![t] = @ - 1]
    /\ frame' = [frame EXCEPT ![t] = IF rc[t] - 1 = 1 THEN "destroyed" ELSE @]
    /\ wpc' = [wpc EXCEPT ![w] = "idle"]
    /\ cur' = [cur EXCEPT ![w] = NoTask]
    /\ UNCHANGED <<running, completed, awaits, reg, global>>

(* ~Task at the end of run_once: dec_ref, destroy on the 1 -> 0 step.     *)
Drop(w) ==
    LET t == cur[w] IN
    /\ wpc[w] = "drop" /\ frame[t] # "destroyed"
    /\ rc' = [rc EXCEPT ![t] = @ - 1]
    /\ frame' = [frame EXCEPT ![t] = IF rc[t] = 1 THEN "destroyed" ELSE @]
    /\ wpc' = [wpc EXCEPT ![w] = "idle"]
    /\ cur' = [cur EXCEPT ![w] = NoTask]
    /\ UNCHANGED <<running, completed, awaits, reg, global>>

(* Mutant of Wake: the waker rebuilds the Task with the counting         *)
(* constructor Task(h) instead of Task::from_address.                      *)
WakeCounting(t) ==
    /\ reg[t] # NoReg
    /\ reg' = [reg EXCEPT ![t] = NoReg]
    /\ rc' = [rc EXCEPT ![t] = @ + 1]
    /\ global' = Append(global, t)
    /\ UNCHANGED <<running, frame, completed, awaits, wpc, cur>>

(* The waker (reactor io_handler or timer loop, AsyncMutex::unlock,       *)
(* Channel send/recv/close) adopts the raw handle with Task::from_address  *)
(* and passes it to Scheduler::spawn, which detaches it onto the queue.    *)
Wake(t) ==
    /\ reg[t] # NoReg
    /\ reg' = [reg EXCEPT ![t] = NoReg]
    /\ global' = Append(global, t)
    /\ UNCHANGED <<rc, running, frame, completed, awaits, wpc, cur>>

(* Every handle has been consumed and every worker is back in run_once   *)
(* with nothing to do: the workers park until the next spawn.             *)
Quiescent ==
    /\ global = <<>>
    /\ \A w \in Workers : wpc[w] = "idle"
    /\ \A t \in Tasks : reg[t] = NoReg
    /\ UNCHANGED vars

Next ==
    \/ Quiescent
    \/ \E w \in Workers :
          \/ Pop(w) \/ ResumeBegin(w) \/ FinalSuspend(w) \/ ResumeEnd(w) \/ Drop(w)
          \/ \E k \in Kinds : AwaitSuspend(w, k)
    \/ \E t \in Tasks : Wake(t)

Spec == Init /\ [][Next]_vars

-----------------------------------------------------------------------------
Holds(w, t) == cur[w] = t /\ wpc[w] # "idle"

(* The owning references to t: Tasks held by workers, Task slots of the   *)
(* global queue, and the raw handle a waker will adopt.                    *)
Owners(t) ==
    Cardinality({w \in Workers : Holds(w, t)})
      + Cardinality({i \in DOMAIN global : global[i] = t})
      + (IF reg[t] # NoReg THEN 1 ELSE 0)

(* Spec section 3: for every increment of ref_count there is exactly one  *)
(* matching decrement: while a frame lives, ref_count equals the number   *)
(* of owners that will each decrement it once (adopt/detach transfer a    *)
(* count without touching it).                                             *)
RefCountMatchesOwners ==
    \A t \in Tasks : frame[t] # "destroyed" => rc[t] = Owners(t)

(* No use after free: no worker, queue slot or waker still refers to a    *)
(* frame that Task::dec_ref has destroyed.                                 *)
NoDanglingReference ==
    \A t \in Tasks : frame[t] = "destroyed" => Owners(t) = 0

(* Spec section 8, property 1: a frame is destroyed only after its        *)
(* computation has completed; a spawned task is never dropped unrun.      *)
DestroyedOnlyWhenDone ==
    \A t \in Tasks : frame[t] = "destroyed" => completed[t]
=============================================================================
