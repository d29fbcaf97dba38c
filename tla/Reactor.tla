------------------------------- MODULE Reactor -------------------------------
(***************************************************************************)
(* The reactor thread of include/scheduler.h (Reactor::start/stop/         *)
(* add_timer/loop) over the Poller of include/poller.h, with the tasks    *)
(* that use it: sleepers (AsyncSleep) and keep-alive readers               *)
(* (AsyncReadAwaiter on their own fd).  What the reactor hands to          *)
(* Scheduler::spawn is recorded in spawns; the scheduler's side (push,     *)
(* wake, a worker resuming the task) is the Scheduler module, and is taken *)
(* here as one Resumed step.  Both Poller implementations are modelled:    *)
(* platform is chosen once, as the build chooses it.                       *)
(***************************************************************************)
EXTENDS Integers, FiniteSets

CONSTANTS
    Sleepers,    \* tasks that co_await sleep_for
    Readers,     \* tasks that co_await read on their own socket fd
    Delays,      \* the ms arguments sleep_for is called with
    MaxSleeps,   \* sleeps per sleeper
    MaxReads,    \* requests per reader's connection (keep-alive)
    MaxTime,     \* bound on steady_clock, in ms
    Platforms,   \* the Poller builds explored: "epoll", "kqueue"
    WakeFd       \* the pointer value data.ptr holds for the eventfd event

Tasks == Sleepers \cup Readers
Pointers == Tasks \cup {WakeFd}
NoTimeout == -1   \* timeout_ms = -1: block until an event

VARIABLES
    platform,    \* which Poller was compiled
    now,         \* std::chrono::steady_clock::now(), in ms
    timers,      \* Reactor::timers_, records [e |-> expiry, h |-> handle]
    running,     \* Reactor::running_
    wakeSignal,  \* eventfd written / EVFILT_USER triggered, not yet reported
    rpc,         \* reactor thread: loop | compute | call | wait | timers | exited
    timeout,     \* loop's timeout_ms
    deadline,    \* when the poller's wait times out, or NoTimeout
    tpc,         \* each task: run | eagain | suspended | runnable
    inAdd,       \* sleeper still in add_timer after unlock: none | wake | nowake
    ready,       \* the reader's fd has unread data
    kreg,        \* the kernel's registration of the fd: none | armed | disarmed
    reads,       \* reads the reader has completed
    suspends,    \* suspensions of each task on the reactor
    spawns       \* pointers handed to Scheduler::spawn, per pointer

vars == <<platform, now, timers, running, wakeSignal, rpc, timeout, deadline,
          tpc, inAdd, ready, kreg, reads, suspends, spawns>>

Timer == [e : 0 .. MaxTime, h : Sleepers]

TypeOK ==
    /\ platform \in Platforms
    /\ now \in 0 .. 2 * MaxTime
    /\ timers \subseteq Timer
    /\ running \in BOOLEAN /\ wakeSignal \in BOOLEAN
    /\ rpc \in {"loop", "compute", "call", "wait", "timers", "exited"}
    /\ timeout \in {NoTimeout} \cup 0 .. MaxTime
    /\ deadline \in {NoTimeout} \cup 0 .. 2 * MaxTime
    /\ tpc \in [Tasks -> {"run", "eagain", "suspended", "runnable"}]
    /\ inAdd \in [Sleepers -> {"none", "wake", "nowake"}]
    /\ ready \in [Readers -> BOOLEAN]
    /\ kreg \in [Readers -> {"none", "armed", "disarmed"}]
    /\ reads \in [Readers -> 0 .. MaxReads]
    /\ suspends \in [Tasks -> Nat]
    /\ spawns \in [Pointers -> Nat]

(* Scheduler's constructor has run reactor_->start(): running_ is true    *)
(* and the loop thread is at its while test.                              *)
Init ==
    /\ platform \in Platforms
    /\ now = 0
    /\ timers = {}
    /\ running = TRUE
    /\ wakeSignal = FALSE
    /\ rpc = "loop"
    /\ timeout = NoTimeout
    /\ deadline = NoTimeout
    /\ tpc = [h \in Tasks |-> "run"]
    /\ inAdd = [s \in Sleepers |-> "none"]
    /\ ready = [r \in Readers |-> FALSE]
    /\ kreg = [r \in Readers |-> "none"]
    /\ reads = [r \in Readers |-> 0]
    /\ suspends = [h \in Tasks |-> 0]
    /\ spawns = [p \in Pointers |-> 0]

(* timers_.top().expiry: the least expiry in the heap T.                   *)
TopExpiry(T) == CHOOSE x \in {t.e : t \in T} : \A t \in T : x <= t.e

(* Scheduler::spawn of a set of handles adopted with Task::from_address.  *)
Spawn(P) ==
    /\ spawns' = [p \in Pointers |-> IF p \in P THEN spawns[p] + 1 ELSE spawns[p]]
    /\ tpc' = [h \in Tasks |-> IF h \in P THEN "runnable" ELSE tpc[h]]

-----------------------------------------------------------------------------
(* Poller::wake: write 1 to the eventfd / trigger the EVFILT_USER event.  *)
Wake == wakeSignal' = TRUE

(* The user pointer the poller reports for the self-wake event.  epoll:   *)
(* the constructor sets ev.data.fd = wake_fd_ in a zeroed epoll_data      *)
(* union, and wait() reads data.ptr, so the pointer is the fd's value,    *)
(* never nullptr.  kqueue: the EVFILT_USER event is skipped by filter.    *)
WakeCallbacks == IF platform = "epoll" THEN {WakeFd} ELSE {}

(* Mutant of AddTimer: need_wake when top().expiry < expiry.               *)
AddTimerInverted(s, d) ==
    /\ tpc[s] = "run" /\ inAdd[s] = "none" /\ suspends[s] < MaxSleeps
    /\ now + d <= MaxTime
    /\ LET t == [e |-> now + d, h |-> s]
           top == TopExpiry(timers \cup {t})
       IN /\ timers' = timers \cup {t}
          /\ inAdd' = [inAdd EXCEPT ![s] = IF top < t.e THEN "wake" ELSE "nowake"]
    /\ tpc' = [tpc EXCEPT ![s] = "suspended"]
    /\ suspends' = [suspends EXCEPT ![s] = @ + 1]
    /\ UNCHANGED <<platform, now, running, wakeSignal, rpc, timeout, deadline,
                   ready, kreg, reads, spawns>>

(* sleep_for(ms) -> AsyncSleep::await_suspend: expiry = now() + ms;       *)
(* add_timer under mtx_: timers_.push({expiry, h}); need_wake =            *)
(* (timers_.top().expiry == expiry).  No reference is taken.              *)
AddTimer(s, d) ==
    /\ tpc[s] = "run" /\ inAdd[s] = "none" /\ suspends[s] < MaxSleeps
    /\ now + d <= MaxTime
    /\ LET t == [e |-> now + d, h |-> s]
           top == TopExpiry(timers \cup {t})
       IN /\ timers' = timers \cup {t}
          /\ inAdd' = [inAdd EXCEPT ![s] = IF top = t.e THEN "wake" ELSE "nowake"]
    /\ tpc' = [tpc EXCEPT ![s] = "suspended"]
    /\ suspends' = [suspends EXCEPT ![s] = @ + 1]
    /\ UNCHANGED <<platform, now, running, wakeSignal, rpc, timeout, deadline,
                   ready, kreg, reads, spawns>>

(* add_timer after the lock is released: if (need_wake) poller_.wake().   *)
AddTimerWake(s) ==
    /\ inAdd[s] # "none"
    /\ IF inAdd[s] = "wake" THEN Wake ELSE UNCHANGED wakeSignal
    /\ inAdd' = [inAdd EXCEPT ![s] = "none"]
    /\ UNCHANGED <<platform, now, timers, running, rpc, timeout, deadline, tpc,
                   ready, kreg, reads, suspends, spawns>>

(* AsyncReadAwaiter::await_ready: ::read(fd).  Data there: the read       *)
(* completes without suspending; none: EAGAIN, and the task suspends.     *)
ReadTry(r) ==
    /\ tpc[r] = "run" /\ reads[r] < MaxReads
    /\ IF ready[r]
       THEN /\ ready' = [ready EXCEPT ![r] = FALSE]
            /\ reads' = [reads EXCEPT ![r] = @ + 1]
            /\ UNCHANGED tpc
       ELSE /\ tpc' = [tpc EXCEPT ![r] = "eagain"]
            /\ UNCHANGED <<ready, reads>>
    /\ UNCHANGED <<platform, now, timers, running, wakeSignal, rpc, timeout,
                   deadline, inAdd, kreg, suspends, spawns>>

(* Mutant of EexistMod: the EEXIST failure is ignored.                    *)
EexistIgnored(k) == k

(* The EEXIST branch of Poller::add_read (epoll): EPOLL_CTL_MOD re-arms   *)
(* the registration the fd still has from its previous one-shot event.    *)
EexistMod(k) == "armed"

(* AsyncReadAwaiter::await_suspend: ref_count + 1, then register_read ->  *)
(* Poller::add_read.  epoll: EPOLL_CTL_ADD with EPOLLONESHOT, and on      *)
(* EEXIST EPOLL_CTL_MOD.  kqueue: EV_ADD | EV_ONESHOT.  A registration on *)
(* an fd that is already readable reports at the next wait.               *)
ReadSuspend(r) ==
    /\ tpc[r] = "eagain"
    /\ kreg' = [kreg EXCEPT ![r] = IF @ = "none" THEN "armed" ELSE EexistMod(@)]
    /\ tpc' = [tpc EXCEPT ![r] = "suspended"]
    /\ suspends' = [suspends EXCEPT ![r] = @ + 1]
    /\ UNCHANGED <<platform, now, timers, running, wakeSignal, rpc, timeout,
                   deadline, inAdd, ready, reads, spawns>>

(* The client sends its next request on the connection.                   *)
Arrive(r) ==
    /\ ~ready[r] /\ reads[r] < MaxReads
    /\ ready' = [ready EXCEPT ![r] = TRUE]
    /\ UNCHANGED <<platform, now, timers, running, wakeSignal, rpc, timeout,
                   deadline, tpc, inAdd, kreg, reads, suspends, spawns>>

(* A worker resumes a spawned task (Scheduler module).  A sleeper resumes *)
(* from await_resume; a reader's await_resume reads again after EAGAIN.   *)
(* A sleeper whose add_timer has not returned is still inside the first   *)
(* resume() (TaskLifecycle's task_race): it is resumed after that.        *)
Resumed(h) ==
    /\ tpc[h] = "runnable"
    /\ h \in Sleepers => inAdd[h] = "none"
    /\ tpc' = [tpc EXCEPT ![h] = "run"]
    /\ IF h \in Readers
       THEN /\ ready' = [ready EXCEPT ![h] = FALSE]
            /\ reads' = [reads EXCEPT ![h] = @ + 1]
       ELSE UNCHANGED <<ready, reads>>
    /\ UNCHANGED <<platform, now, timers, running, wakeSignal, rpc, timeout,
                   deadline, inAdd, kreg, suspends, spawns>>

-----------------------------------------------------------------------------
(* loop: while (running_).                                                 *)
LoopTest ==
    /\ rpc = "loop"
    /\ rpc' = IF running THEN "compute" ELSE "exited"
    /\ UNCHANGED <<platform, now, timers, running, wakeSignal, timeout, deadline,
                   tpc, inAdd, ready, kreg, reads, suspends, spawns>>

(* Mutant of Compute: the next <= now case is dropped, so a due timer     *)
(* gives a negative timeout.                                               *)
ComputeNoClamp ==
    /\ rpc = "compute"
    /\ timeout' = IF timers = {} THEN NoTimeout ELSE TopExpiry(timers) - now
    /\ rpc' = "call"
    /\ UNCHANGED <<platform, now, timers, running, wakeSignal, deadline, tpc,
                   inAdd, ready, kreg, reads, suspends, spawns>>

(* loop, under mtx_: timeout_ms = -1 with no timers; 0 when the earliest  *)
(* is due; else the ms until it (duration_cast truncates; the clock here  *)
(* is in whole ms).                                                        *)
Compute ==
    /\ rpc = "compute"
    /\ timeout' = IF timers = {} THEN NoTimeout
                  ELSE IF TopExpiry(timers) <= now THEN 0
                  ELSE TopExpiry(timers) - now
    /\ rpc' = "call"
    /\ UNCHANGED <<platform, now, timers, running, wakeSignal, deadline, tpc,
                   inAdd, ready, kreg, reads, suspends, spawns>>

(* poller_.wait(timeout_ms, io_handler): epoll_wait / kevent is entered.  *)
(* A negative timeout blocks without limit (epoll reads any negative      *)
(* value so; kevent gets a null timespec).                                 *)
CallWait ==
    /\ rpc = "call"
    /\ deadline' = IF timeout < 0 THEN NoTimeout ELSE now + timeout
    /\ timeout' = NoTimeout   \* the local is dead from here on
    /\ rpc' = "wait"
    /\ UNCHANGED <<platform, now, timers, running, wakeSignal, tpc,
                   inAdd, ready, kreg, reads, suspends, spawns>>

(* The readers whose armed registration has readiness to report.          *)
ReadyFds == {r \in Readers : kreg[r] = "armed" /\ ready[r]}

(* What a one-shot registration is after its event: epoll keeps it in    *)
(* the interest list disabled; kqueue's EV_ONESHOT deletes it.            *)
AfterOneShot == IF platform = "epoll" THEN "disarmed" ELSE "none"

(* Mutant of Poll: the registration is not one-shot (stays armed).        *)
PollNoOneShot ==
    /\ rpc = "wait"
    /\ \/ wakeSignal \/ ReadyFds # {}
       \/ deadline # NoTimeout /\ now >= deadline
    /\ Spawn(ReadyFds \cup (IF wakeSignal THEN WakeCallbacks ELSE {}))
    /\ wakeSignal' = FALSE
    /\ deadline' = NoTimeout
    /\ rpc' = "timers"
    /\ UNCHANGED <<platform, now, timers, running, timeout, inAdd,
                   ready, kreg, reads, suspends>>

(* The wait returns on the self-wake event, on readiness of an armed fd,  *)
(* or at its deadline.  Each ready fd's one-shot registration fires and   *)
(* io_handler spawns Task::from_address(udata) for it; the self-wake      *)
(* event goes to io_handler too on epoll (WakeCallbacks).                  *)
Poll ==
    /\ rpc = "wait"
    /\ \/ wakeSignal \/ ReadyFds # {}
       \/ deadline # NoTimeout /\ now >= deadline
    /\ Spawn(ReadyFds \cup (IF wakeSignal THEN WakeCallbacks ELSE {}))
    /\ kreg' = [r \in Readers |-> IF r \in ReadyFds THEN AfterOneShot ELSE kreg[r]]
    /\ wakeSignal' = FALSE
    /\ deadline' = NoTimeout
    /\ rpc' = "timers"
    /\ UNCHANGED <<platform, now, timers, running, timeout, inAdd,
                   ready, reads, suspends>>

(* loop, under mtx_: pop every timer with expiry <= now and spawn it.     *)
FireTimers ==
    /\ rpc = "timers"
    /\ LET due == {t \in timers : t.e <= now}
       IN /\ timers' = timers \ due
          /\ Spawn({t.h : t \in due})
    /\ rpc' = "loop"
    /\ UNCHANGED <<platform, now, running, wakeSignal, timeout, deadline, inAdd,
                   ready, kreg, reads, suspends>>

(* Mutant of Stop: running_ is cleared but the poller is not woken.       *)
StopNoWake ==
    /\ running
    /\ running' = FALSE
    /\ UNCHANGED <<platform, now, timers, wakeSignal, rpc, timeout, deadline,
                   tpc, inAdd, ready, kreg, reads, suspends, spawns>>

(* Reactor::stop, first thing ~Scheduler does: if running_.exchange(false) *)
(* then poller_.wake() and join the loop thread.                          *)
Stop ==
    /\ running
    /\ running' = FALSE
    /\ Wake
    /\ UNCHANGED <<platform, now, timers, rpc, timeout, deadline, tpc, inAdd,
                   ready, kreg, reads, suspends, spawns>>

(* steady_clock advances.  Timers expire by MaxTime; past it the clock   *)
(* only runs on to the deadline of a wait in progress.                     *)
Tick ==
    /\ now < MaxTime \/ (deadline # NoTimeout /\ now < deadline)
    /\ now' = now + 1
    /\ UNCHANGED <<platform, timers, running, wakeSignal, rpc, timeout, deadline,
                   tpc, inAdd, ready, kreg, reads, suspends, spawns>>

(* The loop thread has returned and been joined.                           *)
Exited ==
    /\ rpc = "exited"
    /\ UNCHANGED vars

ReactorThread == LoopTest \/ Compute \/ CallWait \/ Poll \/ FireTimers

Next ==
    \/ ReactorThread
    \/ \E s \in Sleepers : \/ \E d \in Delays : AddTimer(s, d)
                           \/ AddTimerWake(s)
    \/ \E r \in Readers : ReadTry(r) \/ ReadSuspend(r) \/ Arrive(r)
    \/ \E h \in Tasks : Resumed(h)
    \/ Stop
    \/ Tick
    \/ Exited

(* The reactor and worker threads, and the thread inside add_timer, keep  *)
(* being scheduled by the OS, and the clock keeps moving.  Sleeping,      *)
(* clients sending, and stopping are the application's choice.            *)
Fairness ==
    /\ WF_vars(ReactorThread)
    /\ WF_vars(Tick)
    /\ \A s \in Sleepers : WF_vars(AddTimerWake(s))
    /\ \A r \in Readers : WF_vars(ReadSuspend(r))
    /\ \A h \in Tasks : WF_vars(Resumed(h))

Spec == Init /\ [][Next]_vars /\ Fairness

-----------------------------------------------------------------------------
(* Each suspension on the reactor (a timer pushed by add_timer, a one-shot *)
(* read registration) is answered by exactly one spawn of that task, and   *)
(* only while the task is suspended: firing pops the timer, and the        *)
(* registration is one-shot, so a later wait cannot hand the same handle   *)
(* to spawn again while the task runs.                                      *)
ExactlyOnceWake ==
    \A h \in Tasks :
        spawns[h] + (IF tpc[h] = "suspended" THEN 1 ELSE 0) = suspends[h]

(* Spec 4.4: the self-wake event is consumed without a callback: nothing  *)
(* but a task handle is ever passed to Scheduler::spawn by io_handler.     *)
SelfWakeSilent == spawns[WakeFd] = 0

(* A sleeper's timer is fired (its handle spawned) once the clock passes  *)
(* its expiry, unless the reactor is stopped first: add_timer wakes a     *)
(* poller that is blocked with a timeout computed before the push.        *)
DueTimerFires ==
    \A s \in Sleepers :
        (\E t \in timers : t.h = s) ~> (tpc[s] = "runnable" \/ ~running)

(* A reader suspended on its fd is spawned once the client's data is there, *)
(* also on a keep-alive connection whose fd is still registered from the   *)
(* previous request (EEXIST -> EPOLL_CTL_MOD).                               *)
ReadinessDelivered ==
    \A r \in Readers :
        (tpc[r] = "suspended" /\ ready[r]) ~> (tpc[r] = "runnable" \/ ~running)

(* Reactor::stop returns: once running_ is cleared the loop thread leaves  *)
(* poller_.wait, even a wait with no timeout, and exits.                    *)
StopJoins == ~running ~> rpc = "exited"
=============================================================================
