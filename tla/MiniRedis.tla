------------------------------ MODULE MiniRedis ------------------------------
(***************************************************************************)
(* The mini key-value server of src/mini_redis.cpp, composed with the     *)
(* pieces of the runtime its handle_client coroutines go through:         *)
(*   - AsyncReadAwaiter (include/socket.h): read in await_ready, on       *)
(*     EAGAIN register_read in await_suspend, and in await_resume read    *)
(*     again only if errno is still EAGAIN;                               *)
(*   - Poller::add_read (include/poller.h), one-shot, with the EEXIST ->  *)
(*     EPOLL_CTL_MOD fallback on epoll, and the reactor's io_handler that *)
(*     spawns the handle when the fd is ready;                            *)
(*   - the GlobalQueue and the workers that pop from it (Worker::run_once *)
(*     and Parker::park), each with its own thread-local errno;           *)
(*   - RedisDB::mutex, an AsyncMutex, as an INSTANCE of module AsyncMutex. *)
(* Each client speaks as redis-cli does, for at most MaxSends[c] commands: *)
(* one command, then it waits for                                         *)
(* the reply, so a read returns exactly one command and the socket's send *)
(* buffer always has room for the reply (AsyncWriteAwaiter::await_ready   *)
(* succeeds at once).  The accept loop has already spawned one handler    *)
(* per client.                                                            *)
(***************************************************************************)
EXTENDS Naturals, Sequences, SequencesExt, FiniteSets

CONSTANTS
    Clients,     \* connections, one handle_client task each
    Workers,     \* worker threads
    Keys, Vals,  \* keys and values of db.kv_store
    Cmds,        \* commands the clients send: [op, key, val]
    Platforms,   \* the Poller builds explored: "epoll", "kqueue"
    MaxSends,    \* per client, the commands it sends over its connection at most
    Acceptor,    \* the start_redis_server task, which runs the accept loop
    NoWorker,    \* on[t] of a task that is not running
    Nil          \* no command / key absent ($-1) / no reply in flight

(* errno values the model tells apart; "other" stands for 0, EINTR and   *)
(* every value that is neither EAGAIN nor EEXIST.                         *)
Errnos == {"EAGAIN", "EEXIST", "other"}

Tasks == Clients \cup {Acceptor}

VARIABLES
    platform,  \* which Poller was compiled
    hpc,       \* handle_client: unborn | new | read | parked | queued | resume |
               \* lock | done; start_redis_server: new | accept | parked |
               \* queued | resume
    on,        \* the worker thread a running task is on
    errno,     \* each worker thread's errno
    gq,        \* Scheduler::global_queue_, handles in FIFO order
    kreg,      \* the kernel's registration of the client fd (of the listening
               \* fd for Acceptor): none | armed | disarmed
    backlog,   \* the listen queue: connections not yet accept()ed, in order
    req,       \* the command the handler is serving (Nil once it is answered,
               \* except QUIT: args is dead after the reply)
    inbox,     \* bytes the client sent and the server has not read (a command)
    outbox,    \* the reply written and not yet read by the client
    cst,       \* the client: unconnected | idle | waiting (for a reply) |
               \* closed (FIN sent)
    sent,      \* commands each client has sent so far
    kv,        \* RedisDB::kv_store
    locked, waiters, mpc   \* RedisDB::mutex (module AsyncMutex)

vars == <<platform, hpc, on, errno, gq, kreg, backlog, req, inbox, outbox, cst, sent, kv,
          locked, waiters, mpc>>
mutexVars == <<locked, waiters, mpc>>

Mutex == INSTANCE AsyncMutex WITH Tasks <- Clients, NoTask <- Nil, pc <- mpc

Replies == {"OK", "PONG", "$-1", ":0", ":1", Nil} \cup Vals

TypeOK ==
    /\ platform \in Platforms
    /\ hpc \in [Tasks -> {"unborn", "new", "accept", "read", "parked", "queued",
                          "resume", "lock", "done"}]
    /\ on \in [Tasks -> Workers \cup {NoWorker}]
    /\ errno \in [Workers -> Errnos]
    /\ gq \in Seq(Tasks)
    /\ kreg \in [Tasks -> {"none", "armed", "disarmed"}]
    /\ backlog \in Seq(Clients)
    /\ req \in [Clients -> Cmds \cup {Nil}]
    /\ inbox \in [Clients -> Cmds \cup {Nil}]
    /\ outbox \in [Clients -> Replies]
    /\ cst \in [Clients -> {"unconnected", "idle", "waiting", "closed"}]
    /\ sent \in [Clients -> Nat]
    /\ kv \in [Keys -> Vals \cup {Nil}]
    /\ Mutex!TypeOK

(* main: Scheduler sched(4), then sched.spawn(start_redis_server(...)),  *)
(* whose listener is bound and listening; no client has connected yet.   *)
(* A new thread's errno is 0.                                             *)
Init ==
    /\ platform \in Platforms
    /\ hpc = [t \in Tasks |-> IF t = Acceptor THEN "new" ELSE "unborn"]
    /\ on = [t \in Tasks |-> NoWorker]
    /\ errno = [w \in Workers |-> "other"]
    /\ gq = <<Acceptor>>
    /\ kreg = [t \in Tasks |-> "none"]
    /\ backlog = <<>>
    /\ req = [c \in Clients |-> Nil]
    /\ inbox = [c \in Clients |-> Nil]
    /\ outbox = [c \in Clients |-> Nil]
    /\ cst = [c \in Clients |-> "unconnected"]
    /\ sent = [c \in Clients |-> 0]
    /\ kv = [k \in Keys |-> Nil]
    /\ Mutex!Init

Busy(w) == \E t \in Tasks : on[t] = w

(* What ::read on the client fd returns now: a command, 0 after the     *)
(* peer's FIN, or -1 with EAGAIN.                                         *)
ReadResult(c) ==
    IF inbox[c] # Nil THEN "data" ELSE IF cst[c] = "closed" THEN "eof" ELSE "eagain"

-----------------------------------------------------------------------------
(* handle_client returns (co_return): ~AsyncSocket closes the fd, which  *)
(* also takes it out of the epoll interest list; the worker is free.     *)
Finish(c) ==
    /\ hpc' = [hpc EXCEPT ![c] = "done"]
    /\ on' = [on EXCEPT ![c] = NoWorker]
    /\ kreg' = [kreg EXCEPT ![c] = "none"]

(* n > 0: parse_resp and the branch on args[0].  PING and QUIT write     *)
(* their reply at once, and QUIT returns; SET, GET and DEL go on to      *)
(* co_await db.mutex.lock().                                              *)
Dispatch(c) ==
    LET cmd == inbox[c] IN
    /\ inbox' = [inbox EXCEPT ![c] = Nil]
    /\ req' = [req EXCEPT ![c] = IF cmd.op = "PING" THEN Nil ELSE cmd]
    /\ CASE cmd.op \in {"SET", "GET", "DEL"} ->
              /\ hpc' = [hpc EXCEPT ![c] = "lock"]
              /\ UNCHANGED <<on, kreg, outbox>>
         [] cmd.op = "PING" ->
              /\ outbox' = [outbox EXCEPT ![c] = "PONG"]
              /\ hpc' = [hpc EXCEPT ![c] = "read"]
              /\ UNCHANGED <<on, kreg>>
         [] OTHER ->
              /\ outbox' = [outbox EXCEPT ![c] = "OK"]
              /\ Finish(c)

AddRead(c, w, err) ==
    /\ kreg' = [kreg EXCEPT ![c] = "armed"]
    /\ errno' = IF platform = "epoll" /\ kreg[c] = "disarmed"
                THEN [err EXCEPT ![w] = "EEXIST"] ELSE err

(* co_await client.read(buf, sizeof(buf)): await_ready calls ::read.  A  *)
(* command is dispatched, 0 (FIN) ends handle_client, and -1 with EAGAIN *)
(* suspends: await_suspend registers the fd and the worker moves on.     *)
ReadReady(c) ==
    /\ hpc[c] = "read"
    /\ CASE ReadResult(c) = "data" ->
              Dispatch(c) /\ UNCHANGED errno
         [] ReadResult(c) = "eof" ->
              Finish(c) /\ UNCHANGED <<errno, inbox, req, outbox>>
         [] OTHER ->
              /\ AddRead(c, on[c], [errno EXCEPT ![on[c]] = "EAGAIN"])
              /\ hpc' = [hpc EXCEPT ![c] = "parked"]
              /\ on' = [on EXCEPT ![c] = NoWorker]
              /\ UNCHANGED <<inbox, req, outbox>>
    /\ UNCHANGED <<platform, backlog, gq, cst, sent, kv, mutexVars>>

(* The fd a parked task waits on is readable: a pending connection on    *)
(* the listening fd, bytes or the FIN on a client's.                     *)
Readable(t) ==
    IF t = Acceptor THEN backlog # <<>> ELSE ReadResult(t) # "eagain"

(* Mutant of Fire: only bytes wake a registration, not the peer's FIN.   *)
FireOnData(t) ==
    /\ hpc[t] = "parked" /\ kreg[t] = "armed"
    /\ IF t = Acceptor THEN backlog # <<>> ELSE ReadResult(t) = "data"
    /\ kreg' = [kreg EXCEPT ![t] = IF platform = "epoll" THEN "disarmed" ELSE "none"]
    /\ gq' = Append(gq, t)
    /\ hpc' = [hpc EXCEPT ![t] = "queued"]
    /\ UNCHANGED <<platform, backlog, on, errno, req, inbox, outbox, cst, sent, kv, mutexVars>>

(* Reactor::loop: the poller reports the fd readable (a command, or the *)
(* FIN through EPOLLRDHUP / EOF) and io_handler spawns the handle onto   *)
(* the global queue.  The one-shot event disarms an epoll registration   *)
(* and deletes a kqueue one.  The listening fd is served the same way.   *)
Fire(t) ==
    /\ hpc[t] = "parked" /\ kreg[t] = "armed" /\ Readable(t)
    /\ kreg' = [kreg EXCEPT ![t] = IF platform = "epoll" THEN "disarmed" ELSE "none"]
    /\ gq' = Append(gq, t)
    /\ hpc' = [hpc EXCEPT ![t] = "queued"]
    /\ UNCHANGED <<platform, backlog, on, errno, req, inbox, outbox, cst, sent, kv, mutexVars>>

(* Worker::run_once on an idle worker: pop_global, then Task::resume.    *)
(* The task goes on where it stopped: at its start (the accept loop or   *)
(* handle_client's first read), in the read's or accept's await_resume,  *)
(* or in LockAwaiter::await_resume owning the lock that unlock handed it. *)
Resume(w) ==
    /\ ~Busy(w) /\ gq # <<>>
    /\ LET c == Head(gq) IN
       /\ gq' = Tail(gq)
       /\ on' = [on EXCEPT ![c] = w]
       /\ CASE hpc[c] = "new" ->
                 /\ hpc' = [hpc EXCEPT ![c] = IF c = Acceptor THEN "accept" ELSE "read"]
                 /\ UNCHANGED mutexVars
            [] hpc[c] = "queued" ->
                 hpc' = [hpc EXCEPT ![c] = "resume"] /\ UNCHANGED mutexVars
            [] OTHER ->
                 Mutex!Resumed(c) /\ UNCHANGED hpc
    /\ UNCHANGED <<platform, backlog, errno, kreg, req, inbox, outbox, cst, sent, kv>>

(* AsyncReadAwaiter::await_resume on the worker that resumed the task:   *)
(* result_ is still -1, and ::read is retried only if this thread's      *)
(* errno is EAGAIN.  Otherwise -1 is returned, and so is 0 or -1 from    *)
(* the retry; handle_client takes n <= 0 for a disconnect.               *)
AwaitResume(c) ==
    /\ hpc[c] = "resume"
    /\ IF errno[on[c]] = "EAGAIN" /\ ReadResult(c) = "data"
       THEN Dispatch(c)
       ELSE Finish(c) /\ UNCHANGED <<inbox, req, outbox>>
    /\ UNCHANGED <<platform, backlog, errno, gq, cst, sent, kv, mutexVars>>

(* co_await db.mutex.lock(): LockAwaiter::await_ready, the fast path.    *)
LockFast(c) ==
    /\ hpc[c] = "lock"
    /\ Mutex!AwaitReady(c)
    /\ UNCHANGED <<platform, backlog, hpc, on, errno, gq, kreg, req, inbox, outbox, cst, sent, kv>>

(* LockAwaiter::await_suspend: take the lock after all, or queue in      *)
(* waiters_ and suspend, freeing the worker.  The handle is queued        *)
(* without a reference, so in the code run_once's Task drop destroys the  *)
(* waiter's frame here (the task_unowned run of TaskLifecycle).  This     *)
(* module keeps the frame alive: it checks the lock and socket protocol   *)
(* as handle_client means it, not the frame's lifetime.                   *)
LockSlow(c) ==
    /\ hpc[c] = "lock"
    /\ Mutex!AwaitSuspend(c)
    /\ on' = IF mpc'[c] = "waiting" THEN [on EXCEPT ![c] = NoWorker] ELSE on
    /\ UNCHANGED <<platform, backlog, hpc, errno, gq, kreg, req, inbox, outbox, cst, sent, kv>>

(* db.kv_store[key] = val, kv_store.erase(key), or nothing for GET.      *)
Store(cmd) ==
    CASE cmd.op = "SET" -> [kv EXCEPT ![cmd.key] = cmd.val]
      [] cmd.op = "DEL" -> [kv EXCEPT ![cmd.key] = Nil]
      [] OTHER          -> kv

(* +OK; $len value, or $-1 for a missing key; :count of keys erased.     *)
Response(cmd) ==
    CASE cmd.op = "SET" -> "OK"
      [] cmd.op = "GET" -> IF kv[cmd.key] = Nil THEN "$-1" ELSE kv[cmd.key]
      [] OTHER          -> IF kv[cmd.key] = Nil THEN ":0" ELSE ":1"

(* Inside the lock: the kv_store access of SET, GET or DEL; at the end   *)
(* of the block the guard's destructor runs AsyncMutex::unlock, which    *)
(* spawns the next waiter; then co_await client.write sends the reply.   *)
Apply(c) ==
    /\ hpc[c] = "lock" /\ mpc[c] = "cs"
    /\ kv' = Store(req[c])
    /\ outbox' = [outbox EXCEPT ![c] = Response(req[c])]
    /\ Mutex!Unlock(c)
    /\ gq' = gq \o SetToSeq({t \in Clients : mpc'[t] = "woken" /\ mpc[t] # "woken"})
    /\ req' = [req EXCEPT ![c] = Nil]
    /\ hpc' = [hpc EXCEPT ![c] = "read"]
    /\ UNCHANGED <<platform, backlog, on, errno, kreg, inbox, cst, sent>>

(* Worker::run_once finds no task and parks: the futex wait in          *)
(* Parker::park returns with errno EAGAIN when an unpark raced it, or    *)
(* EINTR on a signal.                                                     *)
Park(w) ==
    /\ ~Busy(w) /\ gq = <<>>
    /\ \E e \in {"EAGAIN", "other"} \ {errno[w]} : errno' = [errno EXCEPT ![w] = e]
    /\ UNCHANGED <<platform, backlog, hpc, on, gq, kreg, req, inbox, outbox, cst, sent, kv, mutexVars>>

-----------------------------------------------------------------------------
(* The accept loop of start_redis_server.                                 *)

(* accept() returned a connection: AsyncSocket wraps it and               *)
(* sched.spawn(handle_client(...)) pushes the new task onto the global    *)
(* queue; the loop goes straight on to the next accept() on this worker. *)
Spawn ==
    LET c == Head(backlog) IN
    /\ backlog' = Tail(backlog)
    /\ hpc' = [hpc EXCEPT ![c] = "new", ![Acceptor] = "accept"]
    /\ gq' = Append(gq, c)

(* co_await listener.accept(): AsyncAcceptAwaiter::await_ready calls      *)
(* ::accept.  A pending connection is spawned; -1 with EAGAIN suspends:   *)
(* await_suspend registers the listening fd through add_read.            *)
AcceptReady ==
    /\ hpc[Acceptor] = "accept"
    /\ IF backlog # <<>>
       THEN Spawn /\ UNCHANGED <<on, errno, kreg>>
       ELSE /\ AddRead(Acceptor, on[Acceptor], [errno EXCEPT ![on[Acceptor]] = "EAGAIN"])
            /\ hpc' = [hpc EXCEPT ![Acceptor] = "parked"]
            /\ on' = [on EXCEPT ![Acceptor] = NoWorker]
            /\ UNCHANGED <<gq, backlog>>
    /\ UNCHANGED <<platform, req, inbox, outbox, cst, sent, kv, mutexVars>>

(* Mutant of AcceptResume: a failed accept ends the loop, as a failed    *)
(* read ends handle_client.                                               *)
AcceptResumeExit ==
    /\ hpc[Acceptor] = "resume"
    /\ IF errno[on[Acceptor]] = "EAGAIN" /\ backlog # <<>>
       THEN Spawn /\ UNCHANGED on
       ELSE /\ hpc' = [hpc EXCEPT ![Acceptor] = "done"]
            /\ on' = [on EXCEPT ![Acceptor] = NoWorker]
            /\ UNCHANGED <<gq, backlog>>
    /\ UNCHANGED <<platform, errno, kreg, req, inbox, outbox, cst, sent, kv, mutexVars>>

(* AsyncAcceptAwaiter::await_resume on the worker that resumed the task: *)
(* ::accept is retried only if this thread's errno is EAGAIN; otherwise  *)
(* client_fd_ stays -1, CoAccept returns AsyncSocket(-1), and the loop    *)
(* spawns a handle_client whose first read fails on fd -1 (EBADF) and     *)
(* returns at once, touching nothing (that task is not modelled).  The   *)
(* pending connection stays in the listen queue for the next accept().   *)
AcceptResume ==
    /\ hpc[Acceptor] = "resume"
    /\ IF errno[on[Acceptor]] = "EAGAIN" /\ backlog # <<>>
       THEN Spawn
       ELSE /\ hpc' = [hpc EXCEPT ![Acceptor] = "accept"]
            /\ UNCHANGED <<gq, backlog>>
    /\ UNCHANGED <<platform, on, errno, kreg, req, inbox, outbox, cst, sent, kv, mutexVars>>

-----------------------------------------------------------------------------
(* The client connects: the kernel completes the handshake and queues   *)
(* the connection on the listening socket until accept() takes it.  The  *)
(* client may send, or close, before that.                                *)
Connect(c) ==
    /\ cst[c] = "unconnected"
    /\ cst' = [cst EXCEPT ![c] = "idle"]
    /\ backlog' = Append(backlog, c)
    /\ UNCHANGED <<platform, hpc, on, errno, gq, kreg, req, inbox, outbox, sent, kv, mutexVars>>

(* The client (redis-cli): send one command and wait for its reply.     *)
Send(c, cmd) ==
    /\ cst[c] = "idle" /\ sent[c] < MaxSends[c]
    /\ inbox' = [inbox EXCEPT ![c] = cmd]
    /\ cst' = [cst EXCEPT ![c] = "waiting"]
    /\ sent' = [sent EXCEPT ![c] = @ + 1]
    /\ UNCHANGED <<platform, backlog, hpc, on, errno, gq, kreg, req, outbox, kv, mutexVars>>

(* The client reads the reply; after QUIT's +OK it closes.               *)
Receive(c) ==
    /\ outbox[c] # Nil
    /\ outbox' = [outbox EXCEPT ![c] = Nil]
    /\ cst' = [cst EXCEPT ![c] = IF req[c] # Nil /\ req[c].op = "QUIT" THEN "closed" ELSE "idle"]
    /\ UNCHANGED <<platform, backlog, hpc, on, errno, gq, kreg, req, inbox, sent, kv, mutexVars>>

(* The client closes its end between commands (FIN).                     *)
Close(c) ==
    /\ cst[c] = "idle"
    /\ cst' = [cst EXCEPT ![c] = "closed"]
    /\ UNCHANGED <<platform, backlog, hpc, on, errno, gq, kreg, req, inbox, outbox, sent, kv, mutexVars>>

(* The server closed the socket with no reply: the client reads EOF.     *)
Gone(c) ==
    /\ cst[c] = "waiting" /\ hpc[c] = "done" /\ outbox[c] = Nil
    /\ cst' = [cst EXCEPT ![c] = "closed"]
    /\ UNCHANGED <<platform, backlog, hpc, on, errno, gq, kreg, req, inbox, outbox, sent, kv, mutexVars>>

Next ==
    \/ \E c \in Clients :
          \/ ReadReady(c) \/ AwaitResume(c)
          \/ LockFast(c) \/ LockSlow(c) \/ Apply(c)
          \/ Connect(c) \/ \E cmd \in Cmds : Send(c, cmd)
          \/ Receive(c) \/ Close(c) \/ Gone(c)
    \/ \E t \in Tasks : Fire(t)
    \/ AcceptReady \/ AcceptResume
    \/ \E w \in Workers : Resume(w) \/ Park(w)

(* A read that finds the socket empty and suspends.                      *)
ReadWouldBlock(c) == ReadReady(c) /\ ReadResult(c) = "eagain"

(* Worker threads and the reactor thread are scheduled by the OS: every  *)
(* step of a running handler, every ready fd's event and every pop of a  *)
(* spawned task by an idle worker is eventually taken.  What the clients *)
(* send, and when they close, is theirs to choose, with one assumption:  *)
(* handle_client yields its worker only when a read would block, and a   *)
(* client whose next command is always there first keeps the worker      *)
(* forever (spec section 9 accepts that a task that never suspends       *)
(* starves its worker).  So a handler that is infinitely often about to  *)
(* find its socket empty eventually does (strong fairness).              *)
Fairness ==
    /\ \A c \in Clients :
          /\ WF_vars(ReadReady(c)) /\ WF_vars(AwaitResume(c))
          /\ WF_vars(LockFast(c)) /\ WF_vars(LockSlow(c)) /\ WF_vars(Apply(c))
          /\ SF_vars(ReadWouldBlock(c))
    /\ \A t \in Tasks : WF_vars(Fire(t))
    /\ WF_vars(AcceptReady) /\ WF_vars(AcceptResume)
    /\ \A w \in Workers : WF_vars(Resume(w))

Spec == Init /\ [][Next]_vars /\ Fairness

-----------------------------------------------------------------------------
(* db.mutex under its one user: mutual exclusion with baton passing, a   *)
(* handler queued behind the lock eventually gets it, and the lock is    *)
(* handed in FIFO order, while handlers also suspend on reads and a      *)
(* woken waiter queues in the global queue behind read-ready handlers.   *)
BatonExclusive == Mutex!BatonExclusive
FifoLockRefinement == Mutex!FifoLockRefinement

ConnectionReleased ==
    \A c \in Clients : cst[c] = "closed" ~> hpc[c] = "done"

(* Every connection a client opens is eventually accepted and given its  *)
(* own handle_client: the listening fd's one-shot registration is        *)
(* re-armed on each suspension (EEXIST -> MOD on epoll), and an accept   *)
(* whose await_resume sees a foreign errno and returns -1 leaves the      *)
(* connection queued for the next turn of the loop.                       *)
EveryConnectionAccepted ==
    \A c \in Clients : cst[c] # "unconnected" ~> hpc[c] # "unborn"

(* handle_client gives up a connection only when the client closed it   *)
(* or sent QUIT.  Spec 4.10: after EAGAIN the read suspends until the fd *)
(* is ready, and spec 6: its result matches what POSIX read returns, so  *)
(* a read woken by a ready socket returns the command or 0.               *)
NoSpuriousDisconnect ==
    \A c \in Clients :
        hpc[c] = "done" => (cst[c] = "closed" \/ (req[c] # Nil /\ req[c].op = "QUIT"))
=============================================================================
