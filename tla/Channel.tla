------------------------------ MODULE Channel ------------------------------
(***************************************************************************)
(* Channel<T> of include/channel.h: a bounded buffer (capacity 0 is        *)
(* unbuffered), a FIFO of suspended senders (each with a pointer to the    *)
(* value it sends), a FIFO of suspended receivers (each with a pointer to  *)
(* its result slot), a closed_ flag, all under one mutex, so each          *)
(* await_suspend and close() is one atomic step.  A woken task resumes    *)
(* later, when a worker picks it up (SenderResumed, ReceiverResumed).      *)
(*                                                                         *)
(* Sender s sends <<s, 1>>, <<s, 2>>, ... and stops at the first failed    *)
(* send; receivers call recv() until it yields none.                       *)
(***************************************************************************)
EXTENDS Naturals, Sequences, SequencesExt

CONSTANTS
    Senders,      \* producer tasks (model values)
    Receivers,    \* consumer tasks (model values)
    NumMsgs,      \* values each sender sends
    Capacities,   \* capacities the channel may be built with
    None          \* model value: std::nullopt

Values == Senders \X (1 .. NumMsgs)

VARIABLES
    capacity,   \* Channel::capacity_ (fixed at construction)
    buffer,     \* Channel::buffer_
    sendq,      \* Channel::send_waiters_ (the value is the sender's Msg)
    recvq,      \* Channel::recv_waiters_
    closed,     \* Channel::closed_
    spc,        \* sender: idle | waiting | woken | done
    next,       \* index of the value a sender is sending
    rpc,        \* receiver: idle | waiting | woken | done
    slot,       \* RecvAwaiter::result of each receiver
    delivered,  \* values handed to receivers, in order (history)
    acked       \* values whose send() returned true (history)

vars == <<capacity, buffer, sendq, recvq, closed, spc, next, rpc, slot, delivered, acked>>

Msg(s) == <<s, next[s]>>

TypeOK ==
    /\ capacity \in Capacities
    /\ buffer \in Seq(Values)
    /\ sendq \in Seq(Senders)
    /\ recvq \in Seq(Receivers)
    /\ closed \in BOOLEAN
    /\ spc \in [Senders -> {"idle", "waiting", "woken", "done"}]
    /\ next \in [Senders -> 1 .. NumMsgs + 1]
    /\ rpc \in [Receivers -> {"idle", "waiting", "woken", "done"}]
    /\ slot \in [Receivers -> Values \cup {None}]
    /\ delivered \in Seq(Values)
    /\ acked \subseteq Values

Init ==
    /\ capacity \in Capacities
    /\ buffer = <<>>
    /\ sendq = <<>>
    /\ recvq = <<>>
    /\ closed = FALSE
    /\ spc = [s \in Senders |-> "idle"]
    /\ next = [s \in Senders |-> 1]
    /\ rpc = [r \in Receivers |-> "idle"]
    /\ slot = [r \in Receivers |-> None]
    /\ delivered = <<>>
    /\ acked = {}

-----------------------------------------------------------------------------
(* send() returned true: the sender moves on to its next value.           *)
SendDone(s) ==
    /\ acked' = acked \cup {Msg(s)}
    /\ next' = [next EXCEPT ![s] = @ + 1]

(* Mutant of Send: room in the buffer is tried before the waiting        *)
(* receivers (steps 1 and 2 swapped).                                     *)
SendBufferFirst(s) ==
    /\ spc[s] = "idle" /\ next[s] <= NumMsgs
    /\ \/ /\ closed
          /\ spc' = [spc EXCEPT ![s] = "done"]
          /\ UNCHANGED <<buffer, sendq, recvq, next, rpc, slot, delivered, acked>>
       \/ /\ ~closed /\ Len(buffer) < capacity
          /\ buffer' = Append(buffer, Msg(s))
          /\ SendDone(s)
          /\ UNCHANGED <<sendq, recvq, spc, rpc, slot, delivered>>
       \/ /\ ~closed /\ Len(buffer) >= capacity /\ recvq # <<>>
          /\ slot' = [slot EXCEPT ![Head(recvq)] = Msg(s)]
          /\ rpc' = [rpc EXCEPT ![Head(recvq)] = "woken"]
          /\ recvq' = Tail(recvq)
          /\ delivered' = Append(delivered, Msg(s))
          /\ SendDone(s)
          /\ UNCHANGED <<buffer, sendq, spc>>
       \/ /\ ~closed /\ recvq = <<>> /\ Len(buffer) >= capacity
          /\ sendq' = Append(sendq, s)
          /\ spc' = [spc EXCEPT ![s] = "waiting"]
          /\ UNCHANGED <<buffer, recvq, next, rpc, slot, delivered, acked>>
    /\ UNCHANGED <<capacity, closed>>

(* SendAwaiter::await_suspend.  0: closed, fail without suspending;       *)
(* 1: hand the value to the first waiting receiver and spawn it;          *)
(* 2: room in the buffer, enqueue; 3: queue the sender and suspend.        *)
Send(s) ==
    /\ spc[s] = "idle" /\ next[s] <= NumMsgs
    /\ \/ /\ closed
          /\ spc' = [spc EXCEPT ![s] = "done"]
          /\ UNCHANGED <<buffer, sendq, recvq, next, rpc, slot, delivered, acked>>
       \/ /\ ~closed /\ recvq # <<>>
          /\ slot' = [slot EXCEPT ![Head(recvq)] = Msg(s)]
          /\ rpc' = [rpc EXCEPT ![Head(recvq)] = "woken"]
          /\ recvq' = Tail(recvq)
          /\ delivered' = Append(delivered, Msg(s))
          /\ SendDone(s)
          /\ UNCHANGED <<buffer, sendq, spc>>
       \/ /\ ~closed /\ recvq = <<>> /\ Len(buffer) < capacity
          /\ buffer' = Append(buffer, Msg(s))
          /\ SendDone(s)
          /\ UNCHANGED <<sendq, recvq, spc, rpc, slot, delivered>>
       \/ /\ ~closed /\ recvq = <<>> /\ Len(buffer) >= capacity
          /\ sendq' = Append(sendq, s)
          /\ spc' = [spc EXCEPT ![s] = "waiting"]
          /\ UNCHANGED <<buffer, recvq, next, rpc, slot, delivered, acked>>
    /\ UNCHANGED <<capacity, closed>>

(* The first waiting sender is spawned; its value has been taken.         *)
ReleaseSender ==
    /\ spc' = [spc EXCEPT ![Head(sendq)] = "woken"]
    /\ sendq' = Tail(sendq)

(* Mutant of Recv: the waiting sender is served before the buffer.        *)
RecvSenderFirst(r) ==
    /\ rpc[r] = "idle"
    /\ \/ /\ sendq # <<>>
          /\ delivered' = Append(delivered, Msg(Head(sendq)))
          /\ ReleaseSender
          /\ UNCHANGED <<buffer, recvq, rpc>>
       \/ /\ sendq = <<>> /\ buffer # <<>>
          /\ delivered' = Append(delivered, Head(buffer))
          /\ buffer' = Tail(buffer)
          /\ UNCHANGED <<sendq, recvq, spc, rpc>>
       \/ /\ buffer = <<>> /\ sendq = <<>> /\ closed
          /\ rpc' = [rpc EXCEPT ![r] = "done"]
          /\ UNCHANGED <<buffer, sendq, recvq, spc, delivered>>
       \/ /\ buffer = <<>> /\ sendq = <<>> /\ ~closed
          /\ recvq' = Append(recvq, r)
          /\ rpc' = [rpc EXCEPT ![r] = "waiting"]
          /\ UNCHANGED <<buffer, sendq, spc, delivered>>
    /\ UNCHANGED <<capacity, closed, next, slot, acked>>

(* Mutant of Recv: closed_ is tested before the buffer.                   *)
RecvClosedFirst(r) ==
    /\ rpc[r] = "idle"
    /\ \/ /\ closed
          /\ rpc' = [rpc EXCEPT ![r] = "done"]
          /\ UNCHANGED <<buffer, sendq, recvq, spc, delivered>>
       \/ /\ ~closed /\ buffer # <<>>
          /\ delivered' = Append(delivered, Head(buffer))
          /\ IF sendq # <<>>
             THEN /\ buffer' = Append(Tail(buffer), Msg(Head(sendq)))
                  /\ ReleaseSender
             ELSE /\ buffer' = Tail(buffer)
                  /\ UNCHANGED <<sendq, spc>>
          /\ UNCHANGED <<recvq, rpc>>
       \/ /\ ~closed /\ buffer = <<>> /\ sendq # <<>>
          /\ delivered' = Append(delivered, Msg(Head(sendq)))
          /\ ReleaseSender
          /\ UNCHANGED <<buffer, recvq, rpc>>
       \/ /\ ~closed /\ buffer = <<>> /\ sendq = <<>>
          /\ recvq' = Append(recvq, r)
          /\ rpc' = [rpc EXCEPT ![r] = "waiting"]
          /\ UNCHANGED <<buffer, sendq, spc, delivered>>
    /\ UNCHANGED <<capacity, closed, next, slot, acked>>

(* RecvAwaiter::await_suspend.  1: take the buffer's head and, if a      *)
(* sender waits, move its value into the freed slot and spawn it;        *)
(* 2: empty buffer, take a waiting sender's value directly and spawn it; *)
(* 3: closed, yield none; 4: queue the receiver and suspend.              *)
Recv(r) ==
    /\ rpc[r] = "idle"
    /\ \/ /\ buffer # <<>>
          /\ delivered' = Append(delivered, Head(buffer))
          /\ IF sendq # <<>>
             THEN /\ buffer' = Append(Tail(buffer), Msg(Head(sendq)))
                  /\ ReleaseSender
             ELSE /\ buffer' = Tail(buffer)
                  /\ UNCHANGED <<sendq, spc>>
          /\ UNCHANGED <<recvq, rpc>>
       \/ /\ buffer = <<>> /\ sendq # <<>>
          /\ delivered' = Append(delivered, Msg(Head(sendq)))
          /\ ReleaseSender
          /\ UNCHANGED <<buffer, recvq, rpc>>
       \/ /\ buffer = <<>> /\ sendq = <<>> /\ closed
          /\ rpc' = [rpc EXCEPT ![r] = "done"]
          /\ UNCHANGED <<buffer, sendq, recvq, spc, delivered>>
       \/ /\ buffer = <<>> /\ sendq = <<>> /\ ~closed
          /\ recvq' = Append(recvq, r)
          /\ rpc' = [rpc EXCEPT ![r] = "waiting"]
          /\ UNCHANGED <<buffer, sendq, spc, delivered>>
    /\ UNCHANGED <<capacity, closed, next, slot, acked>>

(* Channel::close (also run by ~Channel): set closed_, spawn every waiting *)
(* sender, then every waiting receiver with its result set to nullopt.    *)
(* Nothing on this path touches a sender's SendAwaiter::result.           *)
Close ==
    /\ ~closed
    /\ closed' = TRUE
    /\ spc' = [s \in Senders |-> IF s \in ToSet(sendq) THEN "woken" ELSE spc[s]]
    /\ rpc' = [r \in Receivers |-> IF r \in ToSet(recvq) THEN "woken" ELSE rpc[r]]
    /\ slot' = [r \in Receivers |-> IF r \in ToSet(recvq) THEN None ELSE slot[r]]
    /\ sendq' = <<>>
    /\ recvq' = <<>>
    /\ UNCHANGED <<capacity, buffer, next, delivered, acked>>

(* A worker resumes a spawned sender: SendAwaiter::await_resume returns   *)
(* result, which is still its initial true.                               *)
SenderResumed(s) ==
    /\ spc[s] = "woken"
    /\ spc' = [spc EXCEPT ![s] = "idle"]
    /\ SendDone(s)
    /\ UNCHANGED <<capacity, buffer, sendq, recvq, closed, rpc, slot, delivered>>

(* A worker resumes a spawned receiver: await_resume returns its slot;    *)
(* none ends the receiving loop.                                          *)
ReceiverResumed(r) ==
    /\ rpc[r] = "woken"
    /\ rpc' = [rpc EXCEPT ![r] = IF slot[r] = None THEN "done" ELSE "idle"]
    /\ slot' = [slot EXCEPT ![r] = None]
    /\ UNCHANGED <<capacity, buffer, sendq, recvq, closed, spc, next, delivered, acked>>

(* Every sender has sent its values or given up, and every receiver has  *)
(* seen none.                                                             *)
Finished ==
    /\ \A s \in Senders : spc[s] = "done" \/ (spc[s] = "idle" /\ next[s] > NumMsgs)
    /\ \A r \in Receivers : rpc[r] = "done"
    /\ UNCHANGED vars

Next ==
    \/ \E s \in Senders : Send(s) \/ SenderResumed(s)
    \/ \E r \in Receivers : Recv(r) \/ ReceiverResumed(r)
    \/ Close
    \/ Finished

(* Receivers keep calling recv() until it yields none; spawned tasks are  *)
(* resumed by the scheduler.  Senders and close() are the application's.  *)
Fairness ==
    /\ \A r \in Receivers : WF_vars(Recv(r)) /\ WF_vars(ReceiverResumed(r))
    /\ \A s \in Senders : WF_vars(SenderResumed(s))

Spec == Init /\ [][Next]_vars /\ Fairness

-----------------------------------------------------------------------------
(* Spec section 8, property 3: |buffer| <= capacity, no receiver waits   *)
(* while the buffer holds a value, and no sender waits while the buffer   *)
(* has room.                                                              *)
ChannelShape ==
    /\ Len(buffer) <= capacity
    /\ ~(buffer # <<>> /\ recvq # <<>>)
    /\ ~(Len(buffer) < capacity /\ sendq # <<>>)

(* Values of one sender reach receivers once each and in the order they  *)
(* were sent, through the buffer, the direct hand-offs and the chained   *)
(* move of a waiting sender's value into the freed slot.                  *)
FifoPerSender ==
    \A s \in Senders :
        LET mine == SelectSeq(delivered, LAMBDA v : v[1] = s)
        IN  mine = [i \in 1 .. Len(mine) |-> <<s, i>>]

(* A value that made it into the buffer is eventually received, also    *)
(* when the channel is closed meanwhile (recv drains before it reports   *)
(* closed).                                                               *)
BufferedIsReceived ==
    \A v \in Values : (v \in ToSet(buffer)) ~> (v \in ToSet(delivered))

(* Spec 4.9 and section 8: a send that reports success has delivered its *)
(* value: it was handed to a receiver or sits in the buffer.             *)
AckedIsDelivered ==
    \A v \in acked : v \in ToSet(delivered) \/ v \in ToSet(buffer)
=============================================================================
