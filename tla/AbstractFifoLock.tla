-------------------------- MODULE AbstractFifoLock --------------------------
(***************************************************************************)
(* What AsyncMutex promises (spec 4.8 and section 8, property 2): one      *)
(* owner at a time; a caller that finds the lock taken joins the back of   *)
(* a queue; release hands the lock to the front of the queue, or frees it  *)
(* when nobody waits.  Nobody takes a free lock past a waiting queue.      *)
(***************************************************************************)
EXTENDS Sequences

CONSTANTS Tasks, NoOwner

VARIABLES owner, queue

lvars == <<owner, queue>>

Init ==
    /\ owner = NoOwner
    /\ queue = <<>>

Acquire(t) ==
    /\ owner = NoOwner /\ queue = <<>>
    /\ owner' = t
    /\ UNCHANGED queue

Enqueue(t) ==
    /\ owner # NoOwner /\ owner # t
    /\ queue' = Append(queue, t)
    /\ UNCHANGED owner

Release(t) ==
    /\ owner = t
    /\ IF queue = <<>>
       THEN owner' = NoOwner /\ UNCHANGED queue
       ELSE owner' = Head(queue) /\ queue' = Tail(queue)

Next == \E t \in Tasks : Acquire(t) \/ Enqueue(t) \/ Release(t)

Spec == Init /\ [][Next]_lvars
=============================================================================
