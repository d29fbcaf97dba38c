---------------------------- MODULE MCMiniRedis ----------------------------
(* Two connections and two worker threads: one handler can hold db.mutex *)
(* while the other queues behind it, and a task suspended on one thread  *)
(* can be resumed on the other.  One key and one value.  Each client     *)
(* connects through the acceptor and sends one command; the read after   *)
(* it re-arms a registration the one-shot event disarmed.                *)
EXTENDS MiniRedis, TLC

CONSTANTS c1, c2, acc, w1, w2, k1, v1, none, nil

MCClients == {c1, c2}
MCWorkers == {w1, w2}

MCMaxSends == (c1 :> 1) @@ (c2 :> 1)

MCCmds ==
    {[op |-> "SET", key |-> k1, val |-> v1],
     [op |-> "GET", key |-> k1, val |-> nil],
     [op |-> "DEL", key |-> k1, val |-> nil],
     [op |-> "PING", key |-> nil, val |-> nil],
     [op |-> "QUIT", key |-> nil, val |-> nil]}
=============================================================================
