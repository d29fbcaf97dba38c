\* handle_client over the read awaiter, the one-shot poller, the global
\* queue and db.mutex, on both Poller builds.
CONSTANTS
    c1 = c1
    c2 = c2
    acc = acc
    w1 = w1
    w2 = w2
    k1 = k1
    v1 = v1
    none = none
    nil = nil
    Clients <- MCClients
    Workers <- MCWorkers
    Keys = {k1}
    Vals = {v1}
    Cmds <- MCCmds
    Platforms = {"epoll", "kqueue"}
    MaxSends <- MCMaxSends
    Acceptor = acc
    NoWorker = none
    Nil = nil

SPECIFICATION Spec

INVARIANT BatonExclusive

PROPERTY FifoLockRefinement
 
PROPERTY ConnectionReleased
PROPERTY EveryConnectionAccepted
