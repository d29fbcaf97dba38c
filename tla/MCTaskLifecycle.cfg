\* Reference counting of a task that suspends in the reactor's read/accept
\* awaiters, the ones whose await_suspend takes a reference.
CONSTANTS
    w1 = w1
    w2 = w2
    t1 = t1
    t2 = t2
    NoTask = NoTask
    Workers <- MCWorkers
    Tasks <- MCTasks
    Kinds = {"read", "accept"}
    MaxAwaits = 2

SPECIFICATION Spec

INVARIANT TypeOK
INVARIANT RefCountMatchesOwners
INVARIANT NoDanglingReference
