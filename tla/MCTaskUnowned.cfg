\* AsyncSleep, LockAwaiter and the channel awaiters publish the handle without
\* taking a reference; the suspending worker then drops the last one.
CONSTANTS
    w1 = w1
    w2 = w2
    t1 = t1
    t2 = t2
    NoTask = NoTask
    Workers <- MCWorkers
    Tasks <- MCTasks
    Kinds = {"read", "sleep", "lock", "send", "recv"}
    MaxAwaits = 2

SPECIFICATION Spec

INVARIANT NoDanglingReference
