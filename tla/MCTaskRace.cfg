\* A waker that spawns the task while the suspending worker is still inside
\* Task::resume: the second worker's CAS on is_running fails and it drops the task.
CONSTANTS
    w1 = w1
    w2 = w2
    t1 = t1
    t2 = t2
    NoTask = NoTask
    Workers <- MCWorkers
    Tasks <- MCTasks
    Kinds = {"read", "accept"}
    MaxAwaits = 2

SPECIFICATION Spec

INVARIANT DestroyedOnlyWhenDone
