\* Wake-up protocol of spawn / park / unpark, and shutdown.
CONSTANTS
    t1 = t1
    t2 = t2
    NoTask = NoTask
    Tasks <- MCTasks
    NumWorkers = 2
    SpinTries = 1
    MaxSuspends = 1

SPECIFICATION Spec

INVARIANT TypeOK
INVARIANT NoLostWakeup

PROPERTY SpawnedTaskRuns
PROPERTY ShutdownJoins
