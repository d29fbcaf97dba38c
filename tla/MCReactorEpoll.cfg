\* The epoll Poller: the eventfd's event reaches io_handler as a task.
CONSTANTS
    s1 = s1
    s2 = s2
    r1 = r1
    wakefd = wakefd
    WakeFd = wakefd
    Sleepers <- MCSleepers
    Readers <- MCReaders
    Delays <- MCDelays
    MaxSleeps = 1
    MaxReads = 2
    MaxTime = 2
    Platforms = {"epoll"}

SPECIFICATION Spec

INVARIANT SelfWakeSilent
