\* Timers, one-shot readiness and stop, on both Poller builds.
CONSTANTS
    s1 = s1
    s2 = s2
    r1 = r1
    wakefd = wakefd
    WakeFd = wakefd
    Sleepers <- MCSleepers
    Readers <- MCReaders
    Delays <- MCDelays
    MaxSleeps = 1
    MaxReads = 2
    MaxTime = 2
    Platforms = {"epoll", "kqueue"}

SPECIFICATION Spec

INVARIANT TypeOK
INVARIANT ExactlyOnceWake

PROPERTY DueTimerFires
PROPERTY ReadinessDelivered
PROPERTY StopJoins
