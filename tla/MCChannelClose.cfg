CONSTANTS
    s1 = s1
    s2 = s2
    r1 = r1
    r2 = r2
    None = None
    Senders <- MCSenders
    Receivers <- MCReceivers
    NumMsgs = 2
    Capacities = {0, 1}
SPECIFICATION Spec


INVARIANT AckedIsDelivered
