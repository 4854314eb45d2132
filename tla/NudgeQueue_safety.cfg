SPECIFICATION Spec
CONSTANTS
    Nudges = {n1, n2}
    Drainers = {d1, d2}
    None = None
    MaxQueueDepth = 1
    StaleClaim = 1
    NormalTTL = 1
    UrgentTTL = 2
    MaxTime = 2
    MaxFaults = 1
SYMMETRY Symmetric
INVARIANTS
    TypeOK
    OneFilePerNudge
    NoSilentLoss
    AtMostOnceWhileFresh
CHECK_DEADLOCK FALSE
