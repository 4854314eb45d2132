SPECIFICATION FairSpec
CONSTANTS
    Nudges = {n1, n2}
    Drainers = {d1}
    None = None
    MaxQueueDepth = 1
    StaleClaim = 1
    NormalTTL = 1
    UrgentTTL = 4
    MaxTime = 3
    MaxFaults = 2
PROPERTIES
    EventuallyResolved
CHECK_DEADLOCK FALSE
