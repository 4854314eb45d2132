SPECIFICATION FairSpec
CONSTANTS
    MRs = {m1, m2}
    Others = {}
    Fixups = {f1}
    None = None
    MaxTasks = 4
    MaxFlakes = 1
    MaxOutages = 0
PROPERTIES
    EventuallyClosed
    ImplementsMergeQueue
CHECK_DEADLOCK FALSE
