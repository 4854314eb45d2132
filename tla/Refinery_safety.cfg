SPECIFICATION Spec
CONSTANTS
    MRs = {m1, m2}
    Others = {o1}
    Fixups = {f1}
    None = None
    MaxTasks = 2
    MaxFlakes = 0
    MaxOutages = 1
SYMMETRY Symmetric
INVARIANTS
    TypeOK
    ClosedMeansLanded
    NoStrandedCommit
    NoMergeDuringResolution
CHECK_DEADLOCK FALSE
