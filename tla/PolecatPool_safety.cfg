SPECIFICATION Spec
CONSTANTS
    Slings = {p1, p2, p3}
    Nukers = {k1}
    None = None
    PoolSize = 1
    MaxName = 3
    MaxCrashes = 1
SYMMETRY Symmetric
INVARIANTS
    TypeOK
    ReservedOnce
    SpawnIntact
CHECK_DEADLOCK FALSE
