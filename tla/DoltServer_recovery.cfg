SPECIFICATION Spec
CONSTANTS
    Callers = {c1, c2}
    Pids = {1, 2, 3, 4}
    None = None
    MaxRestarts = 2
    Window = 2
    RestartDelay = 1
    MaxDelay = 1
    HealthyReset = 1
    MaxFaults = 2
    MaxCommands = 1
INVARIANTS
    TypeOK
    RestartCap
    NoOrphan
PROPERTIES
    Recovers
CHECK_DEADLOCK FALSE
