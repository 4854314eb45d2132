SPECIFICATION Spec
CONSTANTS
    Polecats = {p1}
    Deacon = deacon
    Feeder = feeder
    None = None
    MaxAttempts = 1
    MaxEvents = 2
PROPERTIES
    DeadIsRecovered
CHECK_DEADLOCK FALSE
