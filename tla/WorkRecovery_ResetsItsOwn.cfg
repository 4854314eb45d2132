SPECIFICATION Spec
CONSTANTS
    Polecats = {p1, p2}
    Deacon = deacon
    Feeder = feeder
    None = None
    MaxAttempts = 1
    MaxEvents = 2
SYMMETRY Symmetric
PROPERTIES
    ResetsItsOwn
CHECK_DEADLOCK FALSE
