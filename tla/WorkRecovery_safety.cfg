SPECIFICATION Spec
CONSTANTS
    Polecats = {p1, p2}
    Deacon = deacon
    Feeder = feeder
    None = None
    MaxAttempts = 1
    MaxEvents = 1
SYMMETRY Symmetric
INVARIANTS
    TypeOK
PROPERTIES
    WorkSurvives
CHECK_DEADLOCK FALSE
