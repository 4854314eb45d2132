SPECIFICATION Spec
CONSTANTS
    Workers = {1, 2, 3}
    Messages = {1}
    None = None
    MaxTime = 1
    MaxFaults = 2
INVARIANTS
    TypeOK
    AckedIsAttributed
    OneStampPerSoleAcker
    OneHolderUnlessCrossed
    NotStranded
CHECK_DEADLOCK FALSE
