SPECIFICATION Spec
CONSTANTS
    i1 = i1
    i2 = i2
    r1 = r1
    r2 = r2
    Issues = {i1, i2}
    Rigs = {r1, r2}
    Convoys = {c1}
    None = None
    RigOf <- OwnRig
    Blockers <- FirstBlocksSecond
    MaxFaults = 1
    MaxDeaths = 1
    MaxRestarts = 1
    MaxAdds = 1
    MaxParks = 1
INVARIANTS
    TypeOK
    NoLostCompletion
CHECK_DEADLOCK FALSE
