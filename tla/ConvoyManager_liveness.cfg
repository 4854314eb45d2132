SPECIFICATION FairSpec
CONSTANTS
    i1 = i1
    i2 = i2
    r1 = r1
    r2 = r2
    Issues = {i1, i2}
    Rigs = {r1, r2}
    Convoys = {c1}
    None = None
    RigOf <- OwnRig
    Blockers <- FirstBlocksSecond
    MaxFaults = 0
    MaxDeaths = 1
    MaxRestarts = 1
    MaxAdds = 0
    MaxParks = 0
PROPERTIES
    CompletedIsClosed
    ReadyIsFed
CHECK_DEADLOCK FALSE
