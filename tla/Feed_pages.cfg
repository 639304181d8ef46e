SPECIFICATION Spec
CONSTANTS
    m1 = m1
    MaxPost = 3
    Mine = {3}
    Message = {m1}
    PageLimit = 1
    DeltaLimit = 1
    Mixes <- TheMixes
    MaxTime = 2
    MaxWrites = 2
    MaxTurns = 1
    MaxLoads = 4
    MaxFaults = 1
    None = None
CHECK_DEADLOCK FALSE
INVARIANTS
    TypeOK
    DeltaComplete
    FeedIsWhole
