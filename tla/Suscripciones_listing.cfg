SPECIFICATION FairSpec
CONSTANTS
    ana = ana    beto = beto    nequi1 = nequi1    efectivo = efectivo
    a1 = a1    a2 = a2    j1 = j1    j2 = j2
    User = {ana, beto}
    Payment = {nequi1, efectivo}
    PayUser <- MCPayUser
    Anonymous = {efectivo}
    Admin = {a1, a2}
    Job = {j1, j2}
    Period = 1
    Grace = 1
    Before = 1
    MaxTime = 4
    MaxSubmits = 2
    MaxFaults = 1
    Starts <- MCStarts
    None = None
CHECK_DEADLOCK FALSE
INVARIANTS
    TypeOK
    PaidOnce
    AloneIsExact
    NoticesAreTrue
PROPERTIES
    LapseIsTold
