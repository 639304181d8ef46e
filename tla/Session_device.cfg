SPECIFICATION Spec
CONSTANTS
    d1 = d1  d2 = d2  r1 = r1  r2 = r2
    Device = {d1, d2}
    Syncing = {d1}
    Req = {r1, r2}
    Juridica = TRUE
    MaxToken = 3
    MaxFaults = 1
SYMMETRY Symmetric
CHECK_DEADLOCK FALSE
INVARIANTS
    TypeOK
    AloneOneLive
    CalmSessionLasts
    SignedOutStaysOut
    RefreshIsUnderWay
