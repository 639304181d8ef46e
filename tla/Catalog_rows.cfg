SPECIFICATION Spec
CONSTANTS
    maiz = maiz  r1 = r1  r2 = r2
    Size = {1, 3}
    Limit = 4
    Product = {maiz}
    Req = {r1, r2}
    Mixes <- TheMixes
    MaxCalls = 3
    MaxFaults = 2
    MaxTurns = 1
    None = None
SYMMETRY Symmetric
CHECK_DEADLOCK FALSE
INVARIANTS
    TypeOK
    ObjectsMatchRows
    StorageMetered
    RangeServed
    PriceFresh
