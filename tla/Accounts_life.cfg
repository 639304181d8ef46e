SPECIFICATION Spec
CONSTANTS
    e1 = e1  e2 = e2  root = root  n1 = n1  n2 = n2  f1 = f1  r1 = r1  r2 = r2
    Email = {e1, e2, root}
    Nit = {n1, n2}
    Phone = {f1}
    Admin = {root}
    Req = {r1, r2}
    MaxAttempts = 2
    HourlyLimit = 2
    Mixes <- TheMixes
    MaxCalls = 4
    MaxFaults = 1
    MaxLapses = 2
    None = None
SYMMETRY Symmetric
CHECK_DEADLOCK FALSE
INVARIANTS
    TypeOK
    AccountsBacked
    AuditTells
    CodesHold
