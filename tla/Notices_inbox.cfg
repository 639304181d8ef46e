SPECIFICATION Spec
CONSTANTS
    ana = ana  beto = beto  phone = phone  t1 = t1  a1 = a1  a2 = a2
    rain = rain  r1 = r1  r2 = r2
    User = {ana, beto}
    DeviceId = {phone}
    Token = {t1}
    Alert = {a1, a2}
    AlertUser <- Owners
    Kind = {rain}
    AlertKind <- Kinds
    Req = {r1, r2}
    Mixes <- TheMixes
    MaxCalls = 3
    MaxFaults = 1
    MaxTurns = 1
    None = None
SYMMETRY Symmetric
CHECK_DEADLOCK FALSE
INVARIANTS
    TypeOK
    PushedOnce
    ReachesItsUser
    FiresOnce
PROPERTIES
    OnlyForward
