SPECIFICATION Spec
CONSTANTS
    ana = ana    beto = beto
    p1 = p1      c1 = c1      c2 = c2      m1 = m1
    papa = papa
    o1 = o1      o2 = o2      o3 = o3      o4 = o4
    o5 = o5      o6 = o6      o7 = o7      o8 = o8
    User = {ana, beto}
    Juridica = {ana, beto}
    Verified = {beto}
    Op = {o1, o2, o3, o4, o5, o6, o7, o8}
    OpKind <- EditKind
    OpId <- EditId
    OpTarget <- EditTarget
    OpTs <- EditTs
    Senders <- EditSenders
    BadTs = {o4}
    BadPayload = {o3}
    Id = {p1}
    Target = {p1, papa}
    Req = {r1}
    Skew = 1
    MaxTime = 1
    MaxBatch = 2
    MaxSends = 2
    MaxReceived = 3
    MaxCrashes = 0
    MaxFails = 0
    MaxRests = 0
    MaxDeletes = 0
    NoUser = NoUser
    NoOp = NoOp
    None = None
    Rest = Rest
CHECK_DEADLOCK FALSE
INVARIANTS
    NewestWins
    LosersYield
