SPECIFICATION Spec
CONSTANTS
    ana = ana    beto = beto
    p1 = p1      c1 = c1      c2 = c2      m1 = m1
    papa = papa
    o1 = o1      o2 = o2      o3 = o3      o4 = o4
    o5 = o5      o6 = o6      o7 = o7      o8 = o8
    User = {ana, beto}
    Juridica = {}
    Verified = {}
    Op = {o1, o2, o3}
    OpKind <- PostsKind
    OpId <- PostsId
    OpTarget <- PostsId
    OpTs <- PostsTs
    Senders <- PostsSenders
    BadTs = {}
    BadPayload = {}
    Id = {p1}
    Target = {p1}
    Req = {r1, r2}
    Skew = 1
    MaxTime = 2
    MaxBatch = 1
    MaxSends = 1
    MaxReceived = 3
    MaxCrashes = 0
    MaxFails = 0
    MaxRests = 0
    MaxDeletes = 0
    NoUser = NoUser
    NoOp = NoOp
    None = None
    Rest = Rest
CHECK_DEADLOCK FALSE
INVARIANTS
    NewestWins
