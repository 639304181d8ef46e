SPECIFICATION FairSpec
CONSTANTS
    ana = ana    beto = beto
    p1 = p1      c1 = c1      c2 = c2      m1 = m1
    papa = papa
    o1 = o1      o2 = o2      o3 = o3      o4 = o4
    o5 = o5      o6 = o6      o7 = o7      o8 = o8
    User = {ana, beto}
    Juridica = {}
    Verified = {}
    Op = {o1, o2}
    OpKind <- RetryKind
    OpId <- RetryId
    OpTarget <- RetryTarget
    OpTs <- RetryTs
    Senders <- RetrySenders
    BadTs = {}
    BadPayload = {}
    Id = {p1, c1, m1}
    Target = {p1, c1, m1}
    Req = {r1, r2}
    Skew = 1
    MaxTime = 0
    MaxBatch = 1
    MaxSends = 3
    MaxReceived = 6
    MaxCrashes = 1
    MaxFails = 0
    MaxRests = 1
    MaxDeletes = 1
    NoUser = NoUser
    NoOp = NoOp
    None = None
    Rest = Rest
CHECK_DEADLOCK FALSE
INVARIANTS
    NotifiedAtMostOnce
PROPERTIES
    SentIsAnswered
