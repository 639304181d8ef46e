SPECIFICATION Spec
CONSTANTS
    ana = ana    beto = beto
    p1 = p1      c1 = c1      c2 = c2      m1 = m1
    papa = papa
    o1 = o1      o2 = o2      o3 = o3      o4 = o4
    o5 = o5      o6 = o6      o7 = o7      o8 = o8
    User = {ana, beto}
    Juridica = {ana, beto}
    Verified = {beto}
    Op = {o1, o2, o3, o4, o5, o6, o7}
    OpKind <- AllKind
    OpId <- AllId
    OpTarget <- AllTarget
    OpTs <- AllTs
    Senders <- AllSenders
    BadTs = {}
    BadPayload = {}
    Id = {p1, c1, c2, m1}
    Target = {p1, c1, c2, m1, papa}
    Req = {r1, r2}
    Skew = 1
    MaxTime = 0
    MaxBatch = 1
    MaxSends = 2
    MaxReceived = 3
    MaxCrashes = 1
    MaxFails = 1
    MaxRests = 0
    MaxDeletes = 0
    NoUser = NoUser
    NoOp = NoOp
    None = None
    Rest = Rest
CHECK_DEADLOCK FALSE
INVARIANTS
    TypeOK
    PostKeepsAuthor
    ConversationsConverge
PROPERTIES
    KeepsTheLedger
