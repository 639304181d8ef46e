SPECIFICATION FairSpec
CONSTANTS
    ana = ana    beto = beto    p1 = p1    p2 = p2
    User = {ana}
    Entity = {p1}
    Owner <- OneOwner
    Rejectable = {2}
    BatchLimit = 1
    MaxRounds = 2
    MaxOps = 2
    Faults = {"network", "client", "unauthorized", "garbled"}
    MaxFaults = 1
    MaxMoves = 1
    MaxKills = 1
    None = None
CHECK_DEADLOCK FALSE
INVARIANTS
    NoLostWrite
    Converged
PROPERTIES
    QueueDrains
