SPECIFICATION WalkSpec
CONSTANTS
    Listing <- AllListings
    Id <- MCId
    Limit = {1, 2}
    Micro = 2
    MaxClock = 3
    MaxChanges = 2
    MaxPages = 5
    Null = Null
CHECK_DEADLOCK FALSE
INVARIANTS
    WalkTypeOK
    WalkIsExact
