SPECIFICATION FairSpec
CONSTANTS
    Employees = {u1, u2}
    NoUser = NoUser
    Kinds = {"attendance"}
    MaxEnded = 1
    MaxFaults = 1
INVARIANTS
    TypeOK
PROPERTIES
    OwnStaysOwn
    ForceLogoutTakesEffect
    CachesBecomeOwn
