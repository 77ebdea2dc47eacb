SPECIFICATION FairSpec
CONSTANTS
    u1 = u1
    u2 = u2
    own = own
    other = other
    Employees = {u1, u2}
    NoUser = NoUser
    Admins = {u1}
    Company <- EachTheirOwn
    Types = {own, other}
    Protected = {other}
    First <- SeedList
    Slots = {s1, s2}
    MaxChanges = 1
    MaxFaults = 1
INVARIANTS
    TypeOK
    PendingHasCall
PROPERTIES
    TypesConverge
