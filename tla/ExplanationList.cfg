SPECIFICATION FairSpec
CONSTANTS
    Employees = {u1, u2}
    NoUser = NoUser
    Names = {n1}
    Fetches = {f1, f2}
    MaxChanges = 1
    MaxFaults = 1
INVARIANTS
    TypeOK
    LoadingHasFetch
PROPERTIES
    ViewIsServed
    RefreshConverges
