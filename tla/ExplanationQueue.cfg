SPECIFICATION FairSpec
CONSTANTS
    Employees = {u1, u2}
    NoUser = NoUser
    Segments = {n1}
    Authors = {u1}
    MaxRows = 2
    Batch = 1
    Withdraws = TRUE
    MaxFaults = 2
    MaxStops = 1
INVARIANTS
    TypeOK
    GoneIsSettled
    SubmittedIsBacked
PROPERTIES
    WrittenIsSettled
    ImplementsHandover
