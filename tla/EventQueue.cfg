SPECIFICATION FairSpec
CONSTANTS
    Employees = {u1}
    NoUser = NoUser
    Senders = {loop, now1}
    Loop = loop
    BatchLimit = 2
    RejectedTypes <- RefusesQuit
    MaxRows = 3
    MaxFaults = 1
    MaxStops = 1
INVARIANTS
    TypeOK
    SuccessIsStored
    StoredInOrder
    IInv
PROPERTIES
    EventuallySettled
    ImplementsDelivery
