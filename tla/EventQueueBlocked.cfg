SPECIFICATION FairSpec
CONSTANTS
    Employees = {u1}
    NoUser = NoUser
    Senders = {loop, now1}
    Loop = loop
    BatchLimit = 1
    RejectedTypes <- RefusesStart
    MaxRows = 2
    MaxFaults = 0
    MaxStops = 0
PROPERTIES
    LifecycleEventuallyStored
