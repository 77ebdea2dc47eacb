SPECIFICATION FairSpec
CONSTANTS
    Employees = {u1, u2}
    Admins = {u1, u2}
    NoUser = NoUser
    Fields = {f1}
    Values = {0, 1}
    Default <- AllZero
    First <- ZeroForAll
    u1 = u1
    Reaches <- OnlyFirst
    Logins = {manual}
    Slots = {s1, s2}
    MaxVersion = 2
    MaxFaults = 1
INVARIANTS
    TypeOK
    PendingHasSave
    VersionNamesOriginal
    OnlyTypedIsSent
PROPERTIES
    PolicyConverges
    FormFollows
