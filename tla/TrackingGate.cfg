SPECIFICATION FairSpec
CONSTANTS
    Employees = {u1, u2}
    NoUser = NoUser
    Currents <- ThisVersion
    Minima <- RequiredVersions
    Facts <- Answers
    MaxTrouble = 1
INVARIANTS
    TypeOK
PROPERTIES
    StopsForGood
    ResumesForGood
