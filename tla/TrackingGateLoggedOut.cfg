SPECIFICATION FairSpec
CONSTANTS
    Employees = {u1}
    NoUser = NoUser
    Currents <- ThisVersion
    Minima <- RequiredVersions
    Facts <- Answers
    MaxTrouble = 0
PROPERTIES
    LoggedOutIsNotTracked
