SPECIFICATION FairSpec
CONSTANTS
    MaxCommands = 1
    MaxStarts = 1
    MaxFaults = 0
PROPERTIES
    LoggedOutSeesLogin
CHECK_DEADLOCK FALSE
