SPECIFICATION FairSpec
CONSTANTS
    MaxCommands = 3
    MaxStarts = 2
    MaxFaults = 3
INVARIANTS
    TypeOK
PROPERTIES
    StaysInBackground
    QuitEnds
    ShowIsServed
    LoginViewIsLeft
CHECK_DEADLOCK FALSE
