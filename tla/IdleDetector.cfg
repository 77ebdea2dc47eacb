SPECIFICATION Spec
CONSTANTS
    Interval = 2
    Gaps = {2, 4}
    Threshold = 5
    Grace = 3
    DayLength = 12
    WinStart = 2
    WinEnd = 10
    Allowed = 3
    BreakTime = {TRUE, FALSE}
    DbOutcomes = {TRUE, FALSE}
    Horizon = 22
    MaxSegments = 2
INVARIANTS
    TypeOK
    SegmentsDisjoint
    AllowanceFirst
    ReportsMatchRows
