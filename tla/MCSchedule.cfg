SPECIFICATION ScheduleSpec
CONSTANTS
    Settings <- Regular
    StartHour = 74
    Horizon = 136
    MaxRun = 2
    Drift = 1
INVARIANTS
    ScheduleInv
    
\* The clock stops at Horizon.
CHECK_DEADLOCK FALSE
