SPECIFICATION Spec
CONSTANTS
    Reqs = {r1, r2}
    Dates = {0, 2}
    Periods = {1}
    Rate = 1
    LateFeePercent = 100
    Day = 1
    MaxRentals = 1
    MaxTurns = 2
    MaxTime = 2
CHECK_DEADLOCK FALSE
PROPERTY ScheduleIsMade
