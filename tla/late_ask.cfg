CONSTANTS
    Intervals = {2, 3}
    Minimum = 2
    MaxBackoff = 3
    Lead = 1
    MaxJitter = 0
    Horizons = {2}
    MaxSlow = 1
    MaxTime = 4
    Never = Never
SPECIFICATION ScheduleSpec
INVARIANT FloorKept
CHECK_DEADLOCK FALSE
