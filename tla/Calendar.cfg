\* Every frequency, over the leap days around 2100.
SPECIFICATION Spec
CONSTANTS
    Hours = 3
    Minutes = 2
    Seconds = 2
    Ticks = 2
    MaxPeriods = 40
    Slack = 10
    Strings <- MCStrings
    Starts <- MCStarts
    Lags = {0, 1500}
    LastDay <- MCLastDay
    Never = Never
INVARIANTS NextMatches NothingSkipped
CHECK_DEADLOCK FALSE
