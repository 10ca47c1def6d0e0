SPECIFICATION Spec
CONSTANTS
    Grain <- HourGrain
    Duration <- HourDuration
    Lookback <- HourLookback
    Delay <- HourDelay
    MaxNow = 6
    Overlap <- HourGrain
PROPERTIES
    ReRunsConverge
CHECK_DEADLOCK FALSE
