SPECIFICATION Spec
CONSTANTS
    Grain <- BothGrains
    Duration <- BothDuration
    Lookback <- BothLookback
    Delay <- BothDelay
    MaxNow = 5
    Overlap <- DayGrain
INVARIANTS
    NoGap
    MartsOverFreshBronze
PROPERTIES
    FinalStaysFinal
CHECK_DEADLOCK FALSE
