SPECIFICATION Spec
CONSTANTS
    Zone <- FallsBack
    Hour = 2
    Delay = 1
    MaxEvents = 1
    MaxNow = 8
INVARIANTS
    CreatedMatches
CHECK_DEADLOCK FALSE
