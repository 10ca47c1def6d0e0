SPECIFICATION Spec
CONSTANTS
    Zone <- Changes
    Hour = 2
    Delay = 1
    MaxEvents = 2
    MaxNow = 8
INVARIANTS
    ReadOnce
    SettledIsComplete
    EventsArrive
CHECK_DEADLOCK FALSE
