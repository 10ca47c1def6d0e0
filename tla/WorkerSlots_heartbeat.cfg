SPECIFICATION Spec
CONSTANTS
    Task = {t1}
    Slots = 2
    MaxAttempts = 2
    HeartbeatTimeout = 1
    StartToClose = 2
PROPERTIES
    SlowQueryHasRoom
CHECK_DEADLOCK FALSE
