SPECIFICATION FairSpec
CONSTANTS
    Task = {t1, t2}
    Slots = 3
    MaxAttempts = 3
    HeartbeatTimeout = 2
    StartToClose = 3
INVARIANTS
    AttemptsApart
    HungQueryLeavesSlots
PROPERTIES
    EveryTaskEnds
CHECK_DEADLOCK FALSE
