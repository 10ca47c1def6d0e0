SPECIFICATION FairSpec
CONSTANTS
    Runs = 2
    Transforms = 2
    BuildAttempts <- RetryPostGo
    TransformAttempts = 2
INVARIANTS
    MartsNeverBehind
    OwnResultsReported
    GoodBuildIsReported
    MartsUpToDate
PROPERTIES
    InOrder
    EveryRunEnds
CHECK_DEADLOCK FALSE
