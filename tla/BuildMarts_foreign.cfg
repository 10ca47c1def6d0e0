SPECIFICATION Spec
CONSTANTS
    Runs = 2
    Transforms = 2
    BuildAttempts <- RetryPostGo
    TransformAttempts = 2
INVARIANT
    ResultsAreOwn
CHECK_DEADLOCK FALSE
