SPECIFICATION FairSpec
CONSTANTS
    Table <- Tables
    Jobs = 4
    TableOf <- TableOfJob
    Concurrency = 2
    Attempts = 2
INVARIANTS
    IInv
    WithinConcurrency
    ReportIsTrue
    LoggedOnceUnlessCancelled
PROPERTIES
    Terminates
CHECK_DEADLOCK FALSE
