SPECIFICATION FairSpec
CONSTANTS
    Table = {t1}
    MaxAttempts = 2
INVARIANTS
    IInv
    BronzeIsOneFetch
    RedeemedSpoolIsGone
    WriteFindsASpool
PROPERTIES
    BronzeWrittenOnce
    KeepsPromise
    EveryRunEnds
CHECK_DEADLOCK FALSE
