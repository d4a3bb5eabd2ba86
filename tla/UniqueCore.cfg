SPECIFICATION FairSpec
CONSTANTS
    MaxThen = 2
    MaxWaits = 2
    Executors = {e1, e2}
    Null = Null
    QueryAttached = FALSE
INVARIANTS
    NoUseAfterFree
    ResultBeforeRead
    ResolvedAtMostOnce
    ExecutorInherited
PROPERTIES
    EverythingReleased
