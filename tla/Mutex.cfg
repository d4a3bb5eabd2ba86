SPECIFICATION FairSpec
CONSTANTS
    Coroutines = {c1, c2, c3}
    Executors = {e1, e2}
    NotLocked = NotLocked
    Null = Null
    Templates <- MCTemplates
INVARIANTS
    MutualExclusion
    WaitersQueued
PROPERTIES
    ExecutorsKept
    NoStarvation
