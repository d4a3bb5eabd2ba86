SPECIFICATION FairSpec
CONSTANTS
    Workers = {w1, w2}
    Jobs = {j1, j2, j3}
    Stoppers = {s1, s2}
    None = None
INVARIANTS
    NoSleeperForgotten
    JobsAccounted
    SoftStopWaits
PROPERTIES
    EverythingEnds
CHECK_DEADLOCK FALSE
