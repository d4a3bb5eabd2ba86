SPECIFICATION Spec
CONSTANTS
    b1 = b1
    Waiters = {w1, w2}
    Futures = {f1, f2}
    BatchOf <- OneBatch
    Rounds = 2
    AllDone = AllDone
    None = None
INVARIANTS
    JobsAlive
    WaitedForAll
PROPERTIES
    WaitersLeave
CHECK_DEADLOCK FALSE
