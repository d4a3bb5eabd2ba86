SPECIFICATION Spec
CONSTANTS
    MaxFutures = 3
    Modes = {"Wait", "WaitFor", "AwaitInline", "AwaitSticky", "AwaitOn"}
    Events = {"mutex", "futex1", "futex2"}
    Waiter = waiter
    None = None
INVARIANTS
    EventSound
    ReturnsTheTruth
PROPERTIES
    WaitEnds
CHECK_DEADLOCK FALSE
