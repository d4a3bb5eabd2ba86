SPECIFICATION Spec
CONSTANTS
    MaxThen = 2
    MaxHops = 2
    Executors = {"inline", "stop", "pool", "manual"}
    Empty = Empty
    kResult = kResult
    DropCore = DropCore
    None = None
INVARIANTS
    CoreLifetimes
    ExecutorsPresent
    CancelMeansStop
PROPERTIES
    ChainEnds
CHECK_DEADLOCK FALSE
