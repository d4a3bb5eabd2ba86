SPECIFICATION Spec
CONSTANTS
    Users = {u1, u2}
    Setter = setter
    Callbacks = {c1, c2}
    Kinds = {"inline", "async", "call", "unwrap", "connect", "event"}
    Results = {"value"}
    kResult = kResult
    Moved = Moved
    None = None
INVARIANTS
    RefsAccounted
    ResultIntact
PROPERTIES
    EveryoneServed
CHECK_DEADLOCK FALSE
