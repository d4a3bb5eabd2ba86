SPECIFICATION AwaitSpec
CONSTANTS
    Users = {u1}
    Setter = setter
    Callbacks = {c1, c2}
    Kinds = {"inline"}
    Results = {"value"}
    kResult = kResult
    Moved = Moved
    None = None
INVARIANT AwaitedResult
CHECK_DEADLOCK FALSE
