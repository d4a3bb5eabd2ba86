SPECIFICATION Spec
CONSTANTS
    f1 = f1
    f2 = f2
    f3 = f3
    Main = f1
    Fibers = {f1, f2, f3}
    Worlds <- MCWorlds
    Delays = {0, 3}
    None = None
INVARIANTS
    PollFindsAFiber
    FibersAccounted
    PrimitivesSound
PROPERTIES
    SimulationEnds
CHECK_DEADLOCK FALSE
