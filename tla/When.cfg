SPECIFICATION Spec
CONSTANTS
    MaxInputs = 3
    Strategies <- AllStrategies
    Word = 16
    None = None
INVARIANTS
    OutputAllowed
    NothingUsedAfterRelease
PROPERTIES
    EverythingSettles
CHECK_DEADLOCK FALSE
