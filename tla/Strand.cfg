SPECIFICATION FairSpec
CONSTANTS
    Jobs = {j1, j2, j3, j4}
    Runners = {r1, r2}
    Mark = Mark
    None = None
INVARIANTS
    StrandJobSound
PROPERTIES
    EveryJobFinishes
    ImplementsSerialExecutor
