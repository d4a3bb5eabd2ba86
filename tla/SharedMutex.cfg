SPECIFICATION FairSpec
CONSTANTS
    Readers = {r1, r2}
    Writers = {w1, w2, w3}
    Templates <- MCTemplates
    Word = 8
    None = None
INVARIANTS
    ReadWriteExclusion
    ListsConsistent
    WritersKeepOrder
PROPERTIES
    NobodyWaitsForever
