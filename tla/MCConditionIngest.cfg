SPECIFICATION Spec
CONSTANTS
    Isu = {i1, i2}
    Character = {i1, i2}
    CharacterOf <- MCCharacterOf
    Reader = {u1}
    Viewer = {v1}
    Req = {r1, r2}
    BatchSize = 2
    MaxBatch = 3
    ConnLimit = 2
    MaxFaults = 1
    NoIsu = NoIsu
    NoReq = NoReq
SYMMETRY IngestSymmetry
INVARIANTS
    ShownStays
    NoOrphanCondition
    TrendGoesForward
PROPERTY ImplementsLog
