SPECIFICATION FairSpec
CONSTANTS
    Req = {r1, r2}
    Url = {u1, u2}
INVARIANTS
    NoConditionWithoutIsu
PROPERTIES
    ActivatesAtRequestedUrl
    
