SPECIFICATION Spec
CONSTANTS
    b1 = b1  w1 = w1  w2 = w2
    i1 = i1  i2 = i2  iBad = iBad
    User = {b1, w1, w2}
    BenchUser = {b1}
    Isu = {i1, i2, iBad}
    KnownIsu = {i1, i2}
    Req = {r1, r2, r3}
    ConnLimit = 2
    MaxFaults = 1
    NoUser = NoUser  NoReq = NoReq  NoIsu = NoIsu  NoCharacter = NoCharacter
    Character <- MCCharacter
    CharacterOf <- MCCharacterOf
    Wants <- MCWants
SYMMETRY ReqSymmetry
INVARIANTS
    RegisteredIsActivated
    BenchConflictIsMine
    IndInv
PROPERTY ImplementsRegistry
