SPECIFICATION FairSpec
CONSTANTS
    b1 = b1  w1 = w1  w2 = w2
    i1 = i1  i2 = i2  iBad = iBad
    User = {b1, w1}
    BenchUser = {b1}
    Isu = {i1, i2}
    KnownIsu = {i1, i2}
    Req = {r1, r2}
    ConnLimit = 1
    MaxFaults = 1
    NoUser = NoUser  NoReq = NoReq  NoIsu = NoIsu  NoCharacter = NoCharacter
    Character <- MCCharacter
    CharacterOf <- MCCharacterOf
    Wants <- MCWants
PROPERTIES
    EveryRequestEnds
    BenchRegisters
