SPECIFICATION Spec
CONSTANTS
    Character = {calm, lively}
    MaxIsu = 2
    HoursPerDay = 2
    SlotsPerHour = 3
    LastHour = 2
    Reading <- MCReading
    MaxRows = 3
    ConditionLimit = 2
SYMMETRY CharacterSymmetry
INVARIANTS
    StoredIsReadable
    GraphIsExact
    ViewsAgree
