SPECIFICATION FairSpec
CONSTANTS
    ConditionLimit = 3
    ConditionPagingStep = 1
    MaxTimestamp = 6
    MaxFaults = 2
INVARIANTS
    NoFalseAlarm
    CountedOnce
    NothingSkipped
    MarksAreNewest
    VerifyIsExact
PROPERTIES
    PassEnds
