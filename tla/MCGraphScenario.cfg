SPECIFICATION FairSpec
CONSTANTS
    HoursPerDay = 2
    PostTime = 5
    MaxTime = 11
    MaxFaults = 1
INVARIANTS
    MarkedDaysArePaid
PROPERTIES
    PaidAgainOnlyFromMark
    PassEnds
