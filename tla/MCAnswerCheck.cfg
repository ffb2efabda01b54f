SPECIFICATION CheckFairSpec
CONSTANTS
    PostIntervalSecond = 3
    PostIntervalBlurSecond = 1
    PostContentNum = 2
    ConditionLimit = 2
    SearchRange = 1
    MaxSlot = 4
    Draws <- MCDraws
    Filters <- MCFilters
    Ranges <- MCRanges
    Claims <- MCClaims
INVARIANTS
    BoundIsExact
    HonestIsAccepted
    AcceptedWasPosted
    ReadIsNotMissing
PROPERTY AddingEnds
