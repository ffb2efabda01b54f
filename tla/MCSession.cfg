SPECIFICATION FairSpec
CONSTANTS
    Tab = {t1, t2}
    User = {u1, u2, u3}
    u1 = u1
    u2 = u2
    u3 = u3
    NoUser = NoUser
    NoToken = NoToken
    Keep = Keep
    Token <- MCToken
    MaxOpens = 3
    MaxLosses = 1
    MaxResets = 1
INVARIANTS
    TabShowsItsSession
    SessionsAreVerified
PROPERTIES
    SpinnerEnds
\* Tabs that are logged out rest once the loads are used up.
CHECK_DEADLOCK FALSE
