\* Two tabs of one browser with two calls open at once; one incident of any kind.
CONSTANTS
    Tabs = {b1, b2}
    Calls = {c1, c2}
    MaxTokens = 3
    Attempts = 1
    Clicks = {k1, k2}
    MaxIncidents = 1
    None = None
SPECIFICATION FairSpec
INVARIANTS
    TypeOK
    RotationIsSound
    ResetIsSound
PROPERTY
    EveryCallSettles
CHECK_DEADLOCK FALSE
