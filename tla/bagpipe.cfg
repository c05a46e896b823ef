SPECIFICATION FairSpec
CONSTANTS
    h1 = h1
    h2 = h2
    v1 = v1
    v2 = v2
    Handles = {h1, h2}
    First = h1
    Items = {v1, v2}
    Len = 2
    Threshold = 2
    MaxFailures = 1
    MaxAhead = 1
INVARIANTS EmptyIsHonest GuessIsClose
PROPERTIES IsWeakBag ReturnsAlone
CHECK_DEADLOCK FALSE
