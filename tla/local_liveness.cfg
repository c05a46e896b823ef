SPECIFICATION FairSpec
CONSTANTS
    h1 = h1
    h2 = h2
    s1 = s1
    s2 = s2
    Handles = {h1, h2}
    Created = {h1, h2}
    Slags = {s1, s2}
    NObjects = 2
    Cutoff = 1
    WordBits = 2
    Uncommits = TRUE
PROPERTIES CallsReturn ReusableIsFound
CHECK_DEADLOCK FALSE
