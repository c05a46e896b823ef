SPECIFICATION Spec
CONSTANTS
    h1 = h1
    h2 = h2
    h3 = h3
    s1 = s1
    s2 = s2
    s3 = s3
    Handles = {h1, h2, h3}
    Created = {h1, h2}
    Slags = {s1, s2, s3}
    NObjects = 2
    Cutoff = 1
    WordBits = 1
    Uncommits = FALSE
SYMMETRY Sym
INVARIANT CountCoversWord
CHECK_DEADLOCK FALSE
