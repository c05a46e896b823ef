SPECIFICATION MagazineSpec
CONSTANTS
    h1 = h1
    h2 = h2
    s1 = s1
    s2 = s2
    s3 = s3
    Handles = {h1, h2}
    Created = {h1, h2}
    Slags = {s1, s2, s3}
    NObjects = 2
    Cutoff = 1
    WordBits = 2
    Uncommits = FALSE
    StackSize = 3
SYMMETRY Sym
INVARIANTS OneHolder OnePlaceMagazine
CHECK_DEADLOCK FALSE
