SPECIFICATION Spec
CONSTANTS
    c1 = c1
    c2 = c2
    c3 = c3
    v1 = v1
    v2 = v2
    Clients = {c1, c2, c3}
    Pushers = {c1, c2}
    Poppers = {c3}
    Revokers = {}
    Items = {v1, v2}
    SegSize = 1
    MaxNodes = 2
    MaxIndex = 3
SYMMETRY Sym
INVARIANTS NoUseAfterFree
CHECK_DEADLOCK FALSE
