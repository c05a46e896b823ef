SPECIFICATION Spec
CONSTANTS
    c1 = c1
    c2 = c2
    c3 = c3
    v1 = v1
    v2 = v2
    Clients = {c1, c2, c3}
    Pushers = {c1, c2}
    Poppers = {c2, c3}
    Revokers = {c1}
    Items = {v1, v2}
    SegSize = 2
    MaxNodes = 2
    MaxIndex = 4
SYMMETRY Sym
INVARIANTS NoneStranded EmptyIsHonest PopsAreProtected
PROPERTIES IsWeakBag FifoOrder
CHECK_DEADLOCK FALSE
