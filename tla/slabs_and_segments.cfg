CONSTANTS
    PAGE_SIZE = 16
    OBJECTS_PER_SLAB = 2
    DEFAULT_MAP_SIZE = 1
    BUCKET_SIZE = 1
    HdrSize = 2
    WordSize = 2
    ObjLayouts <- MCObjLayouts
    MaxSlabSize = 128
    MemPages = 6
    MaxSlabs = 3
    c1 = c1
    c2 = c2
    c3 = c3
    v1 = v1
    v2 = v2
    Clients = {c1, c2, c3}
    Pushers = {c1, c2}
    Poppers = {c2, c3}
    Items = {v1, v2}
    SegSize = 1
    MaxIndex = 3
SPECIFICATION MCSpec
SYMMETRY Symmetry
INVARIANTS
    FreelistOrder
    CollectsOnlyFull
    FindsSlab
    ObjectsFit
    NoUseAfterFree
    WalksForward
PROPERTIES IsWeakBag EmptyIsHonest
CHECK_DEADLOCK FALSE
