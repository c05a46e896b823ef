SPECIFICATION MemorySpec
CONSTANTS
    Units = 4
    Offsets = {0, 65536}
    UsedPages = {7}
    Requests <- MCRequests
    Asked <- MCAsked
    CacheSize <- MCCacheSize
    MaxObjects = 2
    TargetOverhead = 1
    Ptrs = {4096, 8192}
    Amounts = {0, 20}
    Aligns = {4, 12, 32}
    pagesize = 4096
    h1 = h1
    h2 = h2
    Handles = {h1, h2}
    Groups = 1
    MaxGiven = 2
    MaxOverhead = 1
    o1 = o1
    o2 = o2
    t1 = t1
    t2 = t2
    b1 = b1
    b2 = b2
    b3 = b3
    Objects = {o1, o2}
    PageSize = 2
    NPages = 4
    Sizes = {2, 3, 5}
    Platforms = {"linux", "macos", "windows"}
    Threads = {t1, t2}
    Last = 10
    PageSizes = {1, 2, 4}
    Counts = {1, 2}
    HeapSizes = {8}
    MaxBump = 5
    Blocks = {b1, b2, b3}
    Starts = {0, 1}
    Layouts = {1023, 1024, 18432}
INVARIANTS
    TypeLookup
    RoomForAll
    CFunctionsSound
    
    
    
    BlocksInPlace
CHECK_DEADLOCK FALSE
