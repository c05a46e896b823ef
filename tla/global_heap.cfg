SPECIFICATION FairSpec
CONSTANTS
    t1 = t1
    t2 = t2
    o1 = o1
    o2 = o2
    Threads = {t1, t2}
    Program = {o1}
    Library = {o2}
    MaxTemps = 1
    MaxDepth = 2
INVARIANTS HandleInOnePlace OnceNotReentered
PROPERTY Reclaimed
CHECK_DEADLOCK FALSE
