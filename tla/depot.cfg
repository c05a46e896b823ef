SPECIFICATION DepotSpec
CONSTANTS
    t1 = t1
    t2 = t2
    a = a
    b = b
    c = c
    d = d
    e = e
    g1 = g1
    g2 = g2
    g3 = g3
    g4 = g4
    g5 = g5
    g6 = g6
    Threads = {t1, t2}
    First = t1
    Objects = {a, b, c, d, e}
    Mags = {g1, g2, g3, g4, g5, g6}
    Cap = 2
    MaxSizes = {0, 1}
    Threshold = 2
SYMMETRY Symmetry
INVARIANTS MagazinesInPlace DepotEveryCap DepotBounded LayoutSound
CHECK_DEADLOCK FALSE
