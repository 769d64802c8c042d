SPECIFICATION Spec
CONSTANTS
    t1 = t1
    t2 = t2
    x1 = x1
    x2 = x2
    x3 = x3
    g1 = g1
    g2 = g2
    a = a
    b = b
    None = None
    Threads <- TwoThreads
    Tasks <- ThreeTasks
    Groups <- TwoGroups
    Addrs <- TwoAddrs
    Regions <- OrphanRegions
INVARIANTS
    GoneParentIsNull
CHECK_DEADLOCK FALSE
