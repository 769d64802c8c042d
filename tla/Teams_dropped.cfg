SPECIFICATION MCSpec
CONSTANTS
    Components = {"pool"}
    t1 = t1
    t2 = t2
    t3 = t3
    None = None
    Threads <- ThreeThreads
    Tasks <- ThreeTasks
    Regions <- SomeRegions
    MaxThreads = 4
    Infinity = 99
    PoolPrograms <- DropAndExit
    MaxPlaces = 3
    MaxTeam = 5
    Bindings <- SomeBindings
    Regrow = FALSE
    MaxCpu = 4
    CountLimit = 8
    Siblings <- TwoCores
    Environments <- SomeEnvironments
INVARIANTS
    FreedIsUnused
CHECK_DEADLOCK FALSE
