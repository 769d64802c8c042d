SPECIFICATION MCSpec
CONSTANTS
    Components = {"barrier", "pool", "places", "place list"}
    t1 = t1
    t2 = t2
    t3 = t3
    None = None
    Threads <- ThreeThreads
    Tasks <- ThreeTasks
    Regions <- SomeRegions
    MaxThreads = 4
    Infinity = 99
    PoolPrograms <- SomePrograms
    MaxPlaces = 3
    MaxTeam = 5
    Bindings <- SomeBindings
    Regrow = FALSE
    MaxCpu = 4
    CountLimit = 8
    Siblings <- TwoCores
    Environments <- SomeEnvironments
INVARIANTS
    LastThreadKnows
    NoLostWakeup
    RegionRunsOnce
    FreedIsUnused
    CountersKept
    PlacedAsBound
    DockAgrees
    PlacesAsWritten
PROPERTIES
    BarrierCompletes
    Ends
CHECK_DEADLOCK FALSE
