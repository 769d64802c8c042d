SPECIFICATION MCSpec
CONSTANTS
    Components = {"workload"}
    t1 = t1
    t2 = t2
    t3 = t3
    None = None
    Owned = Owned
    Threads <- ThreeThreads
    Master = t1
    Inline = 3
    Regions <- SomeRegions
    MaxTasks = 4
    MaxLoad = 3
    MaxWorkers = 3
    MaxChunks = 4
    NR_LOOPS = 1
    Arrays = {"a"}
    Load <- OneLoad
    Teams = {1, 2}
    Scheds = {"binlpt"}
    Modifiers = {1}
    SmallerTeams = TRUE
    WordBits = 6
    LoopPrograms <- SomeLoops
    OrderedPrograms <- SomeOrdered
INVARIANTS
    FalseMeansAllAssigned
CHECK_DEADLOCK FALSE
