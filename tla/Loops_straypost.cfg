SPECIFICATION MCSpec
CONSTANTS
    Components = {"ordered"}
    t1 = t1
    t2 = t2
    t3 = t3
    None = None
    Owned = Owned
    Threads <- ThreeThreads
    Master = t1
    Inline = 3
    Regions <- SomeRegions
    MaxTasks = 4
    MaxLoad = 3
    MaxWorkers = 3
    MaxChunks = 4
    NR_LOOPS = 2
    Arrays = {"a", "b"}
    Load <- TwoLoads
    Teams = {1, 3}
    Scheds = {"binlpt", "srr"}
    Modifiers = {1, 2}
    SmallerTeams = FALSE
    WordBits = 6
    LoopPrograms <- SomeLoops
    OrderedPrograms <- StrayPosts
INVARIANTS
    InOrder
CHECK_DEADLOCK FALSE
