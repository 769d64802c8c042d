SPECIFICATION MCSpec
CONSTANTS
    Primitives = {"mutex", "semaphore", "pointer lock", "nested lock", "posix barrier",
                  "hash table", "critical names"}
    PosixRegions <- SomePosixRegions
    Threads = {t1, t2, t3}
    NoThread = NoThread
    MaxPosts = 3
    MaxDepth = 3
    Addresses = {"a", "b", "c", "d", "e"}
    Hash <- SomeHashes
    Primes = {7, 13, 31}
    FirstSize = 5
    Names = {"a", "b"}
    Mutexes = {m1, m2, m3}
    NULL = NULL
INVARIANTS
    NoLostWakeup
    SleepersRemembered
    OneProvides
    NestExcludes
    DestroyedWhenLeft
    TableIsAMap
    NamesExclude
PROPERTIES
    ImplementsLock
    ImplementsSemaphore
    PosixBarrierCompletes
    Progress
CHECK_DEADLOCK FALSE
