SPECIFICATION FairSpec
CONSTANTS
    Threads = {t1, t2, t3}
    NoThread = NoThread
    ShardCount = 2
    MaxGuards = 1
    MayNest = FALSE
INVARIANTS MutualExclusion NoCircularWait
PROPERTIES ImplementsRwLock WritersGetIn ReadersGetIn
