SPECIFICATION Spec
CONSTANTS
    Threads = {t1, t2}
    ShardCount = 1
    Cells = {c1}
    SwapThreads = {t1, t2}
    CasThreads = {t1, t2}
    WeakThreads = {}
    MaxHandles = 3
    MaxCount = 2
INVARIANT ThenSetAliveUntilCounted
