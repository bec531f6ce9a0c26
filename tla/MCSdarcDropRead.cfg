SPECIFICATION Spec
CONSTANTS
    Threads = {t1, t2}
    ShardCount = 1
    Cells = {c1}
    SwapThreads = {t1, t2}
    CasThreads = {}
    WeakThreads = {}
    MaxHandles = 2
    MaxCount = 2
INVARIANT InnerRefNeverDangling
