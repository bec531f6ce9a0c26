SPECIFICATION FairSpec
CONSTANTS
    Threads = {t1, t2}
    ShardCount = 2
    Cells = {c1}
    SwapThreads = {t1}
    CasThreads = {t1}
    WeakThreads = {t2}
    MaxHandles = 2
    MaxCount = 2
INVARIANTS TypeOK Accounting NoUseAfterFree CollectorNeverPanics
PROPERTIES UpgradeSucceedsWhileStrong ImplementsDeferredArc AbandonedIsFreed
