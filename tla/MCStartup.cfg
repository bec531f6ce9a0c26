SPECIFICATION FairSpec
CONSTANTS
    Users = {t1, t2}
    MaxSpawned = 2
    MaxCalls = 2
    Unset = Unset
    Bad = Bad
    ShardVars = {Unset, 0, 1, 256, 257, Bad}
    IntervalVars = {Unset, 0, Bad}
    Parallelisms = {1, 170, 171, 300}
    Hashes = {0, 255, 256}
INVARIANTS TypeOK EachShardOnce OneCollectorThread
PROPERTIES CallsReturn CollectorStarts
CHECK_DEADLOCK FALSE
