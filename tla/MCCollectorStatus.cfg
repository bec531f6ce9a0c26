CONSTANTS
    Threads = {t1, t2}
    Nobody = Nobody
    Slots = {o1, o2}
    ShardCount = 2
    MaxCalls = 1
    MaxTimeouts = 1
SPECIFICATION FairSpec
INVARIANTS TypeOK NeverTrackedTwice NoLostUnpark
PROPERTIES WaitCollectsWhatWasAbandoned WaitReturns UnparkedCollectorFrees
CHECK_DEADLOCK FALSE
