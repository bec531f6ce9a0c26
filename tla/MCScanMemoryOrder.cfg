SPECIFICATION Spec
CONSTANTS
    ShardCount = 2
    MaxSteps = 6
INVARIANTS RecheckNotNegative FreedAfterSeenUses FreedHeldOnlyIfClonedBehind
CHECK_DEADLOCK FALSE
