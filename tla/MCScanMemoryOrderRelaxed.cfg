SPECIFICATION Spec
CONSTANTS
    ShardCount = 2
    MaxSteps = 6
INVARIANTS FreedOnlyUnheld
CHECK_DEADLOCK FALSE
