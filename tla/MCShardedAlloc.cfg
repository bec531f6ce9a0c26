SPECIFICATION Spec
CONSTANTS
    Threads = {t1, t2}
    Units = {u1, u2}
    SlotCount = 2
    ShardCount = 2
    NoOne = NoOne
    NoUnit = NoUnit
SYMMETRY Symmetry
INVARIANTS TypeOK OneOwner ValuesMatch PlacedOnce IndexesValid
PROPERTIES PoolSpec SlotsComeBack
