SPECIFICATION Spec
CONSTANTS
    Slots = {o1, o2, o3}
    Null = Null
    MaxHandles = 1
    MaxOwned = 1
    MaxRounds = 4
SYMMETRY Symmetry
VIEW View
INVARIANTS TypeOK BackRefLive Collected RoundsBounded KnownOnce
PROPERTIES FreesOnlyGarbage
