CONSTANTS
    Processes = {p1, p2, p3}
    NFiles = 2
    MaxVersion = 2
    MaxEvents = 4
SPECIFICATION Spec
INVARIANTS RootHoldsBundle CacheIsUsed
PROPERTY LoadEnds
CHECK_DEADLOCK FALSE
