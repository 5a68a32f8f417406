CONSTANTS
    Mutators = {m1}
    Worker = w
    Waiters = {}
    YoungThreshold = 3
    OldThreshold = 3
    MaxId = 3
    MaxRef = 0
    MaxEdge = 9
    MaxPin = 0
    MaxFinalizer = 0
    MaxRequest = 0
    Fields = {f1, f2}
    NoValue = NoValue
SPECIFICATION ObjectSpec
INVARIANT FieldKeepsAlive
CHECK_DEADLOCK FALSE
