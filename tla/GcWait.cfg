CONSTANTS
    Mutators = {m1}
    Worker = w
    Waiters = {m1}
    YoungThreshold = 2
    OldThreshold = 2
    MaxId = 1
    MaxRef = 0
    MaxEdge = 0
    MaxPin = 0
    MaxFinalizer = 1
    MaxRequest = 1
SPECIFICATION Spec
PROPERTY FinalizedOnReturn
CHECK_DEADLOCK FALSE
