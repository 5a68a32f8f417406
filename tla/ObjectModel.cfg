CONSTANTS
    Mutators = {m1, m2}
    Worker = w
    Waiters = {}
    YoungThreshold = 3
    OldThreshold = 3
    MaxId = 3
    MaxRef = 0
    MaxEdge = 9
    MaxPin = 0
    MaxFinalizer = 0
    MaxRequest = 1
    Fields = {f1}
    NoValue = NoValue
SPECIFICATION ObjectSpec
INVARIANTS ReturnedObjectLives StoreMatchesReturned EdgesComeFromFields
SYMMETRY ObjectSymmetry
CHECK_DEADLOCK FALSE
