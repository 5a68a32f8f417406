CONSTANTS
    Mutators = {m1}
    Worker = w
    Waiters = {}
    YoungThreshold = 2
    OldThreshold = 2
    MaxId = 3
    MaxRef = 0
    MaxEdge = 2
    MaxPin = 1
    MaxFinalizer = 0
    MaxRequest = 1
SPECIFICATION Spec
INVARIANTS YoungCountExact DanglesFromStrays
PROPERTIES ReachableSurvives MajorCollectsAll MinorAges ImplementsHeap
CHECK_DEADLOCK FALSE
