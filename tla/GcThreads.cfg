CONSTANTS
    Mutators = {m1, m2}
    Worker = w
    Waiters = {m1}
    YoungThreshold = 0
    OldThreshold = 1
    MaxId = 2
    MaxRef = 1
    MaxEdge = 0
    MaxPin = 0
    MaxFinalizer = 2
    MaxRequest = 1
SPECIFICATION FairSpec
INVARIANTS TablesMatchHeap PhantomOnce FinalizerOnce
PROPERTIES WaiterReturns RequestServed StopJoins ImplementsHeap
CHECK_DEADLOCK FALSE
