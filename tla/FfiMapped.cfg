CONSTANTS
    s1 = s1
    n1 = n1
    n2 = n2
    gone = gone
    None = None
    Loaders = {}
    Files = {}
    Threads = {t1}
    Symbols = {s1}
    Natives = {n1, n2, gone}
    Missing = {gone}
    Fns = {0, 1}
    HostSymbols = {}
    Owned = {}
    Loaded <- MCHeaders
SPECIFICATION Spec
INVARIANT CallsMapped
CHECK_DEADLOCK FALSE
