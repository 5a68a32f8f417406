CONSTANTS
    s1 = s1
    n1 = n1
    n2 = n2
    gone = gone
    None = None
    Loaders = {l1}
    Files <- MCFiles
    Threads = {t1, t2}
    Symbols = {s1}
    Natives = {n1, n2, gone}
    Missing = {gone}
    Fns = {0}
    HostSymbols = {s1}
    Owned <- MCOwned
    Loaded <- MCLoaded
SPECIFICATION Spec
INVARIANTS OnlyCopiesMixUp BundleSymbolsAgree
PROPERTY CallEnds
CHECK_DEADLOCK FALSE
