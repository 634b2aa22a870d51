SPECIFICATION Spec
CONSTANTS
    p1 = p1
    p2 = p2
    Peers = {p1, p2}
    Last = 4
    Pivot = 2
    CacheLimit = 2
    Verify = 1
    MaxFetch = 2
    Exact = 4
    Empty <- MCEmpty
INVARIANTS TasksKept ResultsComplete
PROPERTIES Implements
