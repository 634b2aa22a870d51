SPECIFICATION FairFetchSpec
CONSTANTS
    p1 = p1
    p2 = p2
    Peers = {p1, p2}
    Master = p1
    Last = 2
    Pivot = 1
    CacheLimit = 2
    Verify = 1
    MinFetch = 2
    MaxFetch = 2
    Forgiven = 1
    Batches = {2}
    MaxQueued = 2
    MaxFaults = 1
    Exact = 4
    Empty <- MCEmpty
INVARIANTS AssignedOnce 
 
CHECK_DEADLOCK FALSE
