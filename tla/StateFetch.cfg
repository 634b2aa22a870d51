SPECIFICATION Spec
CONSTANTS
    pivotState = pivotState
    headState = headState
    acc1 = acc1
    acc2 = acc2
    code = code
    p1 = p1
    p2 = p2
    Hashes = {pivotState, headState, acc1, acc2, code}
    Raw = {code}
    Refs <- MCRefs
    Peers = {p1, p2}
    HeadRoot = headState
    PivotRoot = pivotState
    Count = 2
    MaxInFlight = 2
    MaxScheds = 4
    MaxFaults = 1
INVARIANTS Closed SyncedComplete Tracked
CHECK_DEADLOCK FALSE
SYMMETRY MCSymmetry
