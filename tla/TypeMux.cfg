SPECIFICATION FairSpec
CONSTANTS
    s1 = s1
    s2 = s2
    e1 = e1
    e2 = e2
    k1 = k1
    k2 = k2
    None = None
    Subs = {s1, s2}
    Events = {e1}
    Kinds = {k1, k2}
    Closers = {c1, c2}
    Wants <- MCWants
    Kind <- MCKind
INVARIANTS ChannelSafe UnsubscribeCloses PostDelivers
PROPERTY ClosersReturn
CHECK_DEADLOCK FALSE
