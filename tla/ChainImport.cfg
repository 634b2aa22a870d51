SPECIFICATION Spec
CONSTANTS
    g = g
    a1 = a1
    a2 = a2
    a3 = a3
    b1 = b1
    z2 = z2
    z3 = z3
    n2 = n2
    f2 = f2
    None = None
    Genesis = g
    Blocks <- MCBlocks
    Parent <- MCParent
    Number <- MCNumber
    Difficulty <- MCDifficulty
    MaxNumber <- MCMaxNumber
    Time <- MCTime
    Chains <- MCChains
    BadNonce = {n2}
    BadBody = {z2}
    MaxTime = 2
    MaxCalls = 2
    MaxAhead = 1
    MaxFuture = 3
 
PROPERTIES  FutureImported HeadAnnounced
CHECK_DEADLOCK FALSE
