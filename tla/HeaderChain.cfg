SPECIFICATION MCSpec
CONSTANTS
    g = g
    a1 = a1
    a2 = a2
    a3 = a3
    b1 = b1
    b2 = b2
    c2 = c2
    None = None
    MaxBatch = 2
    Genesis = g
    Blocks <- MCBlocks
    Parent <- MCParent
    Number <- MCNumber
    Difficulty <- MCDifficulty
    MaxNumber <- MCMaxNumber
    Chains <- MCChains
INVARIANTS NoNilUnlessRewound RewoundExact 
PROPERTIES ForkChoice LockedUnlessRewound
CHECK_DEADLOCK FALSE
