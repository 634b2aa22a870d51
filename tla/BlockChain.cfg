SPECIFICATION MCSpec
CONSTANTS
    g = g
    a1 = a1
    a2 = a2
    a3 = a3
    a4 = a4
    b1 = b1
    b2 = b2
    c2 = c2
    m1 = m1
    m2 = m2
    t1 = t1
    t2 = t2
    t3 = t3
    None = None
    Genesis = g
    Blocks <- MCBlocks
    Parent <- MCParent
    Number <- MCNumber
    Difficulty <- MCDifficulty
    MaxNumber <- MCMaxNumber
    Txs <- MCTxs
    TxsOf <- MCTxsOf
    MinedHere = {m1}
INVARIANTS HeadSound ImportedIndex
PROPERTIES ForkChoice ImportReturns
CHECK_DEADLOCK FALSE
