SPECIFICATION Spec
CONSTANTS
    A = A  B = B  a0 = a0  a1 = a1  a2 = a2  r1 = r1  b0 = b0  b1 = b1
    Accounts = {A, B}
    Txs = {a0, a1, r1, b0, b1}
    From <- MCFrom
    Nonce <- MCNonce
    Price <- MCPrice
    Cost <- MCCost
    Batches <- MCBatches
    Nonces = {0, 1}
    Balances = {1, 3}
    Moving = {A}
    Locals = {b1}
    Prices = {1, 2}
    MaxClock = 1
    MinPendingPerAccount = 1
    MaxPendingTotal = 2
    MaxQueuedPerAccount = 2
    MaxQueuedInTotal = 2
    MaxQueuedLifetime = 0
    TxSetDuration = 0
    MaxLocal = 1
  
PROPERTIES ResetSettles
