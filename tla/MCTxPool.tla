------------------------------- MODULE MCTxPool -------------------------------
EXTENDS TxPool

CONSTANTS A, B, a0, a1, a2, r1, b0, b1

\* Transactions are numbered by their nonces; r1 is a dearer replacement of a1.
MCFrom == [t \in Txs |-> IF t \in {b0, b1} THEN B ELSE A]
MCNonce == [t \in Txs |-> IF t \in {a0, b0} THEN 0 ELSE IF t \in {a1, r1, b1} THEN 1 ELSE 2]
MCPrice == [t \in Txs |-> IF t = r1 THEN 2 ELSE 1]
MCCost == [t \in Txs |-> IF t = r1 THEN 3 ELSE IF t \in {a1, b1} THEN 2 ELSE 1]

\* A transaction with its replacement, and an account's transactions in the wrong order.
MCBatches == {<<a1, r1>>, <<b1, b0>>}
===============================================================================
