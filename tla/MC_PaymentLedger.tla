--------------------------- MODULE MC_PaymentLedger ---------------------------
EXTENDS PaymentLedger

CONSTANTS n1, n2, v1, v2, t1, t2

MC_Nodes == {n1, n2}
MC_Vins == {v1, v2}
MC_OneNode == {n1}
\* Two collaterals in two transactions ...
MC_TxOf == [v \in Vins |-> IF v = v1 THEN t1 ELSE t2]
\* ... or both outputs of one transaction.
MC_SharedTx == [v \in Vins |-> t1]
MC_Registry == <<v1, v2>>
\* Distinct scores for the two transactions, their order flipping with the
\* parity of the block hash.
MC_VoteScore == [k \in -LOOKBACK..(MaxTip + AHEAD) |->
                    [t \in {t1, t2} |->
                        IF (k % 2 = 0) = (t = t1) THEN 1 ELSE 2]]
=============================================================================
