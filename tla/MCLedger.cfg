CONSTANTS
    n1 = n1
    n2 = n2
    v1 = v1
    v2 = v2
    t1 = t1
    t2 = t2
    NoRec = NoRec
    Nodes <- MC_Nodes
    Master = n1
    Vins <- MC_Vins
    TxOf <- MC_TxOf
    Registry <- MC_Registry
    EnabledVins <- MC_Vins
    VoteScore <- MC_VoteScore
    LOOKBACK = 3
    BACK = 1
    AHEAD = 2
    VOTE_AHEAD = 1
    CLEAN_MIN = 1
    InitTip = 6
    MaxTip = 10
SPECIFICATION LedgerSpec
INVARIANT OrderIndependent

