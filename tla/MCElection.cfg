CONSTANTS
    v1 = v1
    v2 = v2
    a1 = a1
    a2 = a2
    k1 = k1
    k2 = k2
    NoPayee = NoPayee
    LedgerPayees <- MC_LedgerNone
    Vins <- MC_Vins
    Addrs <- MC_Addrs
    Keys <- MC_Keys
    CollateralKey <- MC_CollateralKey
    OperatorAddrs <- MC_HomeAddrs
    Protos <- MC_Protos
    OperatorProto <- MC_OperatorProto
    ScoreOf <- MC_ScoreOf
    MIN_MN_PROTO_VERSION = 70000
    MinProtocol = 70000
    MIN_DSEE = 1
    MIN_DSEEP = 2
    FUTURE_TOL = 1
    EXPIRATION = 2
    REMOVAL = 3
    ACTIVE_MIN = 1
    CYCLE_MIN = 1
    CYCLE_MAX = 3
    T0 = 3
    MaxTime = 4
    InitHeight = 1
    MaxHeight = 3
    ForgeLastUpdated = FALSE
    AllowRestart = FALSE

SPECIFICATION ElectionSpec
CONSTRAINT ElectionBound
INVARIANT ElectionTypeOK
INVARIANT ElectedIsReferenceWinner
INVARIANT OwnPayeeIsValid
