CONSTANTS
    v1 = v1
    v2 = v2
    a1 = a1
    a2 = a2
    k1 = k1
    k2 = k2
    Vins <- MC_OneVin
    Addrs <- MC_Addrs
    Keys <- MC_Keys
    CollateralKey <- MC_CollateralKey
    OperatorAddrs <- MC_HomeAddrs
    Protos <- MC_Protos
    OperatorProto <- MC_OperatorProto
    MIN_MN_PROTO_VERSION = 70000
    MIN_DSEE = 1
    MIN_DSEEP = 2
    FUTURE_TOL = 1
    EXPIRATION = 2
    REMOVAL = 3
    T0 = 3
    MaxTime = 7
    ForgeLastUpdated = FALSE
    AllowRestart = FALSE

SPECIFICATION Spec
CONSTRAINT ClockBound
PROPERTY StopTakesEffect
