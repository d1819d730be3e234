CONSTANTS
    NOT_PROCESSED = NOT_PROCESSED
    SYNC_IN_PROCESS = SYNC_IN_PROCESS
    INPUT_TOO_NEW = INPUT_TOO_NEW
    NOT_CAPABLE = NOT_CAPABLE
    IS_CAPABLE = IS_CAPABLE
    REMOTELY_ENABLED = REMOTELY_ENABLED
    STOPPED = STOPPED
    MaxRpc = 3
    MaxRestarts = 1
    IbdCanReturn = FALSE
    AliasStopWhileRunning = TRUE
    InitWhileRunning = FALSE
    Conf <- MC_Conf
SPECIFICATION Spec
PROPERTY KeepsPinging
