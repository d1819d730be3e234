CONSTANTS
    a1 = a1
    a2 = a2
    a3 = a3
    Aliases <- MC_Aliases
    MaxLines = 2
    MaxRpc = 3
    MaxRestarts = 1
SPECIFICATION Spec
INVARIANT DiskHoldsRequested
