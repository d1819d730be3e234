CONSTANTS
    KeypoolSize = 2
    MaxKeys = 10
    MaxOutputs = 2
SPECIFICATION Spec
CONSTRAINT KeyBound
INVARIANT TypeOK NoAssertAbort
