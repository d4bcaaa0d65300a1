\* A session with a smaller window than the one before it.
CONSTANTS
    MaxBatch = 2
    MaxNonce = 3
    MaxFee = 2
    MaxEvictions = 1
    MaxReorgs = 0
    Contents = {c1}
    Genesis = g
    NoTx = NoTx
    Windows = {1, 2}
    ForceModes = {FALSE}
    Lookups = {TRUE}
    MaxCrashes = 1
SPECIFICATION FairSpec
PROPERTIES
    EvictedIsResent
CHECK_DEADLOCK FALSE
