\* Two sessions of either mode, windows and contents that differ, an eviction,
\* a reorganisation and a failed lookup; or four events of L1 for the watchers.
CONSTANTS
    MaxBatch = 2
    MaxNonce = 3
    MaxFee = 2
    MaxEvictions = 1
    MaxReorgs = 1
    Contents = {c1, c2}
    Genesis = g
    NoTx = NoTx
    Windows = {1, 2}
    StopAndWaitWindows = {2}
    ForceModes = {FALSE, TRUE}
    Lookups = {FALSE, TRUE}
    MaxRpcErrors = 1
    MaxEvents = 4
    Sizes = {1, 2}
    NoBatch = NoBatch
    MaxCrashes = 1
SPECIFICATION ModesSpec
INVARIANTS ModesForwardCommitted PipelinedInOrder PipelinedResends PersistedIsExecuted ViewIsLive
 
CHECK_DEADLOCK FALSE
SYMMETRY Symmetry
