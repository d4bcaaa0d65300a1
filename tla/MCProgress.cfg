\* Every component at the smallest size at which all of its steps happen.
CONSTANTS
    MaxBatch = 2
    MaxEvents = 3
    Sizes = {1, 2}
    NoBatch = NoBatch
    MaxCrashes = 1
    Nodes = {n1, n2}
    Payloads = {a}
    MaxLog = 1
    MaxTerm = 2
    MaxUntimelyCrashes = 0
    Timeliness = {TRUE}
    NoNode = NoNode
    NoBlock = NoBlock
    MaxNonce = 4
    MaxFee = 2
    MaxEvictions = 1
    MaxReorgs = 0
    Contents = {c1}
    NoTx = NoTx
    Windows = {2}
    ForceModes = {FALSE, TRUE}
    Lookups = {FALSE, TRUE}
    ArcBackends = {"fs"}
    ArcMaxBlock = 2
    ArcQueueSize = 1
    ArcMaxPuts = 2
    ArcBatchSize = 2
    ArcMaxCrashes = 1
    ArcMaxForks = 1
    RsMainNodes = {"m1"}
    RsSlots = 1
    RsFirstBlock = 1
    RsMaxBlock = 4
    RsPerMessage = 3
    RsMaxPerMessage = 2
    RsWire = 2
    RsMaxFaults = 2
    CkSigners = {"u1", "u2"}
    CkBad = {"u1", "u2"}
    CkMaxBlock = 3
    CkMaxCrashes = 1
    CkVersions = {6, 99}
    CkSpec = {6}
    CkMaxBlobFee = 30
    VmMaxTxs = 3
SPECIFICATION ProgressSpec
PROPERTIES   BatchesSettle
CHECK_DEADLOCK FALSE
