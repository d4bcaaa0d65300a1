SPECIFICATION ServicesSpec
CONSTANTS
    LfContents <- MCContents
    LfQueries <- MCQueries
    LfChunk = 2
    LfMaxBlock <- MCMaxBlock
    LfIndexFrom = 2
    LfMaxBlocks = 2
    LfMaxLogs = 2
    LfNotifications = 1
    LfMaxRollbacks = 1
    LfMaxPending = 1
    RrMaxBlock = 2
    RrMaxTxs = 2
    RrLead = 2
    RrBatchSize = 2
    RrPage = 1
    RrScan = 5
    RrAhead = FALSE
    RrTags <- MCTags
    FtMaxTxs = 2
    FtMaxFrames = 2
    FtMaxDepth = 2
    FtMaxWrites = 1
    FtValues = {1}
    FtTransient = FALSE
    FtAllowed = FALSE
    CsBlockGas = 24
    CsIntrinsic = 5
    CsStipend = 1
    CsRatio = 4
    CsFloor = 9
    CsNeeds = {5, 8, 10, 17}
    CsBalances = {0, 25, 200}
    CsBaseFee = 2
    CsWindow = 3
    CsParent = 2
    CsMaxBlocks = 2
    CsCallGas = 15
    PfRole = "main"
    PfBatching = TRUE
    PfKeep <- MCKeep
    PfBlockLimit = 0
    PfBatchLimit = 0
    PfBatch = 2
    PfCapacity = 3
    PfMaxBlock = 3
    PfCanStall = {"BlockApplier", "L1SenderCommit"}
    PfSignalBy = 0
    PfThreads = 1
    PfStopCap = 2
    VsPeers = {"e1", "e2"}
    VsTrusted = {"e2"}
    VsAccepted = {"e1"}
    VsSlots = 1
    VsMaxActive = 1
    VsMaxBlock = 1
    VsMaxConnects = 3
    VsMaxEvents = 2
    RlMaxIndex = 3
    RlMaxTerm = 2
    RlMaxCrashes = 1
    RtRpcs = {1, 2}
    RtMaxConns = 2
    MaxBatch = 3
    Provers = {p1}
    FakeWorkers = {f1}
    Versions = {v1}
    MaxRange = 0
    ProofsCapacity = 2
    NoProver = NoProver
    NoBatch = NoBatch
INVARIANTS    BacklogClosesGate EveryBatchInOnePlace CommitsExact NoLostWakeup
PROPERTIES LeaseKept
CHECK_DEADLOCK FALSE
