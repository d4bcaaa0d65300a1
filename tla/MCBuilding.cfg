SPECIFICATION NodeInputsSpec
CONSTANTS
    EvScenarios <- MCScenarios
    EvMaxBlocks = 1
    EvConfirmations = 0
    EvGallop = 1
    MpChannel = 1
    MpRootsPerTx = 2
    MpFees = {1}
    MpDeviation = 10
    BbTxLimit = 2
    BbRootsPerBlock = 1
    UdScenarios <- MCUpgradeScenarios
    UdMaxL1 = 3
    UdLookbehind = 2
    UdWindow = 2
    UdLive = {301, 310}
    UdLocal = FALSE
    UdMaxFails = 1
    TaNodes = {"a", "b"}
    TaFirstLeader = "b"
    TaMaxCalls = 2
    TaMaxClient = 2
    TaMaxMoves = 1
    TaMaxRejects = 1
    TaLimited = {"b"}
    TaMaxCredit = 1
    TaReopenCredit = 1
    TaDeficit = 0
    TaRate = 1
    TaBlockGas = 1
    FeBlobs = TRUE
    FeL1Fees = {2, 30}
    FePrices = {1, 4}
    FeFallback = 2
    FeNativeUsd = 20
    FeMaxSamples = 2
    FeChunk = 2
    FeCap = 60
    FeNativePerByte = 1
    FeDeviation = 10
    FeAttempts = 1
    FeFills = {1, 4}
    FeBlobSize = 4
    FeMaxL1 = 3
    FeMaxBlocks = 2
    FeMaxSidecars = 1
    FeMaxFaults = 1
    LcTags = {"a", "b"}
    LcStart = 2
    LcMaxLen = 5
    LcMaxReorgs = 1
    LcDepth = 2
    LcCapacity = 3
    LcDeployed = 2
INVARIANTS  L1ReadExact 
PROPERTIES FeesTrack
CHECK_DEADLOCK FALSE
