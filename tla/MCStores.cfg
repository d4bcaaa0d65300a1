SPECIFICATION StoresSpec
CONSTANTS
    Roles = {"main", "external"}
    MaxBlock = 3
    MinBlocksToReplay = 1
    Retain = 1
    MaxFaults = 2
    MaxReorgs = 1
    TreeDepth = 4
    TreeKeys = {1, 2, 3}
    MaxTreeVersions = 3
    MaxTruncations = 1
    MaxEntries = 2
    MaxReads = 0
    GenesisKeys <- MCGenesis
    PgKeys = {1, 2}
    PgMaxVersions = 3
    PgMaxTruncations = 0
    PgMaxEntries = 1
    PgMaxReads = 1
    PgGenesis <- MCPgGenesis
    PgInFlight = 2
    PgMaxQueries = 2
    PgRange = 2
    PgV8From = 2
    ArcBackends = {"fs", "s3", "gcs"}
    ArcMaxBlock = 2
    ArcQueueSize = 1
    ArcMaxPuts = 2
    ArcBatchSize = 2
    ArcMaxCrashes = 1
    ArcMaxForks = 1
    Dbs = {"wal", "tree"}
    DbMaxHandles = 2
    DbMaxOpens = 3
    DbTimeout = 1
    DbMaxWrites = 1
    PsKinds = {"batches", "failed"}
    PsKeys = {1, 2}
    PsSizes = {1, 2, 5}
    PsCapacity = 4
    PsBurst = 1
    PsMaxTime = 4
    PsMaxCrashes = 1
    MmMaxDepth = 4
    PtMaxBatches = 3
    PtBlocks <- MCBlocks
    PtChannel = 2
    PtMaxCrashes = 1
    MpMaxBatches = 5
    MpPerBlock = 4
    MpLogDepth = 2
    MpMaxLogs = 4
    MpValues = {1, 2, 3, 4, 5}
    MpMaxCommits = 5
    BcChains <- MCChains
    BcMode = "blobs"
    BcVerifiers = {"v1"}
    BcAccepted = {"v1"}
    BcThreshold = 1
    BcWindow = 2
    BcMaxPerBatch = 2
    BcMaxReverts = 1
    BcMaxJobs = 1
    BcMaxRestarts = 1
INVARIANTS StoresRecover TreesExact  L1AcceptsProofs
CHECK_DEADLOCK FALSE
