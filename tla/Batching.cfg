\* Three chains, a crash of the main node, a verifier that restarts, a request that times out early.
CONSTANTS
    MaxBlock = 3
    Chains <- MCChains
    WeightLimit = 2
    Verifiers = {v1}
    Threshold = 1
    PendingModes = {FALSE, TRUE}
    MaxFaults = 1
SPECIFICATION FairSpec
INVARIANTS SealRules OwnCommitsAccepted  DrainedStartup
PROPERTY AllBlocksCommitted
CHECK_DEADLOCK FALSE
