\* A commit left in the mempool by the session before, which the pending state does not show.
CONSTANTS
    MaxBlock = 3
    Chains <- PlainChain
    WeightLimit = 2
    Verifiers = {v1}
    Threshold = 1
    PendingModes = {FALSE}
    MaxFaults = 1
SPECIFICATION FairSpec
PROPERTY VerificationSucceeds
CHECK_DEADLOCK FALSE
