----------------------------- MODULE MCBuilding -----------------------------
(***************************************************************************)
(* What enters a block: the L1 watchers, the pool and the building of      *)
(* blocks, the data of a protocol upgrade, the admission of transactions,  *)
(* fees, and the cache of L1 logs the watchers read through.  The          *)
(* components share no state here, so a behaviour runs one of them and the *)
(* others stay in an initial state.                                        *)
(***************************************************************************)
EXTENDS Integers, Sequences

CONSTANTS
    EvScenarios, EvMaxBlocks, EvConfirmations, EvGallop, MpChannel, MpRootsPerTx,
    MpFees, MpDeviation, BbTxLimit, BbRootsPerBlock, UdScenarios, UdMaxL1, UdLookbehind,
    UdWindow, UdLive, UdLocal, UdMaxFails, TaNodes, TaFirstLeader, TaMaxCalls, TaMaxClient,
    TaMaxMoves, TaMaxRejects, TaLimited, TaMaxCredit, TaReopenCredit, TaDeficit, TaRate,
    TaBlockGas, FeBlobs, FeL1Fees, FePrices, FeFallback, FeNativeUsd, FeMaxSamples, FeChunk,
    FeCap, FeNativePerByte, FeDeviation, FeAttempts, FeFills, FeBlobSize, FeMaxL1, FeMaxBlocks,
    FeMaxSidecars, FeMaxFaults, LcTags, LcStart, LcMaxLen, LcMaxReorgs, LcDepth,
    LcCapacity, LcDeployed

VARIABLES
    active,   \* the component that runs
    evCase, evHead, evWatch, mpUp, mpRoots, mpFee, mpL1, mpStream, mpFail, bbStage, bbWal, bbNext,
    bbTo, bbRebuild, bbLast, bbBlock, bbCrashes, udCase, udL1, udV31, udCur, udTask, udPushed,
    udFails, taReq, taPool, taLeader, taStatus, taIncluded, taApplied, taPurged, taBank,
    taMoves, taRejects, feL1, feStats, fePubdata, feSidecars, feFill, fePrice, feFetch, feKnown,
    feOnL1, fePrevious, feChain, feReplayed, feFaults, lcCaps, lcChain, lcReorgs, lcLatest,
    lcFinal, lcFirst, lcBlocks, lcSynced, lcTarget, lcStack, lcFloor, lcRead, lcAnswer, lcMixed,
    lcPart, lcSearch

B == INSTANCE BlockBuilding
U == INSTANCE UpgradeData
T == INSTANCE TxAdmission
F == INSTANCE FeePricing
L == INSTANCE L1LogsCache

bVars == <<evCase, evHead, evWatch, mpUp, mpRoots, mpFee, mpL1, mpStream, mpFail, bbStage,
           bbWal, bbNext, bbTo, bbRebuild, bbLast, bbBlock, bbCrashes>>
uVars == <<udCase, udL1, udV31, udCur, udTask, udPushed, udFails>>
tVars == <<taReq, taPool, taLeader, taStatus, taIncluded, taApplied, taPurged, taBank, taMoves,
           taRejects>>
fVars == <<feL1, feStats, fePubdata, feSidecars, feFill, fePrice, feFetch, feKnown, feOnL1,
           fePrevious, feChain, feReplayed, feFaults>>
lVars == <<lcCaps, lcChain, lcReorgs, lcLatest, lcFinal, lcFirst, lcBlocks, lcSynced, lcTarget,
           lcStack, lcFloor, lcRead, lcAnswer, lcMixed, lcPart, lcSearch>>

(* Scenarios of block building: the chain's first version, the L1 head at    *)
(* the start, the L1 blocks with their events, the blocks to build, and the  *)
(* crashes.                                                                  *)
Ev(k, id, ver) == [k |-> k, id |-> id, ver |-> ver]
Case(genesis, l1Head, l1, blocks, stops) ==
    [genesis |-> genesis, head |-> l1Head, l1 |-> l1, blocks |-> blocks, crashes |-> stops,
     rebuild |-> FALSE, fees |-> FALSE, upgradeFirst |-> FALSE]

\* Two priority requests in one window; a rebuild of up to three blocks after a stop.
MCPriority ==
    [Case(302, 1, << <<Ev("l1", 0, 0), Ev("l1", 1, 0)>> >>, 3, 1) EXCEPT !.rebuild = TRUE]
\* A patch, then an upgrade with a transaction; a restart.
MCUpgrades ==
    Case(302, 1, << <<Ev("up", 302, 303), Ev("exec", 0, 303)>>, <<Ev("up", 303, 310), Ev("exec", 0, 310)>> >>, 3, 1)
\* Interop roots in windows of their own, and fees; with three blocks, or a restart.
MCInterop(blocks, stops) ==
    [Case(320, 1, << <<Ev("root", 0, 0)>>, <<Ev("root", 1, 0)>> >>, blocks, stops) EXCEPT !.fees = TRUE]
MCScenarios == {MCPriority, MCUpgrades, MCInterop(3, 0), MCInterop(2, 1)}

(* Scenarios of upgrade data: a CTM older than v31, one of v31, and one that *)
(* is upgraded while the chain's own upgrade is registered.                  *)
Up(old, new, deps) == [k |-> "up", old |-> old, new |-> new, deps |-> deps]
Code(h) == [k |-> "code", hash |-> h]
MCRegistered == {<<Code("a")>>, <<Code("b")>>, <<Up(300, 310, {"a", "b"}), Up(300, 310, {"b"})>>, <<Up(300, 310, {"a", "b"})>>}
MCOldCtm ==
    [v31 |-> FALSE, old |-> 300, blocks |-> MCRegistered \union {<<Up(300, 301, {})>>, <<Up(310, 320, {})>>}]
MCUpgradeScenarios ==
    {MCOldCtm, [MCOldCtm EXCEPT !.v31 = TRUE], [MCOldCtm EXCEPT !.blocks = MCRegistered \union {<<[k |-> "ctm"]>>}]}

NodeInputsInit ==
    /\ active \in {"building", "upgrades", "admission", "fees", "logs"}
    /\ B!BuildingInit /\ (active # "building" => evCase = MCUpgrades)
    /\ U!UpgradeDataInit /\ (active # "upgrades" => udCase = MCOldCtm)
    /\ T!AdmissionInit
    /\ F!FeesInit /\ (active # "fees" => feL1 = <<2, 2>> /\ feKnown = 1)
    /\ L!CacheInit /\ (active # "logs" => lcPart = "cache")

\* The variables of every component but x.
Others(x) ==
    /\ UNCHANGED active
    /\ IF x # "building" THEN UNCHANGED bVars ELSE TRUE
    /\ IF x # "upgrades" THEN UNCHANGED uVars ELSE TRUE
    /\ IF x # "admission" THEN UNCHANGED tVars ELSE TRUE
    /\ IF x # "fees" THEN UNCHANGED fVars ELSE TRUE
    /\ IF x # "logs" THEN UNCHANGED lVars ELSE TRUE

NodeInputsNext ==
    \/ active = "building" /\ B!BuildingNext /\ Others("building")
    \/ active = "upgrades" /\ U!UpgradeDataNext /\ Others("upgrades")
    \/ active = "admission" /\ T!AdmissionNext /\ Others("admission")
    \/ active = "fees" /\ F!FeesNext /\ Others("fees")
    \/ active = "logs" /\ L!CacheNext /\ Others("logs")

NodeInputsSpec ==
    NodeInputsInit /\ [][NodeInputsNext]_<<active, bVars, uVars, tVars, fVars, lVars>>

-----------------------------------------------------------------------------
(* What the blocks hold and what the pool keeps fit together: an accepted    *)
(* priority request, upgrade or root is in the pool or in a block, once, and *)
(* blocks take them in the order of L1, over restarts and rebuilds (pool.rs  *)
(* and its subpools, block_context_provider.rs).                             *)
InputsIncluded == active = "building" => B!PoolConsistent /\ B!InputsInOrder

(* What is read from L1 is what L1 holds: the upgrade handed to the pool is  *)
(* the last one registered for the chain's version with the code it deploys, *)
(* and the log cache answers from the canonical chain over reorganisations   *)
(* and finds a deployment (upgrade_tx_watcher.rs, logs_cache.rs).            *)
L1ReadExact ==
    /\ active = "upgrades" => U!UpgradeFetchedExact
    /\ active = "logs" => L!CacheFollowsHead /\ L!DeploymentFound

(* A synchronous send returns only when its block is there to read, and the  *)
(* pools hold exactly the transactions that were answered with a hash        *)
(* (tx_handler.rs, tx forwarding).                                           *)
AdmissionConsistent == active = "admission" => T!SyncSeesBlock /\ T!PoolMatchesAnswers

(* Fees move by their rules only, and a replayed block keeps those it was    *)
(* produced with (fee_provider.rs); an iteration of the adjuster that writes *)
(* nothing leaves the ratio of L1 within the deviation of the price, unless  *)
(* L1 undid an update or included one late (base_token_adjuster).            *)
FeesTrack == [](active = "fees" => F!FeesSteady) /\ F!RatioTracksPrice
=============================================================================
