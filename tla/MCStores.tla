------------------------------ MODULE MCStores ------------------------------
(***************************************************************************)
(* What the node keeps and the proofs it makes of it: the block stores of  *)
(* a node, the state tree and the prover inputs read from it, the archive  *)
(* of replay records, RocksDB instances, the store of FRI proofs, the      *)
(* priority tree, message proofs, and the commitments of batches.  The     *)
(* components share no state here, so a behaviour runs one of them and the *)
(* others stay in an initial state.                                        *)
(***************************************************************************)
EXTENDS NodeStorage

CONSTANTS
    TreeDepth, TreeKeys, MaxTreeVersions, MaxTruncations, MaxEntries, MaxReads,
    GenesisKeys, PgKeys, PgMaxVersions, PgMaxTruncations, PgMaxEntries, PgMaxReads, PgGenesis,
    PgInFlight, PgMaxQueries, PgRange, PgV8From, ArcBackends, ArcMaxBlock, ArcQueueSize,
    ArcMaxPuts, ArcBatchSize, ArcMaxCrashes, ArcMaxForks, PsKinds, PsKeys, PsSizes, PsCapacity,
    PsBurst, PsMaxTime,
    PsMaxCrashes, MmMaxDepth, PtMaxBatches, PtBlocks, PtChannel, PtMaxCrashes, MpMaxBatches,
    MpPerBlock, MpLogDepth, MpMaxLogs, MpValues, MpMaxCommits, BcChains, BcMode, BcVerifiers,
    BcAccepted, BcThreshold, BcWindow, BcMaxPerBatch, BcMaxReverts, BcMaxJobs, BcMaxRestarts

VARIABLES
    active,   \* the component that runs
    treeDb, treePatch, treeTruncations, treeLog, treeProof, pgDb, pgPatch, pgTruncations, pgLog,
    pgProof, pgDisabled, pgRange, pgInput, pgPending, pgFirst, pgOut, pgExact, arcBackend,
    arcPhase, arcGenesisNew, arcWal, arcNext, arcPending, arcQueue, arcPuts, arcTemps,
    arcObjects, arcCommitted, arcDisk, arcPage, arcCrashes, arcForks, psKind, psFiles, psQueue,
    psOutdated, psSize, psNow, psInSecond, psWrites, psOp, psNext, psUp, psCrashes, psLast,
    psKept, psErrors, psPeek, ptMain, ptBatches, ptExec, ptFinal, ptProven, ptTree, ptInit,
    ptLast, ptQueue, ptDb, ptSent, ptCrashes, mpBlocks, mpLeaves, mpAnswer, bcPlan, bcChain,
    bcBatches, bcCache, bcL1, bcJobs, bcReverts, bcRestarts, bcFlaws

T == INSTANCE MerkleTree
I == INSTANCE ProverInput
    WITH TreeKeys <- PgKeys, MaxTreeVersions <- PgMaxVersions,
         MaxTruncations <- PgMaxTruncations, MaxEntries <- PgMaxEntries, MaxReads <- PgMaxReads,
         GenesisKeys <- PgGenesis, treeDb <- pgDb, treePatch <- pgPatch,
         treeTruncations <- pgTruncations, treeLog <- pgLog, treeProof <- pgProof
A == INSTANCE ReplayArchive
S == INSTANCE ProofStore
P == INSTANCE PriorityTree
M == INSTANCE MessageProofs
B == INSTANCE BatchCommitments

tVars == <<treeDb, treePatch, treeTruncations, treeLog, treeProof>>
iVars == <<pgDb, pgPatch, pgTruncations, pgLog, pgProof, pgDisabled, pgRange, pgInput,
           pgPending, pgFirst, pgOut, pgExact>>
aVars == <<arcBackend, arcPhase, arcGenesisNew, arcWal, arcNext, arcPending, arcQueue, arcPuts,
           arcTemps, arcObjects, arcCommitted, arcDisk, arcPage, arcCrashes, arcForks>>
sVars == <<psKind, psFiles, psQueue, psOutdated, psSize, psNow, psInSecond, psWrites, psOp,
           psNext, psUp, psCrashes, psLast, psKept, psErrors, psPeek>>
pVars == <<ptMain, ptBatches, ptExec, ptFinal, ptProven, ptTree, ptInit, ptLast, ptQueue, ptDb,
           ptSent, ptCrashes>>
mVars == <<mpBlocks, mpLeaves, mpAnswer>>
bVars == <<bcPlan, bcChain, bcBatches, bcCache, bcL1, bcJobs, bcReverts, bcRestarts, bcFlaws>>

\* A genesis of the tree, batches of priority operations, and chains of three blocks
\* across the versions 30, 31 and 32 with and without an upgrade transaction, priority
\* transactions, interop roots and logs.
MCGenesis == <<3>>
MCPgGenesis == <<2>>
MCBlocks == {<<0>>, <<1>>, <<2>>, <<1, 2>>}
Tx(kind, id) == [kind |-> kind, id |-> <<id>>]
Plan(ver, txs, logs) == [ver |-> ver, txs |-> txs, logs |-> logs, sl |-> <<"sl chain id">>]
MCTo31 == <<Plan(30, <<Tx("l1", "p1"), Tx("l2", "a")>>, <<"log">>),
            Plan(30, <<Tx("l1", "p2")>>, <<>>),
            Plan(31, <<Tx("upgrade", "u31"), Tx("system", "sl")>>, <<>>)>>
MCTo32 == <<Plan(31, <<Tx("roots", "r1"), Tx("l2", "a")>>, <<>>),
            Plan(32, <<Tx("upgrade", "u32")>>, <<"log">>),
            Plan(32, <<Tx("roots", "r2"), Tx("l1", "p1")>>, <<>>)>>
MC32 == <<Plan(32, <<Tx("l2", "a")>>, <<"log">>), Plan(32, <<>>, <<>>), Plan(32, <<Tx("l1", "p1")>>, <<>>)>>
MCChains == {MCTo31, MCTo32, MC32}

StoresInit ==
    /\ active \in {"node", "tree", "inputs", "archive", "db", "proofs", "priority", "messages", "commitments"}
    /\ StorageInit /\ (active # "node" => role = "main")
    /\ T!TreeInit
    /\ I!InputsInit /\ (active # "inputs" => ~pgDisabled)
    /\ A!ArchiveInit /\ (active # "archive" => arcBackend = "fs")
    /\ DbInit
    /\ S!Init /\ (active # "proofs" => psKind = "failed")
    /\ P!PriorityInit /\ (active # "priority" => ptMain)
    /\ M!MessagesInit
    /\ B!CommitmentsInit /\ (active # "commitments" => bcPlan = MC32)

\* The variables of every component but x.
Others(x) ==
    /\ UNCHANGED active
    /\ IF x # "node" THEN UNCHANGED storageVars ELSE TRUE
    /\ IF x # "tree" THEN UNCHANGED tVars ELSE TRUE
    /\ IF x # "inputs" THEN UNCHANGED iVars ELSE TRUE
    /\ IF x # "archive" THEN UNCHANGED aVars ELSE TRUE
    /\ IF x # "db" THEN UNCHANGED dbVars ELSE TRUE
    /\ IF x # "proofs" THEN UNCHANGED sVars ELSE TRUE
    /\ IF x # "priority" THEN UNCHANGED pVars ELSE TRUE
    /\ IF x # "messages" THEN UNCHANGED mVars ELSE TRUE
    /\ IF x # "commitments" THEN UNCHANGED bVars ELSE TRUE

StoresNext ==
    \/ active = "node" /\ StorageNext /\ Others("node")
    \/ active = "tree" /\ T!TreeNext /\ Others("tree")
    \/ active = "inputs" /\ I!InputsNext /\ Others("inputs")
    \/ active = "archive" /\ A!ArchiveNext /\ Others("archive")
    \/ active = "db" /\ DbNext /\ Others("db")
    \/ active = "proofs" /\ S!Next /\ Others("proofs")
    \/ active = "priority" /\ P!PriorityNext /\ Others("priority")
    \/ active = "messages" /\ M!MessagesNext /\ Others("messages")
    \/ active = "commitments" /\ B!CommitmentsNext /\ Others("commitments")

StoresSpec ==
    StoresInit /\ [][StoresNext]_<<active, storageVars, tVars, iVars, aVars,
        dbVars, sVars, pVars, mVars, bVars>>

-----------------------------------------------------------------------------
(* After any crash, reorganisation or rebuild the stores of a node agree on  *)
(* its blocks, every block a reader is shown can be read, and the main node  *)
(* comes up again; a batch that passes the gate has its blocks in the        *)
(* archive; a database whose termination is reported is closed (lib.rs,      *)
(* determine_starting_block; the storage, archive and rocksdb crates).       *)
StoresRecover ==
    /\ active = "node" => StoresAgree /\ ReadsFindBlock /\ MainNodeRecovers
    /\ active = "archive" => A!CommittedIsArchived
    /\ active = "db" => TerminationMeansClosed

(* The tree holds every version as written, over truncations, each batch     *)
(* proof verifies against the root it was made for, and the prover is given  *)
(* exactly what the block read (merkle_tree, prover_input_generator).        *)
TreesExact ==
    /\ active = "tree" => T!TreeHoldsHistory /\ T!ProofsVerify
    /\ active = "inputs" => I!ProofsVerify /\ I!ProverInputsExact

\* The store of proofs counts and evicts exactly the files of its directory, over
\* crashes in the middle of a save, and peeking misses no proof that is there
\* (proof_storage.rs).
ProofsTracked == active = "proofs" => S!DirectoryTracked /\ S!PeeksComplete

(* A proof of a priority operation or of an L2 to L1 message, made from a    *)
(* cached or partly dropped tree, leads to the root that L1 computes; node,  *)
(* verifiers, provers and L1 derive the same commitment of a batch, and a    *)
(* witness binds its blocks (mini_merkle_tree, priority_tree,                *)
(* log_proof_utils, batch_types, contract_interface).                        *)
L1AcceptsProofs ==
    /\ active = "priority" => P!PriorityProofsVerify
    /\ active = "messages" => M!MessageProofsVerify
    /\ active = "commitments" => B!SettlementAgrees /\ B!WitnessesBindBlocks
=============================================================================
