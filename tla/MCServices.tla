----------------------------- MODULE MCServices -----------------------------
(***************************************************************************)
(* What the node serves and the services around the pipeline: log filters, *)
(* RPC reads, tracing, simulated calls, the limits of the pipeline, batch  *)
(* verifier sessions, raft's store and transport, and FRI proving.  The    *)
(* components share no state here, so a behaviour runs one of them and the *)
(* others stay in an initial state.                                        *)
(***************************************************************************)
EXTENDS PipelineFlow, FriProving

CONSTANTS
    LfContents, LfQueries, LfChunk, LfMaxBlock, LfIndexFrom, LfMaxBlocks, LfMaxLogs,
    LfNotifications, LfMaxRollbacks, LfMaxPending, RrMaxBlock, RrMaxTxs, RrLead, RrBatchSize,
    RrPage, RrScan, RrAhead, RrTags, FtMaxTxs, FtMaxFrames, FtMaxDepth, FtMaxWrites, FtValues,
    FtTransient, FtAllowed, CsBlockGas, CsIntrinsic, CsStipend, CsRatio, CsFloor, CsNeeds,
    CsBalances, CsBaseFee, CsWindow, CsParent, CsMaxBlocks, CsCallGas, VsPeers, VsTrusted,
    VsAccepted, VsSlots, VsMaxActive, VsMaxBlock, VsMaxConnects, VsMaxEvents, RlMaxIndex,
    RlMaxTerm, RlMaxCrashes, RtRpcs, RtMaxConns

VARIABLES
    active,   \* the component that runs
    lfClient, lfChain, lfPersisted, lfBitmaps, lfFirst, lfLast, lfRollbacks, lfFilter, lfPoll,
    lfGot, lfNext, lfPending, lfSub, rrBlocks, rrWal, rrState, rrRepo, rrCtx, rrPool, rrSent,
    rrSafe, rrFinal, rrBatch, rrCall, rrPaging, vm, ct, js, pt, df, csEst, csSim, vsConns,
    vsRegistry, vsEvents, vsSessions, vsDispatched, vsConnects, rlLogs, rlVote, rlCommitted,
    rlMembership, rlBlockLogId, rlSent, rlWal, rlApplied, rlLog, rlCrashes, rtConns, rtPeers,
    rtPending, rtRpcs, rtWire, rtBoot

L == INSTANCE LogFilters
R == INSTANCE RpcReads
T == INSTANCE FrameTracing
S == INSTANCE CallSimulation
V == INSTANCE VerifierSessions
N == INSTANCE RaftNode

lVars == <<lfClient, lfChain, lfPersisted, lfBitmaps, lfFirst, lfLast, lfRollbacks, lfFilter,
           lfPoll, lfGot, lfNext, lfPending, lfSub>>
rVars == <<rrBlocks, rrWal, rrState, rrRepo, rrCtx, rrPool, rrSent, rrSafe, rrFinal, rrBatch,
           rrCall, rrPaging>>
tVars == <<vm, ct, js, pt, df>>
sVars == <<csEst, csSim>>
vVars == <<vsConns, vsRegistry, vsEvents, vsSessions, vsDispatched, vsConnects>>
storeVars == <<rlLogs, rlVote, rlCommitted, rlMembership, rlBlockLogId, rlSent, rlWal,
               rlApplied, rlLog, rlCrashes>>
transportVars == <<rtConns, rtPeers, rtPending, rtRpcs, rtWire, rtBoot>>

MCLog(a, t) == [address |-> a, topics |-> t]
MCContents == {<< >>, <<MCLog("b", <<"y", "x">>), MCLog("a", <<"x">>)>>}
MCQuery(from, a, t) == [from |-> from, addresses |-> a, topics |-> t]
MCQueries ==
    {MCQuery(0, {"a"}, <<>>), MCQuery(1, {"a", "b"}, <<{}, {"x"}>>), MCQuery(0, {}, <<{"x", "y"}>>), MCQuery(0, {}, <<>>)}
MCMaxBlock == [scan |-> 3, filter |-> 2, subscription |-> 3]
MCTags == {[t |-> tag, n |-> 0] : tag \in {"latest", "pending", "safe"}} \union {[t |-> "number", n |-> 2]}
MCKeep == {"ConsensusNodeCommandSource", "BlockExecutor", "BlockApplier", "Batcher", "L1SenderCommit"}

ServicesInit ==
    /\ active \in {"filters", "reads", "tracing", "simulation", "flow", "sessions", "raft_store", "raft_transport", "fri"}
    /\ L!FiltersInit /\ (active # "filters" => lfClient = "scan" /\ lfChain = << >>)
    /\ R!ReadsInit
    /\ T!TracingInit /\ (active # "tracing" => vm.store.code = 0 /\ ~ct.onlyTop)
    /\ S!SimulationInit
    /\ FlowInit
    /\ V!SessionsInit
    /\ N!RaftStoreInit
    /\ N!TransportInit
    /\ Init /\ (active # "fri" => last_committed = 0)

\* The variables of every component but x.
Others(x) ==
    /\ UNCHANGED active
    /\ IF x # "filters" THEN UNCHANGED lVars ELSE TRUE
    /\ IF x # "reads" THEN UNCHANGED rVars ELSE TRUE
    /\ IF x # "tracing" THEN UNCHANGED tVars ELSE TRUE
    /\ IF x # "simulation" THEN UNCHANGED sVars ELSE TRUE
    /\ IF x # "flow" THEN UNCHANGED pfVars ELSE TRUE
    /\ IF x # "sessions" THEN UNCHANGED vVars ELSE TRUE
    /\ IF x # "raft_store" THEN UNCHANGED storeVars ELSE TRUE
    /\ IF x # "raft_transport" THEN UNCHANGED transportVars ELSE TRUE
    /\ IF x # "fri" THEN UNCHANGED vars ELSE TRUE

ServicesNext ==
    \/ active = "filters" /\ L!FiltersNext /\ Others("filters")
    \/ active = "reads" /\ R!ReadsNext /\ Others("reads")
    \/ active = "tracing" /\ T!TracingNext /\ Others("tracing")
    \/ active = "simulation" /\ S!SimulationNext /\ Others("simulation")
    \/ active = "flow" /\ FlowNext /\ Others("flow")
    \/ active = "sessions" /\ V!SessionsNext /\ Others("sessions")
    \/ active = "raft_store" /\ N!RaftStoreNext /\ Others("raft_store")
    \/ active = "raft_transport" /\ N!TransportNext /\ Others("raft_transport")
    \/ active = "fri" /\ Next /\ Others("fri")

ServicesSpec ==
    ServicesInit /\ [][ServicesNext]_<<active, lVars, rVars, tVars, sVars,
        pfVars, vVars, storeVars, transportVars, vars>>

-----------------------------------------------------------------------------
(* What the RPC serves: eth_getLogs over the index and the scan returns      *)
(* exactly the logs that match, and a block filter reports every block once  *)
(* over rollbacks; a read answers what the chain holds at the block it       *)
(* names, while blocks are executed, applied and settled, and a paged search *)
(* misses and repeats nothing (eth_impl.rs, ots_impl.rs, log filters).       *)
ReadsExact ==
    /\ active = "filters" => L!ScanExact /\ L!BlockFilterReportsOnce
    /\ active = "reads" => R!AnswersMatchChain /\ R!PagesComplete

(* What the RPC computes: the tracers rebuild the calls of the VM, the       *)
(* validators see those of their transaction only, and the overlay holds     *)
(* what the VM has left after reverts; the gas estimate of a call is enough  *)
(* for it, and simulated blocks form a chain (sandbox.rs, simulate.rs).      *)
CallsMatchVm ==
    /\ active = "tracing" => T!TraceIsCallTree /\ T!ValidatorsSeeTransaction /\ T!OverlayMatchesVm
    /\ active = "simulation" => S!EstimateSucceeds /\ S!SimulatedBlocksChain

(* A verification request goes to peers whose session is verified; raft's    *)
(* store reads back the log that was written over truncations, purges and    *)
(* restarts, and a peer with a live connection is reached (network           *)
(* service.rs, session.rs; raft storage.rs, protocol.rs).                    *)
PeersServed ==
    /\ active = "sessions" => V!DispatchSelectsVerified
    /\ active = "raft_store" => N!StoreIsLog
    /\ active = "raft_transport" => N!PeerReachable
=============================================================================
