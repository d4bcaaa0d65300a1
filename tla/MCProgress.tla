----------------------------- MODULE MCProgress -----------------------------
(***************************************************************************)
(* What must happen in the end, component by component.  The components of *)
(* this module share nothing that these properties are about, so a         *)
(* behaviour runs one of them, active, and the others stay in an initial   *)
(* state; the fairness of each is that of its own specification.           *)
(***************************************************************************)
EXTENDS SettlementWatchers

CONSTANTS
    Nodes, Payloads, MaxLog, MaxTerm, MaxUntimelyCrashes, Timeliness, NoNode, NoBlock,
    MaxNonce, MaxFee, MaxEvictions, MaxReorgs, Contents, NoTx, Windows, ForceModes, Lookups,
    ArcBackends, ArcMaxBlock, ArcQueueSize, ArcMaxPuts, ArcBatchSize, ArcMaxCrashes, ArcMaxForks,
    RsMainNodes, RsSlots, RsFirstBlock, RsMaxBlock, RsPerMessage, RsMaxPerMessage, RsWire, RsMaxFaults,
    CkSigners, CkBad, CkMaxBlock, CkMaxCrashes, CkVersions, CkSpec, CkMaxBlobFee,
    VmMaxTxs

VARIABLES
    active,   \* the component that runs
    log, tail, term, leader, established, wal, raft_applied, applied, role, canonized_blocks_rx,
    replays_to_execute, wal_cursor, replay_until, commands, executing, last_block, executed,
    proposing, produced_queue, canonical, applied_block_number, timely,
    mined, confirmed, pool, floating, evictions, reorgs, window, force, build, snapshot_nonce,
    snapshot_batch, next_batch, pending_nonce, seeds, base_nonce, next_nonce, until_nonce,
    fee_floor, in_flight_prefix, wave, wave_fee, submitted, watching, mined_floor, mined_rx, forwarded,
    arcBackend, arcPhase, arcGenesisNew, arcWal, arcNext, arcPending, arcQueue, arcPuts, arcTemps,
    arcObjects, arcCommitted, arcDisk, arcPage, arcCrashes, arcForks,
    rsHeight, rsConns, rsNext, rsForwarded, rsStalls, rsFaults,
    ckPart, ckPhase, ckWal, ckBuild, ckPos, ckPassed, ckExecuted, ckFile, ckBlack, ckSink, ckRead,
    ckGone, ckPoisoned, ckCrashes, ckCase,
    vmDriver, vmSent, vmResults, vmTxs, vmAnswers, vmThread, vmTx, vmBlock, vmOutput

\* phase and crashes serve the component that runs: all of them start with the same values.
C == INSTANCE BlockCanonization
S == INSTANCE L1Sender WITH Genesis <- GenesisRange
A == INSTANCE ReplayArchive
R == INSTANCE ReplayStream
K == INSTANCE ConsistencyCheck
V == INSTANCE VmRunner

cVars == <<log, tail, term, leader, established, wal, raft_applied, applied, role, canonized_blocks_rx,
           replays_to_execute, wal_cursor, replay_until, commands, executing, last_block, executed,
           proposing, produced_queue, canonical, applied_block_number, timely>>
sVars == <<mined, confirmed, pool, floating, evictions, reorgs, window, force, build, snapshot_nonce,
           snapshot_batch, next_batch, pending_nonce, seeds, base_nonce, next_nonce, until_nonce,
           fee_floor, in_flight_prefix, wave, wave_fee, submitted, watching, mined_floor, mined_rx, forwarded>>
sNodeVars == <<phase, window, force, build, snapshot_nonce, snapshot_batch, next_batch, pending_nonce, seeds,
               base_nonce, next_nonce, until_nonce, fee_floor, in_flight_prefix, wave, wave_fee, submitted,
               watching, mined_floor, mined_rx, forwarded>>
aVars == <<arcBackend, arcPhase, arcGenesisNew, arcWal, arcNext, arcPending, arcQueue, arcPuts, arcTemps,
           arcObjects, arcCommitted, arcDisk, arcPage, arcCrashes, arcForks>>
rVars == <<rsHeight, rsConns, rsNext, rsForwarded, rsStalls, rsFaults>>
kVars == <<ckPart, ckPhase, ckWal, ckBuild, ckPos, ckPassed, ckExecuted, ckFile, ckBlack, ckSink, ckRead,
           ckGone, ckPoisoned, ckCrashes, ckCase>>
vVars == <<vmDriver, vmSent, vmResults, vmTxs, vmAnswers, vmThread, vmTx, vmBlock, vmOutput>>
wVars == <<events, head, finalized, l1_state, swept, remaining, batches, finality, next, committed_batches,
           last_processed_commit_batch, last_persisted_batch_on_start, storage, latest_batch>>

ProgressInit ==
    /\ active \in {"canonization", "sender", "archive", "stream", "checker", "vm", "watchers"}
    /\ Init /\ C!Init /\ S!Init /\ A!ArchiveInit /\ R!StreamInit /\ K!CheckerInit /\ V!VmInit
    /\ active # "checker" => ckPart = "node"

\* The variables of every component but x.
Others(x) ==
    /\ UNCHANGED active
    /\ IF x # "watchers" THEN UNCHANGED wVars ELSE TRUE
    /\ IF x # "canonization" THEN UNCHANGED cVars ELSE TRUE
    /\ IF x # "sender" THEN UNCHANGED sVars ELSE TRUE
    /\ IF x # "archive" THEN UNCHANGED aVars ELSE TRUE
    /\ IF x # "stream" THEN UNCHANGED rVars ELSE TRUE
    /\ IF x # "checker" THEN UNCHANGED kVars ELSE TRUE
    /\ IF x # "vm" THEN UNCHANGED vVars ELSE TRUE
    /\ IF x \notin {"watchers", "sender"} THEN UNCHANGED phase ELSE TRUE
    /\ IF x \notin {"watchers", "sender", "canonization"} THEN UNCHANGED crashes ELSE TRUE

ProgressNext ==
    \/ active = "watchers" /\ Next /\ Others("watchers")
    \/ active = "canonization" /\ C!Next /\ Others("canonization")
    \/ active = "sender" /\ S!Next /\ Others("sender")
    \/ active = "archive" /\ A!ArchiveNext /\ Others("archive")
    \/ active = "stream" /\ R!StreamNext /\ Others("stream")
    \/ active = "checker" /\ K!CheckerNext /\ Others("checker")
    \/ active = "vm" /\ V!VmNext /\ Others("vm")

WatchersFairness ==
    /\ WF_vars(active = "watchers" /\ L1Step /\ (MineBlock \/ Finalize))
    /\ WF_vars(active = "watchers" /\ (FetchL1State \/ Start \/ StartFails \/ Load))
    /\ WF_vars(active = "watchers" /\ Running(ProcessCommit))
    /\ WF_vars(active = "watchers" /\ Running(ProcessExecute))
    /\ WF_vars(active = "watchers" /\ Running(ProcessFinalizedExecute))
    /\ WF_vars(active = "watchers" /\ Running(ProcessRevert))
    /\ WF_vars(active = "watchers" /\ Running(ProcessPersist))

CanonizationFairness ==
    /\ WF_<<cVars, crashes>>(active = "canonization" /\ C!Establish)
    /\ WF_<<cVars, crashes>>(active = "canonization" /\ C!Commit)
    /\ \A n \in Nodes :
          /\ WF_<<cVars, crashes>>(active = "canonization" /\ C!StateMachine(n))
          /\ WF_<<cVars, crashes>>(active = "canonization" /\ C!LeadershipMonitor(n))
          /\ WF_<<cVars, crashes>>(active = "canonization" /\ C!CommandSource(n))
          /\ WF_<<cVars, crashes>>(active = "canonization"
                 /\ (C!ReceiveCommand(n) \/ C!ReplayGenesis(n) \/ C!ExecuteReplay(n) \/ C!RefuseReplay(n)))
          /\ WF_<<cVars, crashes>>(active = "canonization" /\ C!BlockCanonizer(n))
          /\ WF_<<cVars, crashes>>(active = "canonization" /\ C!BlockApplier(n))

SenderFairness ==
    /\ WF_<<sVars, phase, crashes>>(active = "sender" /\ S!Submitter)
    /\ WF_<<sVars, phase, crashes>>(active = "sender" /\ S!Watcher)
    /\ WF_<<sVars, phase, crashes>>(active = "sender" /\ S!Forwarder)
    /\ WF_<<sVars, phase, crashes>>(active = "sender" /\ S!Mine /\ UNCHANGED <<crashes, sNodeVars>>)
    /\ WF_<<sVars, phase, crashes>>(active = "sender" /\ S!Confirm /\ UNCHANGED <<crashes, sNodeVars>>)

ArchiveFairness ==
    /\ WF_aVars(active = "archive" /\ A!OpenWal)
    /\ WF_aVars(active = "archive" /\ \E start \in 1..(ArcMaxBlock + 1) : A!StartArchive(start, 0))
    /\ WF_aVars(active = "archive" /\ A!WriteReplay)
    /\ WF_aVars(active = "archive" /\ A!Enqueue)
    /\ WF_aVars(active = "archive" /\ A!TakeRecord)
    /\ WF_aVars(active = "archive" /\ \E hash \in DOMAIN arcPuts :
                    A!EnsureObjectArchived(hash) \/ A!WriteTempFile(hash) \/ A!LinkTempFile(hash))
    /\ WF_aVars(active = "archive" /\ \E last \in 1..ArcMaxBlock : A!GatePass(last))

StreamFairness ==
    /\ \A m \in RsMainNodes : /\ WF_rVars(active = "stream" /\ R!NewBlock(m))
                              /\ WF_rVars(active = "stream" /\ R!DisconnectStalled(m))
    /\ \A c \in R!Conns : /\ WF_rVars(active = "stream" /\ R!IntoConnection(c))
                          /\ WF_rVars(active = "stream" /\ R!TaskStep(c))

CheckerFairness ==
    /\ WF_kVars(active = "checker" /\ K!StartNode)
    /\ WF_kVars(active = "checker" /\ (K!CheckPasses \/ K!CheckFails))
    /\ WF_kVars(active = "checker" /\ K!RecordFailing)
    /\ WF_kVars(active = "checker" /\ K!Halt)
    /\ WF_kVars(active = "checker" /\ K!RepairFile)

VmFairness ==
    /\ WF_vVars(active = "vm" /\ V!ThreadStep)
    /\ WF_vVars(active = "vm" /\ V!DriverStep)

ProgressSpec ==
    /\ ProgressInit
    /\ [][ProgressNext]_<<active, vars, cVars, sVars, aVars, rVars, kVars, vVars>>
    /\ WatchersFairness /\ CanonizationFairness /\ SenderFairness /\ ArchiveFairness
    /\ StreamFairness /\ CheckerFairness /\ VmFairness

-----------------------------------------------------------------------------
(* Every component comes to where it must. *)

(* Blocks: every canonized block is in the WAL of every node whatever        *)
(* crashes and elections; an external node has received every block over     *)
(* streams that stall or break; no block is left on which the two VMs        *)
(* disagree; the thread of the VM and its driver have both ended.            *)
BlocksSettle ==
    <>[] /\ active = "canonization" => \A n \in Nodes, i \in 1..Len(log) : log[i] \in C!Elems(wal[n])
         /\ active = "stream" => rsNext = RsMaxBlock + 1
         /\ active = "checker" => \A n \in 1..Len(ckWal) : ~(K!Supported(ckWal[n]) /\ K!Diverges(ckWal[n]))
         /\ active = "vm" => V!DriverGone /\ vmThread \in V!Ended

(* Batches: the pipelined L1 sender has got every command through, over an   *)
(* eviction and a crash; the watchers agree with L1 after reverts and        *)
(* restarts; the archive gate has let every batch pass unless the node is    *)
(* lost.                                                                     *)
BatchesSettle ==
    /\ <>[] /\ active = "sender" => Len(forwarded) = MaxBatch
            /\ active = "watchers" => CaughtUp
    /\ <>(active = "archive" => arcCommitted = ArcMaxBlock \/ arcPage # {})

(* What the executor, the sequencer and the file of the checker are given:   *)
(* results of the transaction just sent, blocks in order and once; no block  *)
(* that the second VM executes differently goes past the checker.            *)
\* The blacklist of the checker loses no signer but with the whole file.
ReplaysExact ==
    /\ [](V!ResultsMatchTxs /\ R!ForwardedInOrder)
    /\ [](K!DivergenceContained /\ K!ChecksExact)
    /\ K!BlacklistKept
=============================================================================
