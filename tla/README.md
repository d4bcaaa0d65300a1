# TLA+ models of zksync-os-server

These modules model the node of a ZK rollup: how transactions get into blocks, how blocks are agreed on, stored, turned
into batches, signed, proved and settled on L1, what the node serves of them, and how it finds its way back after a crash. TLC checks small instances, TLAPS proves the
central safety properties for every size. `PROJECT.json` maps every definition to the lines it models and lists the
components, runs, mutants, hazards, findings and theorems.

Contents: [the system](#the-system), [modules](#modules-and-how-they-follow-the-code),
[runs](#runs), [fairness](#fairness), [proofs](#proofs), [findings](#findings),
[statements that do not hold](#statements-that-do-not-hold), [what is left out](#what-is-not-modelled).

## The system

A node is one process. Its tasks form a pipeline, connected by bounded channels:

```
CommandSource -> BlockExecutor -> BlockCanonizer -> BlockApplier -> (RevmConsistencyChecker) -> TreeManager
 -> ProverInputGenerator -> Batcher -> BatchVerification -> FRI proving -> GaplessCommitter -> UpgradeGatekeeper
 -> (ReplayArchiveGate) -> L1Sender<Commit> -> SNARK proving -> GaplessL1ProofSender -> L1Sender<Prove>
 -> PriorityTree -> L1Sender<Execute> -> BatchSink
```

Besides the pipeline run the raft consensus between main nodes, watchers that follow L1, the HTTP server of the provers,
the JSON-RPC server and the p2p network that feeds external nodes. A main node produces blocks while it leads; an
external node replays the blocks of the main node and ends its pipeline after the tree. Nothing is shut down in an
orderly way on an error: a task that fails ends the process, which starts again from its databases, and the models treat
"the process exits" and "the process restarts" as one step.

The correctness properties that follow: a block is persisted only when the cluster has agreed on it; all nodes persist
the same chain; every input of L1 enters the chain once and in order; the stores of a node agree after any crash; no batch
is lost, proved twice or committed out of order; L1 transactions are sent once per batch, in order, and survive loss and
restarts; what the node computes for a batch is what L1 computes; what it reports and stores as settled is what L1 has
settled; what it answers is what the chain holds; and all of it eventually happens.

## Modules and how they follow the code

A step of a model is what a task does between two await points that another task can observe; a channel is a sequence
(bounded where its bound matters); a database is a variable that survives `Crash`; everything else is reset. Variables
and actions carry the names of the fields and functions they stand for.

### BlockCanonization and ReplicatedLedger

`BlockCanonization` holds the sequencing pipeline of every node of a cluster and the raft log between them.

* openraft is external: a committed `log`, one entry `tail` that the leader has appended and not committed, the `term`
  and the `leader`. `Elect` may lose the tail, keep it or commit it, which covers what a majority may have seen.
* Per node: `wal` and `raft_applied` are durable. `applied`, `role`, the canonizer's queues, the channels
  (`commands`, `executed`, `canonical`), the executor's `last_block` and the applier's watch are volatile.
* Tasks: the state machine applies entries (`apply` sends the block to `canonized_blocks_rx` and records the log index),
  the leadership monitor confirms a leader when raft has applied its log, the command source forwards the WAL, then
  canonized replays, then `Produce`, the executor waits for the applier before it takes a block that depends on it,
  the canonizer proposes and matches, the applier writes the WAL.
* `Crash(n)` is a crash at any point; errors of a task (a mismatch, a refused replay) also restart the node
  (`Exit`).

`ReplicatedLedger` is the abstract promise: one `chain` that only grows, and a ledger per node that is a prefix of it and
only grows. The WALs refine it (`ImplementsLedger`) when the nodes' tasks keep up with elections, which `timely`,
chosen once per behaviour, states: a node is confirmed as leader only after its canonizer has taken what raft has
applied, and a deposed leader is torn down before the next election. Otherwise the refinement fails; see [findings](#findings). The fence (`OnlyCanonizedPersisted`) and
`OneBlockInFlight` need no such assumption.

Abstractions: a block is the sequence of payloads of the chain that ends in it; the backpressure gate is a source that takes no step;
`starting_block` is any block up to the head of the WAL; `max_blocks_to_produce` and rebuild commands are left out.

### ProverJobMap, FriProving, SnarkProving

`ProverJobMap` has the operators both managers share: when the map is full, which job may be assigned, the span of a
range. `FriProving` models one lifetime of the process from any L1 state: the pipeline step adds jobs (`AddJob`,
`WaitForSpace`), provers pick, submit, are verified, reserve a permit of the output channel, complete and send; leases
time out; fake workers take aged jobs; the step forwards proofs; `GaplessCommitter` restores the order. Every request can
be cancelled at its await points (`CancelRequest`: the client disconnects), never between the removal of a job and its
send, which have no await between them. `SnarkProving` does the same for ranges: `pick_real_job` first drains fake jobs
at the head, `complete_many_jobs` takes a range whole or not at all, `FakeSnarkProver` leases and completes, and the
proof sender restores the order of ranges.

Abstractions: proofs are "Real", "Fake" or rejected; provers submit only what they were given; channel capacities stand
for their configured values; the store of failed proofs is write-only and left out.

### L1Account, L1Sender, L1StopAndWait

`L1Account` is L1 as seen by one sending account (external): a pool by nonce, mined transactions, confirmations,
eviction, replacement by a higher fee, a reorganisation, and the contract's rule that batches are committed in order.
`L1Sender` is the pipelined mode with its three tasks: the submitter (`Start`, recovery by pairing commands with
transactions in flight, the replacement plan, seeding, waves, resends), the inclusion watcher and the confirmation
forwarder. `L1StopAndWait` is the older mode: send a cycle, wait for all. A session may seal the batches differently from
the one before, which is what recovery must notice.

Abstractions: a command is one transaction for one batch; fees count replacement bumps; a rejected send that is retried
is no step, while a send whose answer is lost is one; two lookups that both find nothing are one step; gas estimation
and sidecars are left out. Bounds: nonces, fees, evictions, reorganisations and crashes (`Max...`).

### SettlementWatchers

Its first part (external) is the sequence of commit, revert and execute events of the chain on L1, with blocks and
finality. The rest is an external node: it fetches the L1 state, sweeps the commit events, starts, loads the
remaining batches in the background while the commit, execute, finalized-execute and revert watchers run, and the persist
watcher stores executed batches durably. `ProcessRevert` ends the process; `StartFails` is a start that meets a moved L1.

Abstractions: RPC errors are crashes; the sweep is one read; L1 reorganisations of blocks already read and a commit,
revert and new commit within one L1 block are left out.

### Batching

`Batching` composes the batcher, the verification step, the commit sender's view of L1 and the caches of the verifiers.
A chain gives each block a weight, a version, an upgrade or a chain id update. Startup counts the mempool
(`CountInFlight`) and reads L1 (`StartNode`) at different times; the batcher skips, recreates, adds, seals by limit or by
deadline; the step passes committed batches, asks, collects signatures and retries; `Submit` is the pipelined sender
with an endpoint that finds transactions by nonce: nonces count from the one that was free at startup (`Nonce`), a command
is paired with, replaces or follows what the mempool holds at its nonce (`Place`), and a used-up nonce is accepted when L1
holds the very batch (`OnL1`); the batch is noted in `commit_submitted`; `ObserveCommit` is the commit watcher with the UnexpectedCommit guard; verifiers
insert blocks and evict what is committed. `pendingVisible` says whether the pending state of the L1 node shows what the
previous session left in the mempool: some providers do not.

Abstractions: one weight stands for the summed limits (transactions, native, pubdata, logs, interop roots), one version
for protocol and execution version; reverts of batches are not repeated here; a verifier that has the blocks agrees.

### BlockBuilding, Mempool, UpgradeData, VmRunner

`Mempool` has the L1 watchers of upgrades, priority transactions and interop roots with their cursors, the subpools they
fill, the streams a block is built from and the canonical update that consumes them. `BlockBuilding` extends it with the
command source of a main node (replay of the WAL, rebuilds, then production), the block contexts with their cursors,
the execution loop and the restart. `UpgradeData` is the search of the upgrade watcher for the events that make up one
upgrade. `VmRunner` is the thread of the VM with its channels of transactions and results, through every way a run can end.

Abstractions: the VM's outcome of a transaction is chosen once and is the same on a replay; the L2 pool never runs dry;
an upgrade transaction executes; no crash falls inside a rebuild; fees come from a small set. Leadership, and blocks that
other nodes produce, are in `BlockCanonization`.

### ConsistencyCheck

The REVM checker compares every block with a second execution. A difference writes the number and the signers of the block
to the internal config, the process exits, and the next start rebuilds the block empty and refuses these signers. The
comparison of state changes and the search for the blob gas price are behaviours of their own.

### NodeStorage, ReplayArchive, ProofStore

`NodeStorage` has the WAL, the state diffs, the repositories (memory and database) and the tree of one node, which a crash leaves at
different heights; startup chooses the block to replay from; the operator may order a rebuild; an external node follows a
main node that rebuilds. The last part of the module is the RocksDB wrapper, which shares no state with the stores: handles,
the count of open instances that shutdown waits for, writes retried during a stall. `ReplayArchive` is the queue and the conditional creates of the archive over three
object stores, the gate before the commit sender, and the tool that recovers a WAL. `ProofStore` is the bounded directory
of FRI proofs with its renames and evictions, and the requests that read it.

Abstractions: a block hash is the sequence of contents up to the block; a batch write of RocksDB is atomic.

### MerkleTree, ProverInput, PriorityTree, MiniMerkleTree, MessageProofs, BatchCommitments

`MerkleTree` is the versioned state tree: patches, the flush of a range of blocks, lookups, proofs, truncation. It is
checked against the plain history of key-value maps (`treeLog`). `ProverInput` extends it with the tree manager and the
generator, whose computations read an older version while later ones are written. `MiniMerkleTree` is the incremental
tree with a trimmed left part, checked against the full tree; `PriorityTree` is the task that builds on it, its caches
and its recovery; `MessageProofs` has the proofs the RPC server gives for messages, checked against the verification of
the contract; `BatchCommitments` has what a batch commits to, computed by the batcher, the verifiers, the contract, the startup code
and the prove command, for protocol versions 30 to 32. Hashes are injective constructors.

### ReplayStream, VerifierSessions, RaftNode

`ReplayStream` is the replay protocol between external and main nodes: slots, one shared cursor, record sizes,
stalls and reconnects. `VerifierSessions` is the registry of connected verifiers with its handshake and lanes.
`RaftNode` is the RocksDB log store under openraft over crashes, and the transport that routes its calls to peers.

### TxAdmission, FeePricing, L1LogsCache, LogFilters, RpcReads, FrameTracing, CallSimulation, PipelineFlow

`TxAdmission` is `eth_sendRawTransaction` with its forwarding to the leader, the sync variant and the gas limiter.
`FeePricing` has the gas adjuster, the base token updater and the fee parameters of a block. `L1LogsCache` is the cache of
recent L1 logs and its repair after a reorganisation. `LogFilters` has the log index, `eth_getLogs`, filters and
subscriptions; `RpcReads` the methods that read several stores while blocks are added; `FrameTracing` the four tracers
against the VM's own call stack; `CallSimulation` gas estimation and `eth_simulateV1`. `PipelineFlow` is the pipeline
framework, its monitor, the backpressure gate and the shutdown.

### MC modules

Components that share no state are checked together as a sum: `MCStores`, `MCBuilding`, `MCServices`, `MCProgress`,
`MCProverProgress` and `MCL1Modes` choose one of them (`active`, or `mode`) in the initial state, run its specification
and leave the others in an initial state. A property of a sum says of each component what the component's own property
says. `MCL1Modes` also composes: each session of one L1 account is pipelined or stop-and-wait, so that either mode
recovers what the other has left.

Operators whose comment says "Mutant" are a definition with a plausible bug. `PROJECT.json` names one for each property
of each run, and TLC then finds the property violated; the others break the same property in another component.

## Runs

| run | instance | shows |
|---|---|---|
| canonization | 2 nodes, 2 payloads, 2 blocks, 2 terms; untimed without crash, timely with one | the fence, one block in flight; when timely: no component meets a block it refuses, a restart skips no canonized block, the WALs implement one ledger |
| l1_sender | 2 batches, 3 nonces, 2 contents, windows 1 and 2, an eviction, a reorganisation, a failed lookup, a crash, either mode per session; or 4 L1 events, ranges of 1 or 2 blocks, a crash | only committed batches go downstream; nonces follow batches; resends are possible; persisted is executed and executed will be persisted, the view is live, frontiers and stored batches never move back |
| snark | 2 batches, 2 provers, the fake prover, 2 versions, room for one or two jobs | no batch lost or doubled, proofs in order, real SNARKs only over real FRIs of one version |
| prover_progress | 2 batches, a real and a fake prover, room for 1 job | everything proved, in both stages |
| progress | seven components at the smallest size at which all their steps happen | canonized blocks reach every WAL, streams, checker and VM come to rest with every block, batches are forwarded, watched and archived |
| batching | 3 blocks, 3 chains, a verifier, a fault, mempool visible or not | seal rules, own commits accepted, the guard covers commits, needed blocks cached, all blocks committed |
| stores | 3 blocks, two crashes or one and a reorganisation; trees of 3 versions; 3 archive back ends; 5 batches of messages | stores agree after a restart, the tree keeps its history, proofs and archive follow what is committed, L1 computes what is proved |
| inputs | 3 blocks with rebuild and crash; 2 nodes that admit; fees with one fault; L1 with a reorganisation | L1 inputs enter the chain once and in order; upgrade data and logs are those of L1; answers match pools; fees follow their rules |
| services | small chains, frames and calls; 3 batches for a prover and a fake worker, room for 1 job and 2 proofs | reads, filters, traces and calls agree with chain and VM; the backlog closes the gate; sessions and raft's store survive faults; FRI proving loses, doubles or reorders nothing |
| leadership_race | 2 nodes, 2 payloads, untimed | violation: two WALs differ at one number |
| l1_seeds | the window shrinks from 2 to 1 | violation: an evicted transaction is never resent |
| batching_park | 3 blocks, mempool not visible | violation: a verification that never ends |

Why the bounds are enough: each hazard needs at most two of a kind. Two nodes give a leader that loses its role and one
that gains it; two blocks give a predecessor in flight; two batches or ranges give an order, an overlap and a gap; three
FRI batches exceed the map and the channel together; two L1 sessions give a left-over and its recovery; four events give
commit, revert, commit, execute; three blocks give one that is durable, one in flight and one to rebuild; one fault can
fall between any two steps, two give a crash during a recovery. Each mutant is caught within these bounds.
Deadlock is not checked: every instance stops when its bounded work is done, and the liveness properties say that it
stops in the right place. Node, payload and content sets are symmetric where a run has no liveness property.

## Fairness

* canonization: weak fairness of each task of a node, and of raft establishing a leader and committing what the leader
  has; tasks are tokio tasks that run whenever they can. Nothing is assumed of elections, crashes and block production.
* FRI: weak fairness of the pipeline step, the timers, the committer and a request past its last await. Strong fairness
  of a fake worker's pick and permit: it polls for ever and the mutex is FIFO. Nothing is assumed of real provers.
* SNARK: as before, and strong fairness for a prover that was given a range to submit it in the end and to disconnect only
  finitely often: a real range cannot be proved by anyone else before the age limit.
* L1: weak fairness of the three tasks, of mining and confirmation.
* watchers: weak fairness of each watcher and of startup; L1 mines and finalizes. What the operator submits is free.
* batching: weak fairness of the node's steps, the deadline, L1 and the verifiers.
* replay stream, archive, consistency checker, VM thread: weak fairness of their tasks and of the restart after a stop;
  faults are bounded and free.

## Proofs

`BlockCanonizationProofs`, `LedgerProofs`, `FriProvingProofs`, `SnarkProvingProofs` and `BatchingProofs` hold the
theorems, `ProverJobMap` the lemmas both proving stages share. They hold for every set of nodes or provers and every bound, from the assumptions the
modules name (bounds are naturals, the null values are no members of the sets they extend).

Canonization:

* `TypeCorrect`: `Spec => []TypeOK`. `TypeOK` is not inductive alone: the source indexes the WAL up to `replay_until`,
  which must stay within it, so the invariant is `TypeInv == TypeOK /\ ReplayUntilInWal`.
* `CanonizationFence`: `Spec => []OnlyCanonizedPersisted`, whether timely or not and for any crashes. A WAL is filled from
  the canonizer's output, which is filled from the canonized queue or from a replay of the WAL or of canonized blocks:
  `FenceInv` says that everything in those queues is committed. The canonizer passes a produced block only when the
  canonized one at the head is equal to it. The log only grows (`LogGrows`), so what was committed stays so.
* `OneBlockPipeline`: `Spec => []OneBlockInFlight`. The executor takes a command only when the applier's watch has
  reached its last block; `FlightInv` relates the block in flight to `last_block` (`InFlightIsLast`), bounds the watch by
  it (`AppliedUpToLast`) and treats genesis, which is replayed without a predecessor (`GenesisFirst`,
  `GenesisNotProposed`).

The replicated ledger (`LedgerProofs`), for behaviours whose tasks keep up with elections (`timely`):

* `LedgerRefinement`: `Spec => ImplementsLedger`. The inductive invariant `LedgerInv` gives every queue of a node a
  position in the raft log: the WAL is a prefix of what the node has applied, the canonized queue and the replays for the
  source are the slices behind it (`Placed`, `WalFirst`), commands and the executor's last block follow one another up
  to there (`Stream`), and a leader's own block comes right after all of it (`OwnLast`). `Leads` is the reason the
  refinement holds: a confirmed leader has taken every committed entry, and the entry it proposes is raft's tail or its
  last one. `LogInv` says that the log is a chain and the tail extends it. Each action has a lemma that it keeps
  `LedgerInv`. Then only a commit changes the chain, by one block on its tip, and only the applier changes a ledger, by the
  next block of the chain.
* `ConsistentBlocks`: `Spec => []NoInconsistentBlock`, and `NothingSkipped`: `Spec => []NoCanonizedBlockSkipped`, from
  the same invariant: no task meets a block that it refuses, and a restart asks raft for exactly what the WAL lacks.
* `TimelyAgreement`: `Spec => [](timely => WalAgreement)`; `leadership_race` shows that `timely` cannot be dropped.

FRI proving:

* `FriTypeCorrect`: types, with the stage of each request.
* `AddJobWoken`: `Spec => []NoLostWakeup`: a producer asleep has a full map or a completion that is about to notify it.
* `NoBatchLost`: `Spec => []EveryBatchInOnePlace`. The places of a batch (before the step, the step's hand, the map, a
  completed request, the channel, the committer's buffer, committed) are a family of sets. Every action moves one batch
  from one set to another or moves none; `MoveBatches` says that such a move keeps the family disjoint and covering.
* `LeasesKept`: `Spec => LeaseKept`, an action property: each step changes an assignment only as the property allows.
* `CommitOrder`: `Spec => []CommitsExact`, from `OrderInv` (`next_expected = last_executed + 1 + Len(commands)`) and
  `ProvedInv` (what is on its way to the committer carries a proof of its own batch exactly when L1 had not committed it).

SNARK proving:

* `SnarkTypeCorrect`: types; a request carries a non-empty range or none.
* `NoBatchLost`: as for FRI, with ranges: a command moves all batches of its range at once (`PlacesMove`), and
  `complete_many_jobs` takes a range only if the whole of it is still in the map.
* `ProveOrder`: `Spec => []ProvesInOrder`, from the frontier of the gapless sender.
* `ProofsMatch`: `Spec => []ProofsMatchBatches`. The map does not record which ranges it has given out, so `MatchInv`
  says it of the ranges the requests hold: they are of one version, and a real request's are all real.
* `RealFrisKept`: `Spec => []RealFrisKeptForProvers`, from `KeptInv`, which follows a drained range from the pick to
  the command.

Batching, for every chain of blocks, limit, set of verifiers and number of faults, whether the pending state shows the
mempool or not:

* `LawfulBatches`: `Spec => []SealRules`, `CommitsAccepted`: `Spec => []OwnCommitsAccepted` and `GuardSuffices`:
  `Spec => []GuardCoversCommits` share one invariant, `Inv /\ Asked`. The batches of L1 and of the session follow one another, and those
  L1 held at startup are the same in both (`Chained`, `Continued`). What the session has sent is on L1 or in the mempool
  at its own nonce (`Placed`), so when it comes to the head of the mempool all batches before it have landed. A
  transaction at position i of the mempool is for a batch at least i ahead of L1 (`PoolAhead`), and one that can be
  accepted in its turn was counted or noted (`Covered`). The criteria hold for what is on L1, in the mempool, sealed and
  open (`Lawful`): a batch is open or sealed only while the criteria allow it, and a recreated one has the range it has
  on L1. `Asked` says that signatures are collected only for a batch that exists.
* The first version of the model paired leftovers by batch number. The invariant failed for it, and TLC showed why on 4
  blocks: a left-over transaction of another nonce shifts the session's own ones. `plan_pipelined_recovery` pairs by nonce, and so does the
  model now.

The map lemmas (`PickedJobs`, `PickedRange`) say what `pick_job` returns: a job of the map that is assignable, the
lowest such. Only model-checked: liveness and the fairness it needs, which TLAPS cannot handle; the trees and other
algorithms over recursive data, which need induction over data; `DrainedStartup` of batching, which needs in addition what every
verifier's cache and the previous session had in common with L1; and the L1 sender, the watchers and the
remaining components, for which no inductive invariant has been written yet.

## Findings

* `leadership_race`: `leadership_monitor.rs:122` makes a node leader once raft has *applied* its log, i.e. handed the
  blocks to a channel. The canonizer may not have forwarded them yet, and the source may produce a block with the number
  of a canonized one. The comment at line 55 says the monitor avoids "producing blocks too early".
* `l1_seeds`: `seed_recovered_txs` (`pipelined.rs:402`) waits for window slots and serves no resend request meanwhile;
  with more recovered transactions than slots and an eviction, submitter and watcher wait for one another.
* `batching_park`: the step skips signing only for batches committed at startup (`component.rs:194`); a left-over commit
  that lands later evicts its blocks from the verifiers' caches, and the retries are refused until a restart.

## Statements that do not hold

The modules also state some sentences of the documentation as definitions that no run checks, because TLC finds
behaviours of the model that contradict them. Most are about a boundary and have mild consequences. Where the instance of the run is
too small for the contradiction, the change that shows it is in brackets.

| definition | what happens instead |
|---|---|
| `NodeStorage!RebuildRan` | a crash after the first rebuilt block leaves a changed hash, and the next start drops the rest of the rebuild [main node, `MaxReorgs = 2`, `MaxFaults = 4`] |
| `NodeStorage!RangeAvailable` | an override of a block deletes its diff and the following ones, and the latest block stays where it was |
| `NodeStorage!StallsWaitedOut` | the second stall of a write is returned as an error while retries are left |
| `ReplayArchive!CommittedRecoverable` | the genesis record is never archived; recovery succeeds with it added |
| `ProofStore!OverwrittenPreserved` | two overwrites of a key within a second take the same name [`PsBurst = 3`, `PsCapacity = 8`] |
| `MerkleTree!ProveOnlyExisting` | roots of truncated versions stay in the database and are found |
| `BlockBuilding!SetSLChainIdOnce` | a block sealed between the upgrade and the chain id transaction leaves the latter out |
| `TxAdmission!RejectedCanBeResent` | the forwarding node still holds its mirror and refuses the resubmission |
| `FeePricing!ReorgedRatioResent` | the updater compares with the ratio it believes L1 to hold, which a reorganisation does not change |
| `FeePricing!OneValuePerBlock` | the ranges of two requests share their boundary block |
| `L1LogsCache!CacheOnOneFork` | a reorganisation during a synchronisation leaves blocks of two forks |
| `LogFilters!ChangesSinceLastPoll`, `PolledFilterKept` | a log filter without a range reports the latest block only, whatever came since the last poll; a poll that finds no new block is not recorded |
| `RpcReads!BlockPagesPartition` | the last page of a block whose size is no multiple of the page overlaps the one before [`RrMaxTxs = 3`, `RrPage = 2`] |
| `RpcReads!AcceptedTxFound` | a transaction that has left the pool and is not in the repository yet is in neither |
| `FrameTracing!OverlaySaneOnRead` | a revert by the bootloader after the last frame is not seen by the overlay |
| `CallSimulation!EstimateAffordable` | the allowance is computed with the base fee, the run charges the price of the request |
| `VerifierSessions!LiveVerifierDispatched` | a second connection of a peer replaces the registered one [one peer, two slots and lanes, none trusted] |
| `VerifierSessions!DispatchOnlyAuthenticated` | the events of a closed connection still wait when the peer has connected again |
| `RaftNode!DroppedRequestsCancelled` | a request registered after the drop waits for its timeout |
| `PipelineFlow!BatcherStallCaught` | downstream stages have no backlog while the batcher stalls [`PfCanStall = {"Batcher"}`, 5 blocks, capacity 6, block limit 100] |

Remarks: the span of the FRI map may exceed `max_assigned_batch_range` by the gap of the new number
(`map.rs:71`); stop-and-wait recovery sends an unmatched command behind the transactions in flight instead of replacing
them (`l1_sender/src/lib.rs:386`) and drops paired commands when a lookup fails (`:320`); with the verification server
enabled, a threshold of 0 still waits for one signature; a commit, revert and new commit in one L1 block would fail the
persist watcher's validation at each restart; startup compares only the height of the tree, so an external node that
crashes while it follows a rebuild can keep abandoned versions (the exception in `StoresAgree`).

`UpdateEnds`, `EstimateEnds`, `GateReopens` and `ShutdownCompletes` are liveness statements that hold on small instances
of their modules under the fairness stated there; no run repeats them.

## What is not modelled

The VM and the programs that are proved (pure functions of a block, out of a model checker's reach), encodings, wire types
and contract bindings (no state), configuration, metrics and logging, clients of price services and signers (I/O).
openraft, L1, RocksDB and the object stores are external: they are modelled by what the code relies on.
