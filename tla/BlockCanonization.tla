------------------------- MODULE BlockCanonization -------------------------
(***************************************************************************)
(* The sequencing pipeline of the consensus nodes of a cluster:            *)
(*                                                                         *)
(*   ConsensusNodeCommandSource -> BlockExecutor -> BlockCanonizer         *)
(*                                        ^              |                 *)
(*                        openraft <------+---- propose -+-> BlockApplier  *)
(*                                                                         *)
(* together with the raft state machine that feeds canonized blocks back   *)
(* to the canonizer, the leadership monitor that turns raft metrics into   *)
(* the role the command source acts upon, and process restarts.            *)
(*                                                                         *)
(* A block is the sequence of the payloads of the chain that ends in it:   *)
(* its length is its number, its front is the chain its hash commits to.   *)
(* Openraft itself is external: one committed log, at most one entry that  *)
(* a leader has appended and that is not committed yet, and elections.     *)
(***************************************************************************)
EXTENDS Integers, Sequences, TLC

CONSTANTS
    Nodes,      \* consensus nodes
    Payloads,   \* contents a block can have
    MaxLog,     \* bound: number of blocks in the raft log
    MaxTerm,    \* bound: number of elections
    MaxCrashes, \* bound: number of crashes that no component causes
    MaxUntimelyCrashes, \* the same when tasks need not keep up with elections
    Timeliness, \* the values of `timely` that are considered
    NoNode,     \* "no leader"
    NoBlock     \* last_block = None

ASSUME MaxLogAssumption == MaxLog \in Nat
ASSUME MaxTermAssumption == MaxTerm \in Nat
ASSUME MaxCrashesAssumption == MaxCrashes \in Nat
ASSUME MaxUntimelyCrashesAssumption == MaxUntimelyCrashes \in Nat
ASSUME TimelinessAssumption == Timeliness \subseteq BOOLEAN
ASSUME NoNodeAssumption == NoNode \notin Nodes
ASSUME NoBlockAssumption == NoBlock \notin Seq(Payloads)

VARIABLES
    \* openraft (external)
    log,           \* committed block entries
    tail,          \* entry in the leader's log that is not committed yet
    term,          \* current term
    leader,        \* node whose metrics say Leader
    established,   \* the leader has committed the blank entry of its term
    \* durable state of a node
    wal,           \* block replay storage: wal[n][k] is block k
    raft_applied,  \* RaftApplied column family: block number -> log index
    \* volatile state of a node
    applied,               \* index of the last entry given to `apply`
    role,                  \* leadership watch channel
    canonized_blocks_rx,   \* state machine -> canonizer
    replays_to_execute,    \* canonizer -> command source
    wal_cursor,            \* next WAL block the source forwards
    replay_until,          \* last WAL block the source forwards
    commands,              \* command source -> executor, capacity 1
    executing,             \* command the executor has taken
    last_block,            \* BlockContextProvider::last_block
    executed,              \* executor -> canonizer
    proposing,             \* block whose `propose` the canonizer awaits
    produced_queue,        \* canonizer's queue of proposed blocks
    canonical,             \* canonizer -> applier
    applied_block_number,  \* applier -> executor watch, 0 for None
    crashes,               \* crashes so far
    timely                 \* whether tasks keep up with elections in this
                           \* behaviour, see Elect and ConfirmLeader

raftVars == <<log, tail, term, leader, established, crashes, timely>>
durableVars == <<wal, raft_applied>>
sourceVars == <<role, replays_to_execute, wal_cursor, replay_until, commands>>
executorVars == <<executing, last_block, executed>>
canonizerVars == <<canonized_blocks_rx, proposing, produced_queue>>
applierVars == <<canonical, applied_block_number>>
vars == <<raftVars, durableVars, applied, sourceVars, executorVars,
          canonizerVars, applierVars>>

-----------------------------------------------------------------------------
(* Blocks and commands *)

Block == {b \in Seq(Payloads) : Len(b) <= MaxLog}

Genesis == << >>

\* Record k of the block replay storage; genesis is always present.
WalBlock(n, k) == IF k = 0 THEN Genesis ELSE wal[n][k]

Command == [type : {"Produce", "Replay"}, block : Block]

Produce == [type |-> "Produce", block |-> Genesis]
Replay(b) == [type |-> "Replay", block |-> b]

\* b is a block the executor can build on top of `last`.
Extends(last, b) == \E p \in Payloads : b = Append(last, p)

\* The checks of `replay` compare the block number, the previous timestamp and
\* the hashes of all ancestors but the parent itself.  A block whose parent is a
\* sibling of `last` can therefore pass them, and passes the comparison of block
\* output hashes when it executes alike on both.
Sibling(a, b) == /\ Len(a) = Len(b)
                 /\ Len(a) > 0
                 /\ SubSeq(a, 1, Len(a) - 1) = SubSeq(b, 1, Len(b) - 1)

MayReplayOn(last, b) ==
    \/ last = NoBlock
    \/ /\ last # NoBlock
       /\ Len(b) = Len(last) + 1
       /\ LET parent == SubSeq(b, 1, Len(b) - 1)
          IN  parent = last \/ Sibling(parent, last)

MayRefuseOn(last, b) == last # NoBlock /\ ~Extends(last, b)

-----------------------------------------------------------------------------
(* Start and restart of a node's process *)

\* Mutant: the log id of the latest block given to `apply`, in the WAL or not.
AppliedStateOfLatestEntry(n) ==
    CHOOSE i \in 0 .. Len(log) :
       /\ \A k \in 1 .. MaxLog : raft_applied[n][k] <= i
       /\ i = 0 \/ \E k \in 1 .. MaxLog : raft_applied[n][k] = i

\* applied_state(): the log id recorded for the latest WAL block.
AppliedState(n) ==
    IF wal[n] = << >> THEN 0 ELSE raft_applied[n][Len(wal[n])]

\* Node n's process exits (a crash, a panic, or a component that returns an
\* error) and is started again: volatile state is lost, the WAL is replayed from
\* some starting block on and raft re-applies what the WAL lacks.
Restart(n) ==
    /\ applied' = [applied EXCEPT ![n] = AppliedState(n)]
    /\ role' = [role EXCEPT ![n] = "Replica"]
    /\ canonized_blocks_rx' = [canonized_blocks_rx EXCEPT ![n] = << >>]
    /\ replays_to_execute' = [replays_to_execute EXCEPT ![n] = << >>]
    /\ \E starting_block \in 0 .. Len(wal[n]) :
          wal_cursor' = [wal_cursor EXCEPT ![n] = starting_block]
    /\ replay_until' = [replay_until EXCEPT ![n] = Len(wal[n])]
    /\ commands' = [commands EXCEPT ![n] = << >>]
    /\ executing' = [executing EXCEPT ![n] = << >>]
    /\ last_block' = [last_block EXCEPT ![n] = NoBlock]
    /\ executed' = [executed EXCEPT ![n] = << >>]
    /\ proposing' = [proposing EXCEPT ![n] = << >>]
    /\ produced_queue' = [produced_queue EXCEPT ![n] = << >>]
    /\ canonical' = [canonical EXCEPT ![n] = << >>]
    /\ applied_block_number' = [applied_block_number EXCEPT ![n] = 0]
    /\ leader' = IF leader = n THEN NoNode ELSE leader
    /\ established' = (established /\ leader # n)
    /\ UNCHANGED <<log, tail, term, timely, durableVars>>

Init ==
    /\ log = << >>
    /\ tail = << >>
    /\ term = 0
    /\ leader = NoNode
    /\ established = FALSE
    /\ wal = [n \in Nodes |-> << >>]
    /\ raft_applied = [n \in Nodes |-> [k \in 1 .. MaxLog |-> 0]]
    /\ applied = [n \in Nodes |-> 0]
    /\ role = [n \in Nodes |-> "Replica"]
    /\ canonized_blocks_rx = [n \in Nodes |-> << >>]
    /\ replays_to_execute = [n \in Nodes |-> << >>]
    /\ wal_cursor = [n \in Nodes |-> 0]
    /\ replay_until = [n \in Nodes |-> 0]
    /\ commands = [n \in Nodes |-> << >>]
    /\ executing = [n \in Nodes |-> << >>]
    /\ last_block = [n \in Nodes |-> NoBlock]
    /\ executed = [n \in Nodes |-> << >>]
    /\ proposing = [n \in Nodes |-> << >>]
    /\ produced_queue = [n \in Nodes |-> << >>]
    /\ canonical = [n \in Nodes |-> << >>]
    /\ applied_block_number = [n \in Nodes |-> 0]
    /\ crashes = 0
    /\ timely \in Timeliness

Crash(n) ==
    /\ crashes < IF timely THEN MaxCrashes ELSE MaxUntimelyCrashes
    /\ crashes' = crashes + 1
    /\ Restart(n)

\* Exit(n) is a restart that a component of the node causes.
Exit(n) == Restart(n) /\ UNCHANGED crashes

-----------------------------------------------------------------------------
(* Openraft (external) *)

\* An election.  When timely, a node that was deposed earlier has been torn down
\* by its monitor before the next election.
Elect(n) ==
    /\ term < MaxTerm
    /\ n # leader
    /\ timely => \A m \in Nodes \ {leader} : role[m] = "Replica"
    /\ term' = term + 1
    /\ leader' = n
    /\ established' = FALSE
    /\ UNCHANGED <<log, tail, crashes, timely, durableVars, applied, sourceVars,
                   executorVars, canonizerVars, applierVars>>

\* The leader commits the blank entry of its term, and with it, or instead of
\* it, the entry that an earlier leader had left behind.
Establish ==
    /\ leader # NoNode
    /\ ~established
    /\ established' = TRUE
    /\ log' = log \o tail \/ log' = log
    /\ tail' = << >>
    /\ UNCHANGED <<term, leader, crashes, timely, durableVars, applied, sourceVars,
                   executorVars, canonizerVars, applierVars>>

\* A quorum has the leader's entry.
Commit ==
    /\ established
    /\ tail # << >>
    /\ log' = log \o tail
    /\ tail' = << >>
    /\ UNCHANGED <<term, leader, established, crashes, timely, durableVars, applied,
                   sourceVars, executorVars, canonizerVars, applierVars>>

-----------------------------------------------------------------------------
(* Raft state machine and leadership monitor *)

\* RaftStateMachineStore::apply of a block entry: the log id is saved under the
\* block's number first, then the record is sent to the canonizer.
Apply(n) ==
    /\ applied[n] < Len(log)
    /\ LET i == applied[n] + 1 IN
          /\ raft_applied' = [raft_applied EXCEPT ![n][Len(log[i])] = i]
          /\ canonized_blocks_rx' =
                [canonized_blocks_rx EXCEPT ![n] = Append(@, log[i])]
          /\ applied' = [applied EXCEPT ![n] = i]
    /\ UNCHANGED <<raftVars, wal, sourceVars, executorVars, proposing,
                   produced_queue, applierVars>>

\* Mutant: the role follows the metrics, without ensure_linearizable().
ConfirmLeaderByMetrics(n) ==
    /\ leader = n
    /\ role[n] = "Replica"
    /\ role' = [role EXCEPT ![n] = "Leader"]
    /\ UNCHANGED <<raftVars, durableVars, applied, replays_to_execute,
                   wal_cursor, replay_until, commands, executorVars,
                   canonizerVars, applierVars>>

\* ensure_linearizable() succeeds: n leads, its term's blank entry is committed
\* and everything committed has been applied.  When timely, the canonizer has
\* also taken what was applied.
ConfirmLeader(n) ==
    /\ leader = n
    /\ established
    /\ role[n] = "Replica"
    /\ applied[n] = Len(log)
    /\ timely => canonized_blocks_rx[n] = << >>
    /\ role' = [role EXCEPT ![n] = "Leader"]
    /\ UNCHANGED <<raftVars, durableVars, applied, replays_to_execute,
                   wal_cursor, replay_until, commands, executorVars,
                   canonizerVars, applierVars>>

\* The monitor sees that a confirmed leader leads no more and panics.  The
\* metrics channel keeps only the latest value: a node that is elected again
\* before the monitor looks is not torn down.
LoseLeadership(n) ==
    /\ role[n] = "Leader"
    /\ leader # n
    /\ Exit(n)

-----------------------------------------------------------------------------
(* ConsensusNodeCommandSource *)

ReplayingWal(n) == wal_cursor[n] <= replay_until[n]

SendCommand(n, c) == commands' = [commands EXCEPT ![n] = Append(@, c)]

\* One iteration of forward_wal_replays.
ForwardWalReplay(n) ==
    /\ ReplayingWal(n)
    /\ commands[n] = << >>
    /\ SendCommand(n, Replay(WalBlock(n, wal_cursor[n])))
    /\ wal_cursor' = [wal_cursor EXCEPT ![n] = @ + 1]
    /\ UNCHANGED <<raftVars, durableVars, applied, role, replays_to_execute,
                   replay_until, executorVars, canonizerVars, applierVars>>

\* run_loop receives a canonized block, in the draining loop or in the select.
ForwardReplay(n) ==
    /\ ~ReplayingWal(n)
    /\ replays_to_execute[n] # << >>
    /\ commands[n] = << >>
    /\ SendCommand(n, Replay(Head(replays_to_execute[n])))
    /\ replays_to_execute' = [replays_to_execute EXCEPT ![n] = Tail(@)]
    /\ UNCHANGED <<raftVars, durableVars, applied, role, wal_cursor,
                   replay_until, executorVars, canonizerVars, applierVars>>

\* Mutant: the select is not biased towards the replays.
SendProduceUnbiased(n) ==
    /\ ~ReplayingWal(n)
    /\ role[n] = "Leader"
    /\ commands[n] = << >>
    /\ SendCommand(n, Produce)
    /\ UNCHANGED <<raftVars, durableVars, applied, role, replays_to_execute,
                   wal_cursor, replay_until, executorVars, canonizerVars,
                   applierVars>>

\* The last arm of the biased select: a leader with no replay queued.
SendProduce(n) ==
    /\ ~ReplayingWal(n)
    /\ role[n] = "Leader"
    /\ replays_to_execute[n] = << >>
    /\ commands[n] = << >>
    /\ SendCommand(n, Produce)
    /\ UNCHANGED <<raftVars, durableVars, applied, role, replays_to_execute,
                   wal_cursor, replay_until, executorVars, canonizerVars,
                   applierVars>>

-----------------------------------------------------------------------------
(* BlockExecutor and BlockContextProvider *)

ReceiveCommand(n) ==
    /\ executing[n] = << >>
    /\ commands[n] # << >>
    /\ executing' = [executing EXCEPT ![n] = << Head(commands[n]) >>]
    /\ commands' = [commands EXCEPT ![n] = Tail(@)]
    /\ UNCHANGED <<raftVars, durableVars, applied, role, replays_to_execute,
                   wal_cursor, replay_until, last_block, executed,
                   canonizerVars, applierVars>>

\* Mutant: the executor does not wait for the applier.
CaughtUpAlways(n) == TRUE

\* wait_for_block_applier is over (or skipped: no block yet, or only genesis).
CaughtUp(n) ==
    \/ last_block[n] = NoBlock
    \/ last_block[n] # NoBlock /\ applied_block_number[n] >= Len(last_block[n])

HasCommand(n, type) == executing[n] # << >> /\ executing[n][1].type = type

\* The executor seals block b: it becomes last_block and goes downstream.
Seal(n, type, b) ==
    /\ last_block' = [last_block EXCEPT ![n] = b]
    /\ executed' = [executed EXCEPT ![n] = Append(@, [type |-> type, block |-> b])]
    /\ executing' = [executing EXCEPT ![n] = << >>]

\* produce(): possibly long after the command was received, when the mempool has
\* transactions.
ExecuteProduce(n) ==
    /\ HasCommand(n, "Produce")
    /\ CaughtUp(n)
    /\ last_block[n] # NoBlock
    /\ Len(last_block[n]) < MaxLog
    /\ \E p \in Payloads : Seal(n, "Produce", Append(last_block[n], p))
    /\ UNCHANGED <<raftVars, durableVars, applied, sourceVars, canonizerVars,
                   applierVars>>

\* replay() of genesis only initializes last_block.
ReplayGenesis(n) ==
    /\ HasCommand(n, "Replay")
    /\ CaughtUp(n)
    /\ executing[n][1].block = Genesis
    /\ last_block' = [last_block EXCEPT ![n] = Genesis]
    /\ executing' = [executing EXCEPT ![n] = << >>]
    /\ UNCHANGED <<raftVars, durableVars, applied, sourceVars, executed,
                   canonizerVars, applierVars>>

ExecuteReplay(n) ==
    /\ HasCommand(n, "Replay")
    /\ CaughtUp(n)
    /\ executing[n][1].block # Genesis
    /\ MayReplayOn(last_block[n], executing[n][1].block)
    /\ Seal(n, "Replay", executing[n][1].block)
    /\ UNCHANGED <<raftVars, durableVars, applied, sourceVars, canonizerVars,
                   applierVars>>

\* replay() or the execution of its block fails, the component returns an error.
RefuseReplay(n) ==
    /\ HasCommand(n, "Replay")
    /\ CaughtUp(n)
    /\ executing[n][1].block # Genesis
    /\ MayRefuseOn(last_block[n], executing[n][1].block)
    /\ Exit(n)

-----------------------------------------------------------------------------
(* BlockCanonizer *)

MaxProducedQueueSize == 2

Selecting(n) == proposing[n] = << >>

SendToApplier(n, b) == canonical' = [canonical EXCEPT ![n] = Append(@, b)]

\* A canonized block arrives while a locally produced one is pending.
MatchCanonized(n) ==
    /\ Selecting(n)
    /\ canonized_blocks_rx[n] # << >>
    /\ produced_queue[n] # << >>
    /\ Head(produced_queue[n]) = Head(canonized_blocks_rx[n])
    /\ SendToApplier(n, Head(produced_queue[n]))
    /\ produced_queue' = [produced_queue EXCEPT ![n] = Tail(@)]
    /\ canonized_blocks_rx' = [canonized_blocks_rx EXCEPT ![n] = Tail(@)]
    /\ UNCHANGED <<raftVars, durableVars, applied, sourceVars, executorVars,
                   proposing, applied_block_number>>

\* "canonized replay record mismatch ... Other node became the leader?"
MismatchCanonized(n) ==
    /\ Selecting(n)
    /\ canonized_blocks_rx[n] # << >>
    /\ produced_queue[n] # << >>
    /\ Head(produced_queue[n]) # Head(canonized_blocks_rx[n])
    /\ Exit(n)

\* Mutant: a canonized block of another node is only logged.
ForwardCanonizedDropped(n) ==
    /\ Selecting(n)
    /\ canonized_blocks_rx[n] # << >>
    /\ produced_queue[n] = << >>
    /\ canonized_blocks_rx' = [canonized_blocks_rx EXCEPT ![n] = Tail(@)]
    /\ UNCHANGED <<raftVars, durableVars, applied, sourceVars, executorVars,
                   proposing, produced_queue, applierVars>>

\* A canonized block of another node goes to the beginning of the pipeline.
ForwardCanonized(n) ==
    /\ Selecting(n)
    /\ canonized_blocks_rx[n] # << >>
    /\ produced_queue[n] = << >>
    /\ replays_to_execute' = [replays_to_execute EXCEPT
                                ![n] = Append(@, Head(canonized_blocks_rx[n]))]
    /\ canonized_blocks_rx' = [canonized_blocks_rx EXCEPT ![n] = Tail(@)]
    /\ UNCHANGED <<raftVars, durableVars, applied, role, wal_cursor,
                   replay_until, commands, executorVars, proposing,
                   produced_queue, applierVars>>

\* Mutant: produced blocks are passed on like replayed ones.
CanReceiveAnyExecuted(n, type) ==
    /\ Selecting(n)
    /\ Len(produced_queue[n]) < MaxProducedQueueSize
    /\ executed[n] # << >>

\* The select arm for executed blocks, open while the queue has room.
CanReceiveExecuted(n, type) ==
    /\ Selecting(n)
    /\ Len(produced_queue[n]) < MaxProducedQueueSize
    /\ executed[n] # << >>
    /\ Head(executed[n]).type = type

PassReplay(n) ==
    /\ CanReceiveExecuted(n, "Replay")
    /\ SendToApplier(n, Head(executed[n]).block)
    /\ executed' = [executed EXCEPT ![n] = Tail(@)]
    /\ UNCHANGED <<raftVars, durableVars, applied, sourceVars, executing,
                   last_block, canonizerVars, applied_block_number>>

\* propose(): client_write on the leader appends the record to its log.
ProposeBlock(n) ==
    /\ CanReceiveExecuted(n, "Produce")
    /\ leader = n
    /\ established
    /\ tail = << >>
    /\ Len(log) < MaxLog
    /\ tail' = << Head(executed[n]).block >>
    /\ proposing' = [proposing EXCEPT ![n] =
          << [block |-> Head(executed[n]).block,
              index |-> Len(log) + 1,
              term |-> term] >>]
    /\ executed' = [executed EXCEPT ![n] = Tail(@)]
    /\ UNCHANGED <<log, term, leader, established, crashes, timely, durableVars,
                   applied, sourceVars, executing, last_block, canonized_blocks_rx, produced_queue,
                   applierVars>>

\* client_write on a node that does not lead is an error.
ProposeOnReplica(n) ==
    /\ CanReceiveExecuted(n, "Produce")
    /\ leader # n
    /\ Exit(n)

\* client_write returns once the entry is applied on this node.
ProposeReturns(n) ==
    /\ proposing[n] # << >>
    /\ proposing[n][1].term = term
    /\ applied[n] >= proposing[n][1].index
    /\ produced_queue' = [produced_queue EXCEPT ![n] =
                             Append(@, proposing[n][1].block)]
    /\ proposing' = [proposing EXCEPT ![n] = << >>]
    /\ UNCHANGED <<raftVars, durableVars, applied, sourceVars, executorVars,
                   canonized_blocks_rx, applierVars>>

\* client_write of a deposed leader returns an error.
ProposeFails(n) ==
    /\ proposing[n] # << >>
    /\ proposing[n][1].term # term
    /\ Exit(n)

-----------------------------------------------------------------------------
(* BlockApplier and BlockReplayStorage *)

\* WriteReplay::write without override: a block that exists is left alone, one
\* beyond the next number would panic (NoInconsistentBlock: there is none).
ApplyBlock(n) ==
    /\ canonical[n] # << >>
    /\ LET b == Head(canonical[n]) IN
          /\ Len(b) <= Len(wal[n]) + 1
          /\ wal' = IF Len(b) <= Len(wal[n])
                    THEN wal
                    ELSE [wal EXCEPT ![n] = Append(@, b)]
          /\ applied_block_number' = [applied_block_number EXCEPT ![n] = Len(b)]
    /\ canonical' = [canonical EXCEPT ![n] = Tail(@)]
    /\ UNCHANGED <<raftVars, raft_applied, applied, sourceVars, executorVars,
                   canonizerVars>>

-----------------------------------------------------------------------------
(* The components as processes *)

Openraft == Establish \/ Commit \/ \E n \in Nodes : Elect(n)

StateMachine(n) == Apply(n)

LeadershipMonitor(n) == ConfirmLeader(n) \/ LoseLeadership(n)

CommandSource(n) == ForwardWalReplay(n) \/ ForwardReplay(n) \/ SendProduce(n)

BlockExecutor(n) ==
    \/ ReceiveCommand(n)
    \/ ExecuteProduce(n)
    \/ ReplayGenesis(n)
    \/ ExecuteReplay(n)
    \/ RefuseReplay(n)

BlockCanonizer(n) ==
    \/ MatchCanonized(n)
    \/ MismatchCanonized(n)
    \/ ForwardCanonized(n)
    \/ PassReplay(n)
    \/ ProposeBlock(n)
    \/ ProposeOnReplica(n)
    \/ ProposeReturns(n)
    \/ ProposeFails(n)

BlockApplier(n) == ApplyBlock(n)

NodeStep(n) ==
    \/ StateMachine(n)
    \/ LeadershipMonitor(n)
    \/ CommandSource(n)
    \/ BlockExecutor(n)
    \/ BlockCanonizer(n)
    \/ BlockApplier(n)

Next == Openraft \/ \E n \in Nodes : NodeStep(n) \/ Crash(n)

Spec == Init /\ [][Next]_vars

\* Every component is a task of its own that runs whenever it can, and the
\* leader of a connected cluster commits what is in its log.  Nothing is assumed
\* of elections, crashes or block production: transactions may never come.
Fairness ==
    /\ WF_vars(Establish)
    /\ WF_vars(Commit)
    /\ \A n \in Nodes :
          /\ WF_vars(StateMachine(n))
          /\ WF_vars(LeadershipMonitor(n))
          /\ WF_vars(CommandSource(n))
          /\ WF_vars(ReceiveCommand(n) \/ ReplayGenesis(n)
                        \/ ExecuteReplay(n) \/ RefuseReplay(n))
          /\ WF_vars(BlockCanonizer(n))
          /\ WF_vars(BlockApplier(n))

FairSpec == Spec /\ Fairness

-----------------------------------------------------------------------------
(* Properties *)

Elems(s) == {s[i] : i \in 1 .. Len(s)}

Payload == [type : {"Produce", "Replay"}, block : Block]
Proposal == [block : Block, index : Nat, term : Nat]
AtMostOne(S) == {s \in Seq(S) : Len(s) <= 1}

AtMostMaxLog(S) == {s \in Seq(S) : Len(s) <= MaxLog}

RaftType ==
    /\ log \in Seq(Block)
    /\ tail \in AtMostOne(Block)
    /\ term \in Nat
    /\ leader \in Nodes \cup {NoNode}
    /\ established \in BOOLEAN
    /\ crashes \in Nat
    /\ timely \in BOOLEAN

DurableType ==
    /\ wal \in [Nodes -> AtMostMaxLog(Block)]
    /\ raft_applied \in [Nodes -> [1 .. MaxLog -> Nat]]

SourceType ==
    /\ role \in [Nodes -> {"Replica", "Leader"}]
    /\ replays_to_execute \in [Nodes -> Seq(Block)]
    /\ wal_cursor \in [Nodes -> Nat]
    /\ replay_until \in [Nodes -> Nat]
    /\ commands \in [Nodes -> AtMostOne(Command)]

ExecutorType ==
    /\ executing \in [Nodes -> AtMostOne(Command)]
    /\ last_block \in [Nodes -> Block \cup {NoBlock}]
    /\ executed \in [Nodes -> Seq(Payload)]

CanonizerType ==
    /\ canonized_blocks_rx \in [Nodes -> Seq(Block)]
    /\ proposing \in [Nodes -> AtMostOne(Proposal)]
    /\ produced_queue \in [Nodes -> Seq(Block)]

ApplierType ==
    /\ canonical \in [Nodes -> Seq(Block)]
    /\ applied_block_number \in [Nodes -> Nat]

TypeOK ==
    /\ RaftType
    /\ DurableType
    /\ applied \in [Nodes -> Nat]
    /\ SourceType
    /\ ExecutorType
    /\ CanonizerType
    /\ ApplierType

\* The canonization fence: whatever a node has made durable in its WAL is a
\* block that the raft log holds as committed.
OnlyCanonizedPersisted ==
    \A n \in Nodes : Elems(wal[n]) \subseteq Elems(log)

\* Why the fence holds: every queue downstream of the raft log holds canonized
\* blocks, and a Replay command carries one, or genesis before it is executed.
CanonizedQueues ==
    \A n \in Nodes :
       /\ Elems(canonized_blocks_rx[n]) \subseteq Elems(log)
       /\ Elems(replays_to_execute[n]) \subseteq Elems(log)
       /\ Elems(canonical[n]) \subseteq Elems(log)

CanonizedReplays ==
    \A n \in Nodes :
       /\ \A c \in Elems(commands[n]) \cup Elems(executing[n]) :
             c.type = "Replay" => c.block \in Elems(log) \cup {Genesis}
       /\ \A c \in Elems(executed[n]) :
             c.type = "Replay" => c.block \in Elems(log)

FenceInv == OnlyCanonizedPersisted /\ CanonizedQueues /\ CanonizedReplays

\* Blocks that left the executor and have not been applied.
InFlight(n) == Len(executed[n]) + Len(proposing[n])
                  + Len(produced_queue[n]) + Len(canonical[n])

\* The executor starts block N + 1 only when block N is applied, so the
\* canonizer's queue limit and the channels to it are never under pressure.
OneBlockInFlight == \A n \in Nodes : InFlight(n) <= 1

\* Why: a block in flight is last_block, and last_block is not applied yet.
InFlightBlocks(n) ==
    {p.block : p \in Elems(executed[n]) \cup Elems(proposing[n])}
       \cup Elems(produced_queue[n]) \cup Elems(canonical[n])

InFlightIsLast(n) ==
    /\ InFlight(n) <= 1
    /\ InFlight(n) = 1 => /\ last_block[n] # NoBlock
                          /\ applied_block_number[n] < Len(last_block[n])
    /\ \A b \in InFlightBlocks(n) : b = last_block[n]

AppliedUpToLast(n) ==
    /\ last_block[n] = NoBlock => applied_block_number[n] = 0
    /\ last_block[n] # NoBlock => applied_block_number[n] <= Len(last_block[n])

\* Genesis is only ever the first block a process replays.
GenesisFirst(n) ==
    /\ wal_cursor[n] = 0 => /\ commands[n] = << >>
                            /\ executing[n] = << >>
                            /\ last_block[n] = NoBlock
    /\ Replay(Genesis) \in Elems(commands[n]) => /\ executing[n] = << >>
                                                 /\ last_block[n] = NoBlock
    /\ Replay(Genesis) \in Elems(executing[n]) => last_block[n] = NoBlock

GenesisNotProposed == Genesis \notin Elems(log) \cup Elems(tail)

FlightInv ==
    /\ GenesisNotProposed
    /\ \A n \in Nodes : InFlightIsLast(n) /\ AppliedUpToLast(n) /\ GenesisFirst(n)

\* When tasks keep up with elections, no component of a node meets a block it
\* has to refuse: the executor never sees a replay out of order or on another
\* parent, the canonizer never finds another block canonized in place of its
\* own, the applier never sees a gap.
NoInconsistentBlock ==
    timely => \A n \in Nodes :
       /\ (CaughtUp(n) /\ HasCommand(n, "Replay") /\ executing[n][1].block # Genesis)
             => ~MayRefuseOn(last_block[n], executing[n][1].block)
       /\ (Selecting(n) /\ canonized_blocks_rx[n] # << >> /\ produced_queue[n] # << >>)
             => Head(produced_queue[n]) = Head(canonized_blocks_rx[n])
       /\ canonical[n] # << >> => Len(Head(canonical[n])) <= Len(wal[n]) + 1

\* When tasks keep up with elections, a restart at this moment makes raft
\* re-apply every canonized block that the WAL lacks: the log index taken from
\* RaftApplied skips none.
NoCanonizedBlockSkipped ==
    timely => \A n \in Nodes : \A i \in 1 .. AppliedState(n) : log[i] \in Elems(wal[n])

\* The WALs of two nodes never hold different blocks with the same number.
WalAgreement ==
    \A m, n \in Nodes : \A k \in 1 .. Len(wal[m]) :
       k <= Len(wal[n]) => wal[m][k] = wal[n][k]

\* Every canonized block reaches the WAL of every node.
CanonizedReachesWal ==
    \A n \in Nodes : \A i \in 1 .. MaxLog :
       (Len(log) >= i) ~> (Len(log) >= i /\ log[i] \in Elems(wal[n]))
\* The raft log is the canonical chain and the WALs are the ledgers: when the
\* tasks of a node keep up with elections, the nodes together implement the
\* replicated ledger.
Ledger == INSTANCE ReplicatedLedger
    WITH chain <- IF timely THEN log ELSE << >>,
         ledger <- IF timely THEN wal ELSE [n \in Nodes |-> << >>]
ImplementsLedger == Ledger!Spec

\* Node identities only index functions and name the leader; payloads are only compared.
Symmetry == Permutations(Nodes) \cup Permutations(Payloads)
=============================================================================
