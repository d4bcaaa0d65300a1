------------------------- MODULE SettlementWatchers --------------------------
(***************************************************************************)
(* How an external node follows the settlement layer.  At startup the node *)
(* reads the L1 state and loads the live committed batches into            *)
(* CommittedBatchProvider; from then on five watchers tail the events of   *)
(* the diamond proxy, each with a cursor of its own:                       *)
(*                                                                         *)
(*   L1CommitWatcher            confirmed   finality, provider             *)
(*   L1ExecuteWatcher           confirmed   finality                       *)
(*   L1FinalizedExecuteWatcher  finalized   finality                       *)
(*   L1RevertWatcher            confirmed   restarts the node              *)
(*   L1PersistBatchWatcher      finalized   ExecutedBatchStorage (on disk) *)
(*                                                                         *)
(* A watcher of the confirmed boundary looks only at blocks with enough    *)
(* confirmations, which is one more way of being slow: the model lets it   *)
(* look at the latest block.                                               *)
(*                                                                         *)
(* A panic of any of them stops the process, which is started again.       *)
(***************************************************************************)
EXTENDS Integers, Sequences, FiniteSets

(***************************************************************************)
(* The settlement layer as the node's watchers see it: the chain of L1     *)
(* blocks with the events of the diamond proxy, the totals and the stored  *)
(* batch hashes that the contract reports as of a block, and the latest    *)
(* and the finalized head.  External: it is what the code in l1_watcher    *)
(* reads through eth_getLogs and the contract's view functions.            *)
(*                                                                         *)
(* A batch is the range of its L2 blocks, which stands for its content and *)
(* for its hash.  Blocks that the node has read are not reorganised, and   *)
(* one L1 block does not commit the same batch twice.                      *)
(***************************************************************************)

CONSTANTS
    MaxBatch,     \* bound: number of the last batch
    MaxEvents,    \* bound: events of the log
    Sizes,        \* numbers of L2 blocks a batch may have
    NoBatch       \* absence of a batch

ASSUME MaxBatchAssumption == MaxBatch \in Nat
ASSUME SizesAssumption == Sizes \subseteq Nat \ {0}
ASSUME NoBatchAssumption == NoBatch \notin Nat \X Nat

VARIABLES
    events,     \* events of the diamond proxy, in order
    head,       \* number of the latest L1 block
    finalized   \* the finalized block

slVars == <<events, head, finalized>>

\* An event, the L1 block it is in, and the contract's totals after it.
Event == [type : {"commit", "execute", "revert"}, batch : 0..MaxBatch,
          range : (Nat \X Nat) \cup {NoBatch}, block : Nat,
          committed : 0..MaxBatch, executed : 0..MaxBatch]

Indices == DOMAIN events

\* Events come in blocks, so those up to a block are a prefix of the log.
EventsUpTo(block) == {i \in Indices : events[i].block <= block}

FirstIndexFrom(block) == Cardinality({i \in Indices : events[i].block < block}) + 1

\* getTotalBatchesCommitted and getTotalBatchesExecuted as of a block.
TotalCommitted(block) ==
    LET n == Cardinality(EventsUpTo(block)) IN IF n = 0 THEN 0 ELSE events[n].committed

TotalExecuted(block) ==
    LET n == Cardinality(EventsUpTo(block)) IN IF n = 0 THEN 0 ELSE events[n].executed

\* The last commit of a batch among a set of events, as a set of at most one index.
LastCommit(b, among) ==
    LET commits == {i \in among : events[i].type = "commit" /\ events[i].batch = b}
    IN  {i \in commits : \A j \in commits : j <= i}

\* storedBatchHash as of a block.  A new commit overwrites it, a revert leaves it.
StoredHash(b, block) ==
    LET last == LastCommit(b, EventsUpTo(block))
    IN  IF last = {} THEN NoBatch ELSE events[CHOOSE i \in last : TRUE].range

GenesisRange == <<0, 0>>

\* The batch with a number that the contract holds at the end of the log.
LiveBatch(b) ==
    LET last == LastCommit(b, Indices)
    IN  IF b = 0 THEN GenesisRange ELSE events[CHOOSE i \in last : TRUE].range

Committed == IF events = << >> THEN 0 ELSE events[Len(events)].committed

Executed == IF events = << >> THEN 0 ELSE events[Len(events)].executed

\* The block being formed may be read only once it is mined.
Emit(type, b, range, committed, executed) ==
    /\ Len(events) < MaxEvents
    /\ events' = Append(events,
         [type |-> type, batch |-> b, range |-> range, block |-> head + 1,
          committed |-> committed, executed |-> executed])
    /\ UNCHANGED <<head, finalized>>

\* A batch is committed on top of the last committed one.
CommitBatch(size) ==
    LET first == LiveBatch(Committed)[2] + 1 IN
    /\ Committed < MaxBatch
    /\ \A i \in Indices : events[i].type = "commit" /\ events[i].block = head + 1
                            => events[i].batch # Committed + 1
    /\ Emit("commit", Committed + 1, <<first, first + size - 1>>, Committed + 1, Executed)

\* The next committed batch is executed, for ever.
ExecuteBatch ==
    /\ Executed < Committed
    /\ Emit("execute", Executed + 1, NoBatch, Committed, Executed + 1)

\* Batches that are not executed are reverted.
RevertBatches(keep) ==
    /\ Emit("revert", keep, NoBatch, keep, Executed)

MineBlock ==
    /\ events # << >> /\ events[Len(events)].block = head + 1
    /\ head' = head + 1
    /\ UNCHANGED <<events, finalized>>

Finalize ==
    /\ finalized < head
    /\ finalized' = finalized + 1
    /\ UNCHANGED <<events, head>>

SlInit ==
    /\ events = << >>
    /\ head = 0
    /\ finalized = 0

SlNext ==
    \/ \E size \in Sizes : CommitBatch(size)
    \/ ExecuteBatch
    \/ \E keep \in Executed..(Committed - 1) : RevertBatches(keep)
    \/ MineBlock
    \/ Finalize

SlTypeOK ==
    /\ events \in Seq(Event) /\ Len(events) <= MaxEvents
    /\ head \in Nat /\ finalized \in 0..head
    /\ \A i \in Indices : events[i].block \in 1..(head + 1)
-----------------------------------------------------------------------------

CONSTANT MaxCrashes   \* bound: crashes that no watcher caused

ASSUME MaxCrashesAssumption == MaxCrashes \in Nat

VARIABLES
    phase,      \* "down", "fetched" (L1State is read) or "running"
    l1_state,   \* the batch totals of L1State and the block they were read at
    swept,      \* event of each batch's commit found by the startup sweep, 0: none
    remaining,  \* startup batches that the background task still loads
    batches,    \* CommittedBatchProvider
    finality,   \* FinalityStatus: last batch and last block of each frontier
    next,       \* index of the next event each watcher looks at
    committed_batches, last_processed_commit_batch,
    last_persisted_batch_on_start,   \* L1PersistBatchWatcher
    storage, latest_batch,           \* ExecutedBatchStorage
    crashes

startVars == <<phase, l1_state, swept>>
persistVars == <<committed_batches, last_processed_commit_batch, last_persisted_batch_on_start>>
diskVars == <<storage, latest_batch>>
nodeVars == <<startVars, remaining, batches, finality, next, persistVars>>
vars == <<slVars, nodeVars, diskVars, crashes>>

Batches == 1..MaxBatch
Watchers == {"commit", "execute", "finalized_execute", "revert", "persist"}
Larger(a, b) == IF a > b THEN a ELSE b

\* State of a process that is not running.
NoL1State == [block |-> 0, committed |-> 0, executed |-> 0, finalized_executed |-> 0]
NoBatches == [b \in 0..MaxBatch |-> NoBatch]
NoFinality == [frontier \in {"committed", "executed", "finalized_executed"} |-> <<0, 0>>]

Down ==
    /\ phase = "down"
    /\ l1_state = NoL1State
    /\ swept = [b \in Batches |-> 0]
    /\ remaining = {}
    /\ batches = NoBatches
    /\ finality = NoFinality
    /\ next = [w \in Watchers |-> 1]
    /\ committed_batches = NoBatches
    /\ last_processed_commit_batch = 0
    /\ last_persisted_batch_on_start = 0

Stop ==
    /\ phase' = "down"
    /\ l1_state' = NoL1State
    /\ swept' = [b \in Batches |-> 0]
    /\ remaining' = {}
    /\ batches' = NoBatches
    /\ finality' = NoFinality
    /\ next' = [w \in Watchers |-> 1]
    /\ committed_batches' = NoBatches
    /\ last_processed_commit_batch' = 0
    /\ last_persisted_batch_on_start' = 0
    /\ UNCHANGED <<slVars, diskVars>>

Init ==
    /\ SlInit
    /\ Down
    /\ storage = NoBatches
    /\ latest_batch = 0
    /\ crashes = 0

----------------------------------------------------------------------------
(* Startup *)

\* Totals as of the latest block; finality lags behind it.
FetchL1State ==
    /\ phase = "down"
    /\ phase' = "fetched"
    /\ l1_state' = [block |-> head, committed |-> TotalCommitted(head),
                    executed |-> TotalExecuted(head),
                    finalized_executed |-> TotalExecuted(finalized)]
    /\ UNCHANGED <<slVars, swept, remaining, batches, finality, next, persistVars, diskVars, crashes>>

\* What the search over L1 blocks may return: a block where the predicate, given
\* as the set of blocks it holds at, turns true.
FirstTrueBlocks(holds) == {block \in holds : block = 0 \/ block - 1 \notin holds}

LiveCommitBlocks(b) ==
    FirstTrueBlocks({block \in 0..head :
        b = 0 \/ StoredHash(b, block) = StoredHash(b, head)})

ExecuteBlocks(b) ==
    FirstTrueBlocks({block \in 0..head : TotalExecuted(block) >= b})

\* Mutant: the watcher resumes where the last persisted batch was executed.
PersistResumeAtExecute == ExecuteBlocks(latest_batch)

\* L1PersistBatchWatcher resumes at the commit of the last persisted batch.
PersistResume == LiveCommitBlocks(latest_batch)

StartupBatches ==
    Larger(l1_state.finalized_executed, 1)..l1_state.committed

\* Keep-last over the commits from the oldest startup batch's commit block on.
SweepFrom(block) ==
    [b \in Batches |->
        LET last == LastCommit(b, {i \in EventsUpTo(head) : events[i].block >= block})
        IN  IF b \in StartupBatches /\ last # {} THEN CHOOSE i \in last : TRUE ELSE 0]

\* load_swept_batches accepts a swept commit only if it is the live one.
Loadable(found, b) ==
    found[b] # 0 /\ events[found[b]].range = StoredHash(b, head)

LastBlock(loaded, b) == IF b = 0 THEN 0 ELSE loaded[b][2]

\* CommittedBatchProvider::new, the finality status, and the start of the watchers.
StartWatchers(found, eager) ==
    LET loaded == [b \in 0..MaxBatch |->
            IF b = 0 /\ l1_state.executed = 0 THEN GenesisRange
            ELSE IF b \in eager THEN events[found[b]].range ELSE NoBatch]
        Frontier(b) == <<b, LastBlock(loaded, b)>>
    IN
    /\ phase' = "running"
    /\ swept' = found
    /\ remaining' = StartupBatches \ eager
    /\ batches' = loaded
    /\ finality' = [committed |-> Frontier(l1_state.committed),
                    executed |-> Frontier(l1_state.executed),
                    finalized_executed |-> Frontier(l1_state.finalized_executed)]
    /\ \E execute \in ExecuteBlocks(l1_state.executed),
          finalized_execute \in ExecuteBlocks(l1_state.finalized_executed),
          persist \in PersistResume :
         next' = [commit |-> IF l1_state.committed = 0 THEN 1
                             ELSE FirstIndexFrom(events[found[l1_state.committed]].block),
                  execute |-> FirstIndexFrom(execute),
                  finalized_execute |-> FirstIndexFrom(finalized_execute),
                  revert |-> FirstIndexFrom(l1_state.block + 1),
                  persist |-> FirstIndexFrom(persist)]
    /\ committed_batches' = NoBatches
    /\ last_processed_commit_batch' = latest_batch
    /\ last_persisted_batch_on_start' = latest_batch
    /\ UNCHANGED <<slVars, l1_state, diskVars, crashes>>

\* The frontier batches are loaded before the node starts; which one is the last
\* proved batch only decides what is loaded first.
Start ==
    /\ phase = "fetched"
    /\ StartupBatches # {} => TotalCommitted(head) >= l1_state.committed
    /\ \E proved \in l1_state.executed..l1_state.committed,
          block \in LiveCommitBlocks(Larger(l1_state.finalized_executed, 1)) :
         LET eager == {l1_state.committed, proved, l1_state.executed,
                       l1_state.finalized_executed} \cap StartupBatches
             found == SweepFrom(block)
         IN  /\ \A b \in eager : Loadable(found, b)
             /\ StartWatchers(found, eager)

\* A revert since L1State was read: the sweep misses a batch.
StartFails ==
    /\ phase = "fetched"
    /\ StartupBatches # {} /\ TotalCommitted(head) < l1_state.committed
    /\ Stop
    /\ UNCHANGED crashes

\* The background task inserts the other startup batches.
LoadRemaining(b) ==
    /\ Loadable(swept, b)
    /\ batches' = [batches EXCEPT ![b] = events[swept[b]].range]
    /\ remaining' = remaining \ {b}
    /\ UNCHANGED <<slVars, startVars, finality, next, persistVars, diskVars, crashes>>

LoadRemainingFails(b) ==
    /\ ~Loadable(swept, b)
    /\ Stop
    /\ UNCHANGED crashes

Load == \E b \in remaining : LoadRemaining(b) \/ LoadRemainingFails(b)

----------------------------------------------------------------------------
(* Watchers *)

\* poll: the next event up to the watcher's boundary that its processor does not
\* skip, as a set of at most one index.
Polled(w, wanted, boundary) ==
    LET found == {i \in next[w]..Len(events) : i \in wanted /\ events[i].block <= boundary}
    IN  {i \in found : \A j \in found : i <= j}

EventsOf(type) == {i \in Indices : events[i].type = type}

Advance(w, i) == next' = [next EXCEPT ![w] = i + 1]

\* The process panics: an error of process_event, or a failed assertion.
Panic == Stop /\ UNCHANGED crashes

\* Mutant: the frontier takes whatever the event says.
NotMonotonous(frontier, b, block) == TRUE

\* The assertions of update_finality_status.
Monotonous(frontier, b, block) ==
    b > finality[frontier][1] /\ block > finality[frontier][2]

\* Mutant: commits of startup catch-up are taken like any others.
NoHistoricalCommit(e) == FALSE

\* Commits of startup catch-up above the startup frontier were reverted.
HistoricalCommit(e) == e.block <= l1_state.block /\ e.batch > l1_state.committed

SkipsCommit(e) == HistoricalCommit(e) \/ e.batch < l1_state.committed + 1

DiscoverCommit(i, b, range) ==
    /\ finality' = [finality EXCEPT !["committed"] = <<b, range[2]>>]
    /\ batches' = [batches EXCEPT ![b] = range]
    /\ Advance("commit", i)
    /\ UNCHANGED <<slVars, startVars, remaining, persistVars, diskVars, crashes>>

ProcessCommit ==
    \E i \in Polled("commit", {k \in EventsOf("commit") : ~SkipsCommit(events[k])}, head) :
      IF Monotonous("committed", events[i].batch, events[i].range[2])
      THEN DiscoverCommit(i, events[i].batch, events[i].range)
      ELSE Panic

DiscoverExecution(w, i, frontier, b) ==
    /\ finality' = [finality EXCEPT ![frontier] = <<b, batches[b][2]>>]
    /\ Advance(w, i)
    /\ UNCHANGED <<slVars, startVars, remaining, batches, persistVars, diskVars, crashes>>

\* process_execution waits until the provider has the batch.
ProcessExecution(w, frontier, startup, boundary) ==
    \E i \in Polled(w, {k \in EventsOf("execute") : events[k].batch >= startup + 1}, boundary) :
      /\ batches[events[i].batch] # NoBatch
      /\ IF Monotonous(frontier, events[i].batch, batches[events[i].batch][2])
         THEN DiscoverExecution(w, i, frontier, events[i].batch)
         ELSE Panic

ProcessExecute == ProcessExecution("execute", "executed", l1_state.executed, head)

ProcessFinalizedExecute ==
    ProcessExecution("finalized_execute", "finalized_executed",
                     l1_state.finalized_executed, finalized)

\* The watcher starts behind the startup block, so every revert it meets is new.
ProcessRevert ==
    /\ Polled("revert", EventsOf("revert"), head) # {}
    /\ Panic

\* An event that the persist watcher passes over.
PassOver(i) ==
    /\ Advance("persist", i)
    /\ UNCHANGED <<slVars, startVars, remaining, batches, finality, persistVars, diskVars, crashes>>

\* A commit is kept until the execution arrives; one that is known replaces what
\* was reverted.
RememberCommit(i, b, range) ==
    /\ committed_batches' = [committed_batches EXCEPT ![b] = range]
    /\ last_processed_commit_batch' = b
    /\ Advance("persist", i)
    /\ UNCHANGED <<slVars, startVars, remaining, batches, finality,
                   last_persisted_batch_on_start, diskVars, crashes>>

\* A commit beyond the next one can only be of a reverted batch.
AfterGap(b) == b > last_processed_commit_batch + 1 /\ last_processed_commit_batch # 0

\* Mutant: a batch that was remembered once is not replaced.
PersistCommitOnce(i, b, range) ==
    IF b <= last_processed_commit_batch \/ AfterGap(b)
    THEN PassOver(i) ELSE RememberCommit(i, b, range)

PersistCommit(i, b, range) ==
    IF b <= last_processed_commit_batch /\ storage[b] # NoBatch
    THEN IF storage[b] = range THEN PassOver(i) ELSE Panic
    ELSE IF AfterGap(b) THEN PassOver(i) ELSE RememberCommit(i, b, range)

WriteBatch(i, b) ==
    /\ storage' = [storage EXCEPT ![b] = committed_batches[b]]
    /\ latest_batch' = b
    /\ committed_batches' = [committed_batches EXCEPT ![b] = NoBatch]
    /\ Advance("persist", i)
    /\ UNCHANGED <<slVars, startVars, remaining, batches, finality,
                   last_processed_commit_batch, last_persisted_batch_on_start, crashes>>

\* Without any commit so far the batch is taken for one of before commits were
\* reported.
PersistExecute(i, b) ==
    IF b <= last_persisted_batch_on_start THEN PassOver(i)
    ELSE IF committed_batches[b] # NoBatch THEN WriteBatch(i, b)
    ELSE IF last_processed_commit_batch = last_persisted_batch_on_start THEN PassOver(i)
    ELSE Panic

ProcessPersist ==
    \E i \in Polled("persist", EventsOf("commit") \cup EventsOf("execute"), finalized) :
      \/ events[i].type = "commit" /\ PersistCommit(i, events[i].batch, events[i].range)
      \/ events[i].type = "execute" /\ PersistExecute(i, events[i].batch)

\* The process dies, or an RPC call of a watcher fails.
Crash ==
    /\ phase # "down"
    /\ crashes < MaxCrashes
    /\ crashes' = crashes + 1
    /\ Stop

----------------------------------------------------------------------------
L1Step == SlNext /\ UNCHANGED <<nodeVars, diskVars, crashes>>

Running(A) == phase = "running" /\ A

Next ==
    \/ L1Step
    \/ FetchL1State
    \/ Start
    \/ StartFails
    \/ Load
    \/ Running(ProcessCommit)
    \/ Running(ProcessExecute)
    \/ Running(ProcessFinalizedExecute)
    \/ Running(ProcessRevert)
    \/ Running(ProcessPersist)
    \/ Crash

Spec == Init /\ [][Next]_vars

\* The node's tasks are polled again and again; L1 mines and finalizes
\* blocks, whatever the chain's operator submits.
FairSpec ==
    /\ Spec
    /\ WF_vars(L1Step /\ (MineBlock \/ Finalize))
    /\ WF_vars(FetchL1State \/ Start \/ StartFails \/ Load)
    /\ WF_vars(Running(ProcessCommit))
    /\ WF_vars(Running(ProcessExecute))
    /\ WF_vars(Running(ProcessFinalizedExecute))
    /\ WF_vars(Running(ProcessRevert))
    /\ WF_vars(Running(ProcessPersist))

----------------------------------------------------------------------------
Ranges == (Nat \X Nat) \cup {NoBatch}

\* The values of the watchers' state.
TypeOK ==
    /\ SlTypeOK
    /\ phase \in {"down", "fetched", "running"}
    /\ l1_state \in [{"block", "committed", "executed", "finalized_executed"} -> Nat]
    /\ swept \in [Batches -> 0..Len(events)]
    /\ remaining \subseteq Batches
    /\ batches \in [0..MaxBatch -> Ranges]
    /\ finality \in [{"committed", "executed", "finalized_executed"} -> Nat \X Nat]
    /\ next \in [Watchers -> 1..(Len(events) + 1)]
    /\ committed_batches \in [0..MaxBatch -> Ranges]
    /\ last_processed_commit_batch \in 0..MaxBatch
    /\ last_persisted_batch_on_start \in 0..MaxBatch
    /\ storage \in [0..MaxBatch -> Ranges]
    /\ latest_batch \in 0..MaxBatch
    /\ crashes \in 0..MaxCrashes

\* ExecutedBatchStorage holds exactly the batches 1..latest_batch, each as L1
\* executed it for good, whatever was committed and reverted before
\* (L1PersistBatchWatcher overwrites what it remembers of reverted commits).
PersistedIsExecuted ==
    /\ latest_batch <= TotalExecuted(finalized)
    /\ \A b \in Batches :
         storage[b] = IF b <= latest_batch THEN LiveBatch(b) ELSE NoBatch

\* An executed batch that is not persisted yet is still to come for the persist
\* watcher: its execution is ahead, and its live commit is ahead or remembered,
\* wherever a crash made the watcher resume (create_watcher of L1PersistBatchWatcher).
ExecutedWillPersist ==
    phase = "running" =>
      \A i \in EventsOf("execute") : events[i].batch > latest_batch =>
        LET b == events[i].batch IN
        /\ i >= next["persist"]
        /\ \A j \in LastCommit(b, Indices) : j >= next["persist"] \/ committed_batches[b] = events[j].range

RevertAhead == \E i \in next["revert"]..Len(events) : events[i].type = "revert"

\* The batches and frontiers that the node publishes are those of L1 as long as
\* the revert watcher has no revert to report: commits that were reverted before
\* the startup block never get in.
ViewIsLive ==
    phase = "running" /\ ~RevertAhead =>
      /\ \A b \in Batches :
           batches[b] # NoBatch => b <= Committed /\ batches[b] = LiveBatch(b)
      /\ \A frontier \in DOMAIN finality :
           /\ finality[frontier][1] <= Committed
           /\ finality[frontier][2] = LiveBatch(finality[frontier][1])[2]

\* A frontier never moves back within a run of the process, and a persisted batch
\* is never replaced.
NeverBack ==
    [][ /\ phase = "running" /\ phase' = "running" =>
             \A frontier \in DOMAIN finality, k \in {1, 2} :
               finality'[frontier][k] >= finality[frontier][k]
        /\ \A b \in Batches : storage[b] # NoBatch => storage'[b] = storage[b] ]_vars

CaughtUp ==
    /\ phase = "running" /\ remaining = {}
    /\ finality["committed"][1] = Committed
    /\ finality["executed"][1] = Executed
    /\ finality["finalized_executed"][1] = Executed
    /\ latest_batch = Executed

\* Once the operator stops submitting, the node comes to rest with everything
\* L1 has: no assertion, skipped event or wait leaves it behind or restarting.
CatchesUp == <>[]CaughtUp
==============================================================================
