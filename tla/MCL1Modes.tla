----------------------------- MODULE MCL1Modes ------------------------------
(* Both directions of settlement, of which a behaviour runs one.  Sessions  *)
(* of the L1 sender, each of them pipelined or stop-and-wait as             *)
(* pipelining_enabled is configured when the process starts: what a session *)
(* of one mode leaves in flight, a session of the other mode may recover.   *)
(* And the watchers of settlement, which read back what L1 has accepted.    *)
EXTENDS L1Sender, TLC

CONSTANTS MaxRpcErrors, StopAndWaitWindows, MaxEvents, Sizes, NoBatch

VARIABLES
    mode,  \* of the running session, or "watchers"
    \* of the stop-and-wait sender only
    rpc_errors, command_limit, pending_txs, completed,
    \* of the watchers only
    events, head, finalized, l1_state, swept, remaining, batches, finality, next,
    committed_batches, last_processed_commit_batch, last_persisted_batch_on_start,
    storage, latest_batch

\* phase and crashes serve the part that runs: both start with the same values.
SW == INSTANCE L1StopAndWait WITH Windows <- StopAndWaitWindows
W == INSTANCE SettlementWatchers

pipelinedVars == <<window, seeds, base_nonce, until_nonce, fee_floor, in_flight_prefix,
                   wave_fee, watcherVars, mined_rx>>
stopAndWaitVars == <<rpc_errors, command_limit, pending_txs, completed>>
watchersVars == <<events, head, finalized, l1_state, swept, remaining, batches, finality, next,
                  committed_batches, last_processed_commit_batch,
                  last_persisted_batch_on_start, storage, latest_batch>>
\* Everything of the senders but phase and crashes.
senderVars == <<l1Vars, stopAndWaitVars, pipelinedVars, force, build, snapshot_nonce,
                snapshot_batch, next_batch, pending_nonce, next_nonce, wave, forwarded>>

ModesInit == Init /\ SW!Init /\ W!Init /\ mode \in {"down", "watchers"}
ModesNext ==
    \/ /\ mode \in {"down", "pipelined"} /\ Next
       /\ mode' = IF phase' = "down" THEN "down" ELSE "pipelined"
       /\ UNCHANGED <<stopAndWaitVars, watchersVars>>
    \/ /\ mode \in {"down", "stop_and_wait"} /\ SW!Next
       /\ mode' = IF phase' = "down" THEN "down" ELSE "stop_and_wait"
       /\ UNCHANGED <<pipelinedVars, watchersVars>>
    \/ mode = "watchers" /\ W!Next /\ UNCHANGED <<mode, senderVars>>
ModesSpec == ModesInit /\ [][ModesNext]_<<vars, stopAndWaitVars, watchersVars, mode>>

(* Whichever mode the sessions are in, what goes downstream is what the     *)
(* contract has stored, in a confirmed transaction.                         *)
ModesForwardCommitted ==
    IF mode = "stop_and_wait" THEN SW!ForwardedIsCommitted ELSE ForwardedIsCommitted

(* The pipelined sender's invariants hold also when it recovers what a      *)
(* stop-and-wait session left in flight.                                    *)
Pipelined == mode = "pipelined"

\* Results leave the pipelined sender in batch order (mined_rx is a FIFO that
\* the confirmer drains in nonce order), and the nonces of its transactions
\* follow its batches without gap (next_nonce), across lost answers, resends
\* and restarts.
PipelinedInOrder == Pipelined => ForwardedInOrder /\ NoncesFollowBatches

\* The sender keeps what it may have to send again, and a replacement of a stale
\* transaction is sent at a fee the mempool accepts (fee_floor).
PipelinedResends == ResendPossible /\ (Pipelined => ReplacementsOutbid)

\* ExecutedBatchStorage holds exactly the batches that L1 executed for good, whatever
\* was committed and reverted before, and it misses none, wherever it resumes after a
\* crash (L1PersistBatchWatcher).
PersistedIsExecuted == mode = "watchers" => W!PersistedIsExecuted /\ W!ExecutedWillPersist

\* The batches and frontiers that the node publishes are those of L1 while the revert
\* watcher has no revert to report.
ViewIsLive == mode = "watchers" => W!ViewIsLive

\* A frontier never moves back in a run of the process, and a persisted batch is never
\* replaced.
NeverBack == W!NeverBack

\* Contents of a batch are only compared.
Symmetry == Permutations(Contents)
=============================================================================
