---------------------------- MODULE PipelineFlow ----------------------------
(***************************************************************************)
(* The pipeline framework (lib/pipeline), the component state reporters    *)
(* (lib/observability) and the backpressure monitor (lib/backpressure): a  *)
(* chain of tasks joined by bounded channels whose senders fail when the   *)
(* channel is full, a monitor that closes the source's gate when a stage   *)
(* lags behind its upstream, and the graceful shutdown of the chain.       *)
(*                                                                         *)
(* Items are consecutive: a stage's channel holds the numbers between what *)
(* its upstream sent and what it picked.  Up to the batcher they are       *)
(* blocks, after it batches of PfBatch blocks.                             *)
(***************************************************************************)
EXTENDS Integers, Sequences, FiniteSets, TLAPS

CONSTANTS
  PfRole,       \* "main" or "external"
  PfBatching,   \* batcher_config.enabled
  PfKeep,       \* the stages of the wiring that are kept in this instance
  PfBlockLimit, \* default_block_diff_limit
  PfBatchLimit, \* default_batch_diff_limit
  PfBatch,      \* blocks per batch
  PfCapacity,   \* OUTPUT_CHANNEL_CAPACITY
  PfMaxBlock,
  PfCanStall,   \* stages that may stop working
  PfSignalBy,   \* a shutdown is signalled at most this many blocks in
  PfThreads,    \* runtime workers: tasks inside a poll at one time
  PfStopCap     \* capacity of the deregistration channel

PfNoLimit == 1000
Unset == -1

\* run_main_node_pipeline: the block stages, then the batch stages or a sink.
BlockStages ==
  <<"ConsensusNodeCommandSource", "BlockExecutor", "BlockCanonizer", "BlockApplier",
    "RevmConsistencyChecker", "TreeManager">>

BatchStages ==
  <<"ProverInputGenerator", "Batcher", "BatchVerification", "FriJobManager", "GaplessCommitter",
    "UpgradeGatekeeper", "ReplayArchiveGate", "L1SenderCommit", "SnarkJobManager",
    "GaplessL1ProofSender", "L1SenderProve", "PriorityTree", "L1SenderExecute", "BatchSink">>

\* run_en_pipeline.
EnStages ==
  <<"ExternalNodeCommandSource", "BlockExecutor", "BlockApplier", "RevmConsistencyChecker",
    "TreeManager", "BatchVerificationResponder", "NoopSink">>

PfStages ==
  LET wired == IF PfRole = "external" THEN EnStages
               ELSE BlockStages \o (IF PfBatching THEN BatchStages ELSE <<"NoopSink">>)
  IN SelectSeq(wired, LAMBDA s : s \in PfKeep)

PfBatcher == "Batcher"

\* default_condition_for.
LimitOf(s) ==
  CASE s \in {"BlockCanonizer", "BlockApplier", "RevmConsistencyChecker", "TreeManager",
              "ProverInputGenerator"} -> PfBlockLimit
    [] s \in {"BatchVerification", "FriJobManager", "SnarkJobManager", "GaplessCommitter",
              "UpgradeGatekeeper", "ReplayArchiveGate", "L1SenderCommit", "L1SenderProve",
              "L1SenderExecute", "GaplessL1ProofSender", "PriorityTree"} -> PfBatchLimit
    [] OTHER -> PfNoLimit

\* is_pipeline_stage.
PfExcluded ==
  {"ConsensusNodeCommandSource", "ExternalNodeCommandSource", "BatchSink", "NoopSink",
   "BatchVerificationResponder"}

Ix == 1 .. Len(PfStages)
Stage(i) == PfStages[i]
IsBatched(i) == \E j \in 1 .. i - 1 : PfStages[j] = PfBatcher

\* The settings are counts.  In every wiring the pipeline starts with a command
\* source, and the other stages the monitor leaves out come last.
ASSUME FlowAssumption ==
  /\ {PfBlockLimit, PfBatchLimit} \subseteq Nat /\ PfBatch \in Nat \ {0}
  /\ Len(PfStages) \in Nat
  /\ \A i \in Ix : Stage(i) \in PfExcluded => i = 1 \/ \A j \in i .. Len(PfStages) : Stage(j) \in PfExcluded
  /\ 1 \in Ix => Stage(1) \in PfExcluded

VARIABLES
  pfGate,      \* PipelineAdmissionGate
  pfMay,       \* the source saw the gate open and is about to send
  pfPicked,    \* stage -> last item dequeued
  pfSent,      \* stage -> last item sent downstream
  pfPending,   \* stages that sent an item and have not recorded it
  pfDone,      \* stage -> processed watermark [blocks, batches], Unset if none
  pfSnap,      \* tracker's snapshot of pfDone
  pfStalled,   \* stages that do no work
  pfStatus,    \* stage -> "running", "ended", "stopped", "deregistered" or "failed"
  pfSignal,    \* shutdown: "none", "sent", "over"
  pfInPoll,    \* stages in a poll begun before the signal
  pfNames      \* names in the deregistration channel

pfVars == <<pfGate, pfMay, pfPicked, pfSent, pfPending, pfDone, pfSnap, pfStalled, pfStatus,
            pfSignal, pfInPoll, pfNames>>

Watermark(i, item) ==
  IF IsBatched(i) \/ Stage(i) = PfBatcher
    THEN [blocks |-> item * PfBatch, batches |-> item]
    ELSE [blocks |-> item, batches |-> Unset]

NoMark == [blocks |-> Unset, batches |-> Unset]

FlowInit ==
  /\ pfGate = TRUE
  /\ pfMay = FALSE
  /\ pfPicked = [i \in Ix |-> 0]
  /\ pfSent = [i \in Ix |-> 0]
  /\ pfPending = {}
  /\ pfDone = [i \in Ix |-> NoMark]
  /\ pfSnap = pfDone
  /\ pfStalled = {}
  /\ pfStatus = [i \in Ix |-> "running"]
  /\ pfSignal = "none"
  /\ pfInPoll = {}
  /\ pfNames = 0

\* A segment is polled while it runs, and no more once the biased select has
\* seen the shutdown signal.
Polled(i) ==
  /\ pfStatus[i] = "running"
  /\ pfSignal = "none" \/ i \in pfInPoll
  /\ \A j \in Ix : pfStatus[j] # "failed" \/ pfSignal # "none"

Queue(i) == pfSent[i - 1] - pfPicked[i]

-----------------------------------------------------------------------------
(* Components.                                                             *)

\* A command source reads the gate, then sends; the send waits for room.
SourceLoop ==
  /\ Polled(1) /\ ~pfMay /\ 1 \notin pfStalled
  /\ pfGate
  /\ pfSent[1] < PfMaxBlock
  /\ pfMay' = TRUE
  /\ UNCHANGED <<pfGate, pfPicked, pfSent, pfPending, pfDone, pfSnap, pfStalled, pfStatus, pfSignal, pfInPoll, pfNames>>

SourceSend ==
  /\ Polled(1) /\ pfMay
  /\ IF pfStatus[2] = "running"
       THEN /\ Queue(2) < PfCapacity
            /\ pfSent' = [pfSent EXCEPT ![1] = @ + 1]
            /\ UNCHANGED pfStatus
       ELSE pfStatus' = [pfStatus EXCEPT ![1] = "ended"] /\ UNCHANGED pfSent
  /\ pfMay' = FALSE
  /\ UNCHANGED <<pfGate, pfPicked, pfPending, pfDone, pfSnap, pfStalled, pfSignal, pfInPoll, pfNames>>

\* What a stage has in hand and not yet sent, in items it received.
InHand(i) == pfPicked[i] - (IF Stage(i) = PfBatcher THEN pfSent[i] * PfBatch ELSE pfSent[i])

WantsItem(i) == IF Stage(i) = PfBatcher THEN InHand(i) < PfBatch ELSE InHand(i) = 0

\* record_picked: the first item picked also seeds processed, one below it.
\* The batcher's input has no batch number.
MutSeeded(i, done, item) ==
  done

Seeded(i, done, item) ==
  IF done # NoMark THEN done
  ELSE IF IsBatched(i) THEN Watermark(i, item - 1)
  ELSE [blocks |-> item - 1, batches |-> Unset]

\* recv_and_record_picked.
Pick(i) ==
  /\ Polled(i) /\ i \notin pfStalled /\ i \notin pfPending
  /\ i > 1 /\ Queue(i) > 0 /\ WantsItem(i)
  /\ pfPicked' = [pfPicked EXCEPT ![i] = @ + 1]
  /\ pfDone' = [pfDone EXCEPT ![i] = Seeded(i, @, pfPicked[i] + 1)]
  /\ UNCHANGED <<pfGate, pfMay, pfSent, pfPending, pfSnap, pfStalled, pfStatus, pfSignal, pfInPoll, pfNames>>

HasOutput(i) == InHand(i) = IF Stage(i) = PfBatcher THEN PfBatch ELSE 1

\* send_and_record: try_send fails when the channel is full or closed, and the
\* segment with it; the last stage only records.
TrySend(i) ==
  /\ Polled(i) /\ i \notin pfStalled /\ i \notin pfPending
  /\ i > 1 /\ HasOutput(i)
  /\ IF i = Len(PfStages) \/ (pfStatus[i + 1] = "running" /\ pfSent[i] - pfPicked[i + 1] < PfCapacity)
       THEN /\ pfSent' = [pfSent EXCEPT ![i] = @ + 1]
            /\ pfPending' = pfPending \cup {i}
            /\ UNCHANGED pfStatus
       ELSE /\ pfStatus' = [pfStatus EXCEPT ![i] = "failed"]
            /\ UNCHANGED <<pfSent, pfPending>>
  /\ UNCHANGED <<pfGate, pfMay, pfPicked, pfDone, pfSnap, pfStalled, pfSignal, pfInPoll, pfNames>>

\* record_processed after the send; a lower number is ignored.
RecordProcessed(i) ==
  /\ i \in pfPending /\ Polled(i)
  /\ pfPending' = pfPending \ {i}
  /\ pfDone' = [pfDone EXCEPT ![i] =
                  IF Watermark(i, pfSent[i]).blocks < @.blocks THEN @ ELSE Watermark(i, pfSent[i])]
  /\ UNCHANGED <<pfGate, pfMay, pfPicked, pfSent, pfSnap, pfStalled, pfStatus, pfSignal, pfInPoll, pfNames>>

\* The channel is closed and drained: the component returns.
EndOfInput(i) ==
  /\ Polled(i) /\ i > 1 /\ i \notin pfPending /\ ~HasOutput(i)
  /\ pfStatus[i - 1] # "running" /\ Queue(i) = 0
  /\ pfStatus' = [pfStatus EXCEPT ![i] = "ended"]
  /\ UNCHANGED <<pfGate, pfMay, pfPicked, pfSent, pfPending, pfDone, pfSnap, pfStalled, pfSignal, pfInPoll, pfNames>>

Stall(i) ==
  /\ pfSignal = "none"
  /\ Stage(i) \in PfCanStall /\ i \notin pfStalled
  /\ pfStalled' = pfStalled \cup {i}
  /\ UNCHANGED <<pfGate, pfMay, pfPicked, pfSent, pfPending, pfDone, pfSnap, pfStatus, pfSignal, pfInPoll, pfNames>>

-----------------------------------------------------------------------------
(* PipelineTracker and BackpressureMonitor.                                *)

Track ==
  /\ pfSignal = "none" /\ pfSnap # pfDone
  /\ pfSnap' = pfDone
  /\ UNCHANGED <<pfGate, pfMay, pfPicked, pfSent, pfPending, pfDone, pfStalled, pfStatus, pfSignal, pfInPoll, pfNames>>

\* The stage before i in the adjacency window, 0 if there is none.
Upstream(i) ==
  LET before == {j \in 1 .. i - 1 : Stage(j) \notin PfExcluded}
  IN IF before = {} THEN 0 ELSE CHOOSE j \in before : \A k \in before : k <= j

SaturatingSub(a, b) == IF a < b THEN 0 ELSE a - b

\* compute_adjacent_snapshots and evaluate: the lag of stage i over its limit.
Lags(snap, i) ==
  LET u == Upstream(i)
  IN /\ Stage(i) \notin PfExcluded /\ u # 0
     /\ snap[u] # NoMark /\ snap[i] # NoMark
     /\ IF IsBatched(i)
          THEN snap[u].batches # Unset /\ snap[i].batches # Unset
               /\ SaturatingSub(snap[u].batches, snap[i].batches) > LimitOf(Stage(i))
          ELSE SaturatingSub(snap[u].blocks, snap[i].blocks) > LimitOf(Stage(i))

Accepting(snap) == \A i \in Ix : ~Lags(snap, i)

\* evaluate_and_update.
Evaluate ==
  /\ pfSignal = "none" /\ pfGate # Accepting(pfSnap)
  /\ pfGate' = Accepting(pfSnap)
  /\ UNCHANGED <<pfMay, pfPicked, pfSent, pfPending, pfDone, pfSnap, pfStalled, pfStatus, pfSignal, pfInPoll, pfNames>>

-----------------------------------------------------------------------------
(* Shutdown: every segment and the supervisor get the signal.              *)

Interrupt ==
  /\ pfSignal = "none" /\ pfSent[1] <= PfSignalBy
  /\ \A i \in Ix : pfStatus[i] # "failed"
  /\ pfSignal' = "sent"
  /\ \E S \in SUBSET {i \in Ix : pfStatus[i] = "running"} :
       Cardinality(S) <= PfThreads /\ pfInPoll' = S
  /\ UNCHANGED <<pfGate, pfMay, pfPicked, pfSent, pfPending, pfDone, pfSnap, pfStalled, pfStatus, pfNames>>

StopSegment(i) ==
  /\ pfSignal = "sent"
  /\ pfStatus[i] = "running"
  /\ pfStatus' = [pfStatus EXCEPT ![i] = "stopped"]
  /\ pfInPoll' = pfInPoll \ {i}
  /\ UNCHANGED <<pfGate, pfMay, pfPicked, pfSent, pfPending, pfDone, pfSnap, pfStalled, pfSignal, pfNames>>

\* A segment that ended or was stopped sends its name.
MutSendName(i) ==
  /\ pfStatus[i] = "stopped"
  /\ pfNames < PfStopCap
  /\ pfNames' = pfNames + 1
  /\ pfStatus' = [pfStatus EXCEPT ![i] = "deregistered"]
  /\ UNCHANGED <<pfGate, pfMay, pfPicked, pfSent, pfPending, pfDone, pfSnap, pfStalled, pfSignal, pfInPoll>>

SendName(i) ==
  /\ pfStatus[i] \in {"ended", "stopped"}
  /\ pfNames < PfStopCap
  /\ pfNames' = pfNames + 1
  /\ pfStatus' = [pfStatus EXCEPT ![i] = "deregistered"]
  /\ UNCHANGED <<pfGate, pfMay, pfPicked, pfSent, pfPending, pfDone, pfSnap, pfStalled, pfSignal, pfInPoll>>

\* The supervisor reads names once it has the signal, until it has them all; the
\* names it read are those of deregistered stages that left the channel.
Supervise ==
  /\ pfSignal = "sent"
  /\ \/ /\ pfNames > 0
        /\ pfNames' = pfNames - 1
        /\ UNCHANGED pfSignal
     \/ /\ pfNames = 0
        /\ \A i \in Ix : pfStatus[i] = "deregistered"
        /\ pfSignal' = "over"
        /\ UNCHANGED pfNames
  /\ UNCHANGED <<pfGate, pfMay, pfPicked, pfSent, pfPending, pfDone, pfSnap, pfStalled, pfStatus, pfInPoll>>

-----------------------------------------------------------------------------
StageStep(i) == Pick(i) \/ TrySend(i) \/ RecordProcessed(i) \/ EndOfInput(i)

FlowNext ==
  \/ SourceLoop \/ SourceSend
  \/ \E i \in Ix : Pick(i) \/ TrySend(i) \/ RecordProcessed(i) \/ EndOfInput(i)
  \/ \E i \in Ix : Stall(i)
  \/ Track \/ Evaluate
  \/ Interrupt
  \/ \E i \in Ix : StopSegment(i) \/ SendName(i)
  \/ Supervise

\* Tasks that can run are run: the runtime's scheduler is fair, and nothing else
\* is assumed of the components than that they do not stall for ever.
FlowSpec ==
  /\ FlowInit /\ [][FlowNext]_pfVars
  /\ WF_pfVars(SourceSend)
  /\ \A i \in Ix : WF_pfVars(StageStep(i)) /\ WF_pfVars(StopSegment(i)) /\ WF_pfVars(SendName(i))
  /\ WF_pfVars(Track) /\ WF_pfVars(Evaluate) /\ WF_pfVars(Supervise)

-----------------------------------------------------------------------------
(* Properties.                                                             *)

\* The monitor has seen the latest watermarks and has acted on them.
MonitorCurrent == pfSnap = pfDone /\ pfGate = Accepting(pfSnap)

Backlogged(i) == i > 1 /\ Stage(i) \notin PfExcluded /\ Queue(i) > LimitOf(Stage(i)) + 1

\* Once the monitor is up to date, a stage with a threshold that has begun to
\* work and has more queued than its threshold allows (one item may be sent and
\* not recorded) keeps the gate closed, whichever task stalls and however the
\* watermarks of its neighbours interleave.
BacklogClosesGate ==
  MonitorCurrent =>
    \A i \in Ix : Backlogged(i) /\ pfPicked[i] > 0 /\ Upstream(i) # 0 => ~pfGate

\* Backpressure is released: with no stage stalled, a closed gate opens again
\* once the stages have worked off their backlog (or the pipeline goes down).
GateReopens ==
  ~pfGate ~> pfGate \/ pfSignal # "none" \/ pfStalled # {} \/ \E i \in Ix : pfStatus[i] = "failed"

\* A graceful shutdown ends: every segment leaves and gives its name and the
\* supervisor lets go, unless a segment inside its last poll fails on the channel
\* of one that has already left (its name never comes).
ShutdownCompletes ==
  (pfSignal = "sent") ~> (pfSignal = "over" \/ \E i \in Ix : pfStatus[i] = "failed")

\* "Genuine Batcher stalls are caught by the downstream batch-pipeline
\* components": a stalled batcher with a backlog closes the gate.
BatcherStallCaught ==
  MonitorCurrent =>
    \A i \in Ix : Stage(i) = PfBatcher /\ i \in pfStalled /\ Queue(i) > 3 => ~pfGate

-----------------------------------------------------------------------------
(* Proof that the monitor misses no backlog.                               *)

\* Items a stage has sent and recorded, and the items it has received for what it sent.
Recorded(i) == IF i \in pfPending THEN pfSent[i] - 1 ELSE pfSent[i]
Taken(i) == IF Stage(i) = PfBatcher THEN pfSent[i] * PfBatch ELSE pfSent[i]

\* The watermark of a stage that has begun to work.
Mark(i, item) ==
  IF item = 0 THEN [blocks |-> 0, batches |-> IF IsBatched(i) THEN 0 ELSE Unset] ELSE Watermark(i, item)

\* The inductive invariant: a stage has not received more than was sent to it, nor
\* sent more than it has received, and its watermark is that of its last record.
StageInv(i) ==
  /\ pfPicked[i] <= pfSent[i - 1]
  /\ Taken(i) <= pfPicked[i]
  /\ pfDone[i] = IF pfPicked[i] = 0 THEN NoMark ELSE Mark(i, Recorded(i))

FlowInv ==
  /\ pfPicked \in [Ix -> Nat] /\ pfSent \in [Ix -> Nat] /\ DOMAIN pfDone = Ix
  /\ \A i \in pfPending : i \in Ix /\ i > 1 /\ pfSent[i] > 0
  /\ \A i \in Ix : i > 1 => StageInv(i)

\* Blocks and batches.
LEMMA Blocks ==
  ASSUME NEW s \in Nat
  PROVE  /\ s * PfBatch \in Nat /\ s <= s * PfBatch
         /\ (s + 1) * PfBatch = s * PfBatch + PfBatch
         /\ s > 0 => s - 1 \in Nat /\ (s - 1) * PfBatch <= s * PfBatch
<1>1. PfBatch \in Nat \ {0}
  BY FlowAssumption
<1>2. QED
  BY <1>1

\* The watermark of a stage at work: one block or batch for each item it recorded.
LEMMA MarkFacts ==
  ASSUME NEW i \in Ix, NEW n \in Nat
  PROVE  /\ Mark(i, n) # NoMark
         /\ Stage(i) = PfBatcher => Mark(i, n).blocks = n * PfBatch
         /\ IsBatched(i) => Mark(i, n).batches = n
         /\ Stage(i) = PfBatcher /\ n > 0 => Mark(i, n).batches = n
         /\ ~IsBatched(i) /\ Stage(i) # PfBatcher => Mark(i, n).blocks = n
<1>1. n * PfBatch \in Nat /\ (n = 0 => n * PfBatch = 0)
  BY FlowAssumption
<1>2. QED
  BY <1>1 DEF Mark, Watermark, NoMark, Unset

\* A stage the monitor compares with another is compared with its neighbour.
LEMMA UpstreamIsNeighbour ==
  ASSUME NEW i \in Ix, Stage(i) \notin PfExcluded, Upstream(i) # 0
  PROVE  i > 2 /\ i - 1 \in Ix /\ Upstream(i) = i - 1
<1> DEFINE before == {j \in 1 .. i - 1 : Stage(j) \notin PfExcluded}
<1>1. Len(PfStages) \in Nat /\ i \in Nat /\ i >= 1 /\ i <= Len(PfStages)
  BY FlowAssumption DEF Ix
<1>2. PICK j \in before : TRUE
  BY DEF Upstream
<1>3. i > 2 /\ i - 1 \in Ix /\ 1 \in Ix
  <2>1. j # 1
    BY <1>1, <1>2, FlowAssumption DEF Ix
  <2>2. QED
    BY <1>1, <1>2, <2>1 DEF Ix
<1>4. Stage(i - 1) \notin PfExcluded
  <2>1. i \in i - 1 .. Len(PfStages) /\ i - 1 # 1
    BY <1>1, <1>3
  <2>2. QED
    BY <1>3, <2>1, FlowAssumption
<1>5. i - 1 \in before /\ \A k \in before : k <= i - 1
  BY <1>1, <1>3, <1>4 DEF Ix
<1>6. \A k \in before : (\A m \in before : m <= k) => k = i - 1
  BY <1>1, <1>5
<1>7. QED
  BY <1>3, <1>5, <1>6 DEF Upstream

LEMMA LimitIsNat == \A s : LimitOf(s) \in Nat
BY FlowAssumption DEF LimitOf, PfNoLimit

\* The invariant is enough: a backlog is a lag of the watermarks.
LEMMA BacklogLags ==
  ASSUME FlowInv,
         NEW i \in Ix, Backlogged(i), pfPicked[i] > 0, Upstream(i) # 0
  PROVE  Lags(pfDone, i)
<1> DEFINE u == i - 1
<1>1. Stage(i) \notin PfExcluded /\ pfSent[u] - pfPicked[i] > LimitOf(Stage(i)) + 1
  BY DEF Backlogged, Queue
<1>2. i > 2 /\ u \in Ix /\ Upstream(i) = u
  BY <1>1, UpstreamIsNeighbour
<1>3. i \in Nat /\ u > 1
  BY <1>2 DEF Ix
<1>4. /\ pfSent[u] \in Nat /\ pfPicked[u] \in Nat /\ pfSent[i] \in Nat /\ pfPicked[i] \in Nat
      /\ StageInv(u) /\ StageInv(i)
      /\ (i \in pfPending => pfSent[i] > 0)
  BY <1>2, <1>3 DEF FlowInv
<1>5. LimitOf(Stage(i)) \in Nat
  BY LimitIsNat
<1>6. /\ Recorded(u) \in Nat /\ Recorded(u) >= pfSent[u] - 1 /\ Recorded(u) > 0
      /\ Recorded(i) \in Nat /\ Recorded(i) <= pfSent[i]
  BY <1>1, <1>4, <1>5 DEF Recorded
<1>7. pfSent[u] <= Taken(u) /\ pfSent[i] <= Taken(i) /\ Taken(u) \in Nat /\ Taken(i) \in Nat
  BY <1>4, Blocks DEF Taken
<1>8. pfPicked[u] > 0 /\ Recorded(i) <= pfPicked[i]
  BY <1>4, <1>6, <1>7, <1>1, <1>5 DEF StageInv
<1>9. pfDone[u] = Mark(u, Recorded(u)) /\ pfDone[i] = Mark(i, Recorded(i))
  BY <1>4, <1>8 DEF StageInv
<1>10. Recorded(u) - Recorded(i) > LimitOf(Stage(i))
  BY <1>1, <1>4, <1>5, <1>6, <1>8
<1>11. pfDone[u] # NoMark /\ pfDone[i] # NoMark
  BY <1>2, <1>6, <1>9, MarkFacts
<1>12. IsBatched(i) <=> IsBatched(u) \/ Stage(u) = PfBatcher
  BY <1>3 DEF IsBatched, Stage
<1>13. CASE IsBatched(i)
  <2>1. pfDone[u].batches = Recorded(u) /\ pfDone[i].batches = Recorded(i)
    BY <1>2, <1>6, <1>9, <1>12, <1>13, MarkFacts
  <2>2. QED
    BY <1>1, <1>2, <1>3, <1>5, <1>6, <1>10, <1>11, <1>13, <2>1 DEF Lags, SaturatingSub, Unset
<1>14. CASE ~IsBatched(i)
  <2>1. pfDone[u].blocks = Recorded(u)
    BY <1>2, <1>6, <1>9, <1>12, <1>14, MarkFacts
  <2>2. pfDone[i].blocks \in Nat /\ pfDone[i].blocks <= pfPicked[i]
    <3>1. CASE Stage(i) = PfBatcher
      <4>1. pfDone[i].blocks = Recorded(i) * PfBatch
        BY <1>6, <1>9, <3>1, MarkFacts
      <4>2. Recorded(i) * PfBatch \in Nat /\ Recorded(i) * PfBatch <= pfSent[i] * PfBatch
        BY <1>4, Blocks DEF Recorded
      <4>3. pfSent[i] * PfBatch <= pfPicked[i]
        BY <1>4, <3>1 DEF StageInv, Taken
      <4>4. QED
        BY <1>4, <1>6, <4>1, <4>2, <4>3, Blocks
    <3>2. CASE Stage(i) # PfBatcher
      BY <1>4, <1>6, <1>8, <1>9, <1>14, <3>2, MarkFacts
    <3>3. QED
      BY <3>1, <3>2
  <2>3. QED
    BY <1>1, <1>2, <1>3, <1>4, <1>5, <1>6, <1>11, <1>14, <2>1, <2>2 DEF Lags, SaturatingSub
<1>15. QED
  BY <1>13, <1>14

\* What the other actions leave alone.
LEMMA FlowUnchanged ==
  ASSUME FlowInv, UNCHANGED <<pfPicked, pfSent, pfPending, pfDone>>
  PROVE  FlowInv'
BY DEF FlowInv, StageInv, Taken, Recorded

LEMMA SourceSendStep ==
  ASSUME FlowInv, SourceSend
  PROVE  FlowInv'
<1>1. CASE UNCHANGED pfSent
  BY <1>1, FlowUnchanged DEF SourceSend
<1>2. CASE pfSent' = [pfSent EXCEPT ![1] = @ + 1]
  <2>1. UNCHANGED <<pfPicked, pfPending, pfDone>>
    BY DEF SourceSend
  <2>2. pfSent' \in [Ix -> Nat] /\ \A i \in Ix : (i > 1 => pfSent'[i] = pfSent[i]) /\ pfSent'[i] >= pfSent[i]
    <3>1. pfSent \in [Ix -> Nat] /\ \A i \in Ix : pfSent[i] \in Nat
      BY DEF FlowInv
    <3>2. \A i \in Ix : i \in Int
      BY DEF Ix
    <3>3. \A i \in Ix : pfSent'[i] = IF i = 1 THEN pfSent[i] + 1 ELSE pfSent[i]
      BY <1>2, <3>1
    <3>4. pfSent' = [i \in Ix |-> pfSent'[i]]
      BY <1>2, <3>1
    <3>5. \A i \in Ix : pfSent'[i] \in Nat
      BY <3>1, <3>3
    <3>6. QED
      BY <3>1, <3>2, <3>3, <3>4, <3>5
  <2>3. ASSUME NEW i \in Ix, i > 1 PROVE StageInv(i)'
    <3>1. i - 1 \in Ix
      BY <2>3, FlowAssumption DEF Ix
    <3>2. pfSent[i - 1] \in Nat /\ pfSent'[i - 1] \in Nat /\ pfPicked[i] \in Nat /\ pfSent'[i - 1] >= pfSent[i - 1]
      BY <2>2, <3>1 DEF FlowInv
    <3>3. StageInv(i) /\ pfSent'[i] = pfSent[i]
      BY <2>2, <2>3 DEF FlowInv
    <3>4. QED
      BY <2>1, <3>2, <3>3 DEF StageInv, Taken, Recorded
  <2>4. \A i \in pfPending' : i \in Ix /\ i > 1 /\ pfSent'[i] > 0
    BY <2>1, <2>2 DEF FlowInv
  <2>5. QED
    BY <2>1, <2>2, <2>3, <2>4 DEF FlowInv
<1>3. QED
  BY <1>1, <1>2 DEF SourceSend

LEMMA PickStep ==
  ASSUME FlowInv, NEW i \in Ix, Pick(i)
  PROVE  FlowInv'
<1>1. UNCHANGED <<pfSent, pfPending>> /\ i \notin pfPending /\ i > 1 /\ pfSent[i - 1] - pfPicked[i] > 0
  BY DEF Pick, Queue
<1>2. /\ pfPicked' = [pfPicked EXCEPT ![i] = @ + 1]
      /\ pfDone' = [pfDone EXCEPT ![i] = Seeded(i, @, pfPicked[i] + 1)]
  BY DEF Pick
<1>3. /\ pfPicked' \in [Ix -> Nat] /\ DOMAIN pfDone' = Ix
      /\ pfPicked'[i] = pfPicked[i] + 1 /\ pfDone'[i] = Seeded(i, pfDone[i], pfPicked[i] + 1)
      /\ \A j \in Ix : j # i => pfPicked'[j] = pfPicked[j] /\ pfDone'[j] = pfDone[j]
  BY <1>2 DEF FlowInv
<1>4. i - 1 \in Ix /\ pfPicked[i] \in Nat /\ pfSent[i] \in Nat /\ pfSent[i - 1] \in Nat
  BY <1>1, FlowAssumption DEF FlowInv, Ix
<1>5. StageInv(i) /\ Recorded(i) = pfSent[i] /\ Recorded(i)' = pfSent[i]
  BY <1>1 DEF FlowInv, Recorded
<1>6. Taken(i) \in Nat /\ pfSent[i] <= Taken(i) /\ Taken(i)' = Taken(i)
  BY <1>1, <1>4, Blocks DEF Taken
<1>7. pfDone'[i] = Mark(i, pfSent[i])
  <2>1. CASE pfPicked[i] = 0
    <3>1. pfSent[i] = 0
      BY <1>4, <1>5, <1>6, <2>1 DEF StageInv
    <3>2. pfDone[i] = NoMark
      BY <1>5, <2>1 DEF StageInv
    <3>3. pfPicked[i] + 1 = 1 /\ 1 - 1 = 0 /\ 0 * PfBatch = 0
      BY <2>1, FlowAssumption
    <3>4. Watermark(i, 0) = [blocks |-> 0, batches |-> 0] \/ ~IsBatched(i)
      BY <3>3 DEF Watermark
    <3>5. Seeded(i, NoMark, 1) = Mark(i, 0)
      BY <3>3, <3>4 DEF Seeded, Mark
    <3>6. QED
      BY <1>3, <3>1, <3>2, <3>3, <3>5
  <2>2. CASE pfPicked[i] # 0
    <3>1. pfDone[i] = Mark(i, pfSent[i])
      BY <1>5, <2>2 DEF StageInv
    <3>2. pfDone[i] # NoMark
      BY <1>4, <3>1, MarkFacts
    <3>3. QED
      BY <1>3, <3>1, <3>2 DEF Seeded
  <2>3. QED
    BY <2>1, <2>2
<1>8. StageInv(i)'
  <2>1. pfPicked'[i] # 0 /\ pfPicked'[i] <= pfSent[i - 1] /\ Taken(i) <= pfPicked'[i]
    BY <1>1, <1>3, <1>4, <1>5, <1>6 DEF StageInv
  <2>2. QED
    BY <1>1, <1>5, <1>6, <1>7, <2>1 DEF StageInv
<1>9. ASSUME NEW j \in Ix, j > 1, j # i PROVE StageInv(j)'
  BY <1>1, <1>3, <1>9 DEF FlowInv, StageInv, Taken, Recorded
<1>10. QED
  BY <1>1, <1>3, <1>8, <1>9 DEF FlowInv

LEMMA TrySendStep ==
  ASSUME FlowInv, NEW i \in Ix, TrySend(i)
  PROVE  FlowInv'
<1>1. UNCHANGED <<pfPicked, pfDone>> /\ i \notin pfPending /\ i > 1 /\ HasOutput(i)
  BY DEF TrySend
<1>2. CASE UNCHANGED <<pfSent, pfPending>>
  BY <1>1, <1>2, FlowUnchanged
<1>3. CASE pfSent' = [pfSent EXCEPT ![i] = @ + 1] /\ pfPending' = pfPending \cup {i}
  <2>1. /\ pfSent' \in [Ix -> Nat] /\ pfSent'[i] = pfSent[i] + 1
        /\ \A j \in Ix : (j # i => pfSent'[j] = pfSent[j]) /\ pfSent'[j] >= pfSent[j]
    BY <1>3 DEF FlowInv
  <2>2. i - 1 \in Ix /\ i - 1 # i /\ pfPicked[i] \in Nat /\ pfSent[i] \in Nat
    BY <1>1, FlowAssumption DEF FlowInv, Ix
  <2>3. StageInv(i) /\ Recorded(i) = pfSent[i] /\ Recorded(i)' = pfSent[i]
    BY <1>1, <1>3, <2>1, <2>2 DEF FlowInv, Recorded
  <2>4. Taken(i)' <= pfPicked[i]
    <3>1. CASE Stage(i) = PfBatcher
      <4>1. pfPicked[i] - pfSent[i] * PfBatch = PfBatch
        BY <1>1, <3>1 DEF HasOutput, InHand
      <4>2. Taken(i)' = (pfSent[i] + 1) * PfBatch
        BY <2>1, <3>1 DEF Taken
      <4>3. QED
        BY <2>2, <4>1, <4>2, Blocks, FlowAssumption
    <3>2. CASE Stage(i) # PfBatcher
      BY <1>1, <2>1, <2>2, <3>2 DEF Taken, HasOutput, InHand
    <3>3. QED
      BY <3>1, <3>2
  <2>5. StageInv(i)'
    BY <1>1, <2>1, <2>2, <2>3, <2>4 DEF StageInv
  <2>6. ASSUME NEW j \in Ix, j > 1, j # i PROVE StageInv(j)'
    <3>1. StageInv(j) /\ Taken(j)' = Taken(j) /\ Recorded(j)' = Recorded(j)
      BY <1>3, <2>1, <2>6 DEF FlowInv, Taken, Recorded
    <3>2. j - 1 \in Ix
      BY <2>6, FlowAssumption DEF Ix
    <3>3. pfSent[j - 1] \in Nat /\ pfSent'[j - 1] \in Nat /\ pfPicked[j] \in Nat /\ pfSent'[j - 1] >= pfSent[j - 1]
      BY <2>1, <3>2 DEF FlowInv
    <3>4. QED
      BY <1>1, <3>1, <3>3 DEF StageInv
  <2>7. \A j \in pfPending' : j \in Ix /\ j > 1 /\ pfSent'[j] > 0
    BY <1>1, <1>3, <2>1, <2>2 DEF FlowInv
  <2>8. QED
    BY <1>1, <2>1, <2>5, <2>6, <2>7 DEF FlowInv
<1>4. QED
  BY <1>2, <1>3 DEF TrySend

LEMMA RecordProcessedStep ==
  ASSUME FlowInv, NEW i \in Ix, RecordProcessed(i)
  PROVE  FlowInv'
<1> DEFINE mark == Watermark(i, pfSent[i])
<1>1. UNCHANGED <<pfPicked, pfSent>> /\ i \in pfPending /\ pfPending' = pfPending \ {i}
  BY DEF RecordProcessed
<1>2. pfDone' = [pfDone EXCEPT ![i] = IF mark.blocks < @.blocks THEN @ ELSE mark]
  BY DEF RecordProcessed
<1>3. /\ DOMAIN pfDone' = Ix /\ pfDone'[i] = IF mark.blocks < pfDone[i].blocks THEN pfDone[i] ELSE mark
      /\ \A j \in Ix : j # i => pfDone'[j] = pfDone[j]
  BY <1>2 DEF FlowInv
<1>4. i > 1 /\ pfSent[i] \in Nat /\ pfSent[i] > 0 /\ pfPicked[i] \in Nat /\ pfSent[i] - 1 \in Nat
  BY <1>1 DEF FlowInv
<1>5. StageInv(i) /\ Recorded(i) = pfSent[i] - 1 /\ Recorded(i)' = pfSent[i]
  BY <1>1, <1>4 DEF FlowInv, Recorded
<1>6. Taken(i)' = Taken(i) /\ pfPicked[i] > 0
  BY <1>1, <1>4, <1>5, Blocks DEF Taken, StageInv
<1>7. pfDone[i] = Mark(i, pfSent[i] - 1) /\ mark = Mark(i, pfSent[i])
  BY <1>4, <1>5, <1>6 DEF StageInv, Mark
<1>8. ~(mark.blocks < pfDone[i].blocks)
  <2>1. /\ pfSent[i] * PfBatch \in Nat /\ (pfSent[i] - 1) * PfBatch \in Nat
        /\ (pfSent[i] - 1) * PfBatch <= pfSent[i] * PfBatch
    BY <1>4, Blocks
  <2>2. /\ mark.blocks \in {pfSent[i] * PfBatch, pfSent[i]}
        /\ IsBatched(i) \/ Stage(i) = PfBatcher => mark.blocks = pfSent[i] * PfBatch
        /\ ~(IsBatched(i) \/ Stage(i) = PfBatcher) => mark.blocks = pfSent[i]
    BY DEF Watermark
  <2>3. /\ IsBatched(i) \/ Stage(i) = PfBatcher => pfDone[i].blocks \in {(pfSent[i] - 1) * PfBatch, 0}
        /\ ~(IsBatched(i) \/ Stage(i) = PfBatcher) => pfDone[i].blocks = pfSent[i] - 1
    BY <1>4, <1>7 DEF Mark, Watermark
  <2>4. QED
    BY <1>4, <2>1, <2>2, <2>3
<1>9. StageInv(i)'
  BY <1>1, <1>3, <1>4, <1>5, <1>6, <1>7, <1>8 DEF StageInv
<1>10. ASSUME NEW j \in Ix, j > 1, j # i PROVE StageInv(j)'
  BY <1>1, <1>3, <1>10 DEF FlowInv, StageInv, Taken, Recorded
<1>11. QED
  BY <1>1, <1>3, <1>9, <1>10 DEF FlowInv

LEMMA FlowInvInductive ==
  /\ FlowInit => FlowInv
  /\ FlowInv /\ [FlowNext]_pfVars => FlowInv'
<1>1. ASSUME FlowInit PROVE FlowInv
  <2>1. ASSUME NEW i \in Ix, i > 1 PROVE StageInv(i)
    <3>1. i - 1 \in Ix /\ 0 * PfBatch = 0
      BY <2>1, FlowAssumption DEF Ix
    <3>2. QED
      BY <1>1, <3>1 DEF FlowInit, StageInv, Taken
  <2>2. QED
    BY <1>1, <2>1 DEF FlowInit, FlowInv
<1>2. ASSUME FlowInv, [FlowNext]_pfVars PROVE FlowInv'
  <2>1. CASE UNCHANGED <<pfPicked, pfSent, pfPending, pfDone>>
    BY <1>2, <2>1, FlowUnchanged
  <2>2. CASE SourceSend
    BY <1>2, <2>2, SourceSendStep
  <2>3. CASE \E i \in Ix : Pick(i) \/ TrySend(i) \/ RecordProcessed(i)
    BY <1>2, <2>3, PickStep, TrySendStep, RecordProcessedStep
  <2>4. QED
    BY <1>2, <2>1, <2>2, <2>3
       DEF FlowNext, SourceLoop, EndOfInput, Stall, Track, Evaluate, Interrupt, StopSegment, SendName, Supervise, pfVars
<1>3. QED
  BY <1>1, <1>2

\* BackpressureMonitor, for every wiring, limit, batch size and channel capacity:
\* a monitor that is up to date keeps the gate closed for as long as a stage at
\* work is more than its limit behind its neighbour.
THEOREM MonitorSeesBacklog == FlowSpec => []BacklogClosesGate
<1>1. FlowInv => BacklogClosesGate
  BY BacklogLags DEF BacklogClosesGate, MonitorCurrent, Accepting
<1>2. QED
  BY <1>1, FlowInvInductive, PTL DEF FlowSpec
=============================================================================
