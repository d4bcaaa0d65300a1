------------------------------ MODULE VmRunner ------------------------------
(***************************************************************************)
(* VmWrapper (lib/sequencer/src/execution/vm_wrapper.rs): run_block pulls  *)
(* transactions and pushes results on a blocking thread; the wrapper turns *)
(* it into a driver that is called once per transaction, over two channels *)
(* of one place each.  Either end may go away: run_block fails or panics,  *)
(* the block executor's task is dropped at any of its awaits.              *)
(***************************************************************************)
EXTENDS Integers, Sequences

CONSTANTS VmMaxTxs   \* transactions offered to a block

VARIABLES
    vmDriver,      \* the executor: at an await, or ended
    vmSent,        \* transactions sent so far
    vmResults,     \* what execute_next_tx returned, in order
    vmTxs,         \* the channel of requests
    vmAnswers,     \* the channel of results
    vmThread,      \* the thread: get, run, answer, ended by output, error or panic
    vmTx,          \* the transaction run_block works on
    vmBlock,       \* the block so far: transactions executed, keys read
    vmOutput       \* what seal_block returned

vmVars == <<vmDriver, vmSent, vmResults, vmTxs, vmAnswers, vmThread, vmTx, vmBlock, vmOutput>>

Ended == {"output", "error", "panic"}
DriverGone == vmDriver \in {"sealed", "failed", "dropped"}
NoOutput == [txs |-> << >>, reads |-> {}]

\* VmWrapper::new
VmInit ==
    /\ vmDriver = "idle" /\ vmSent = 0 /\ vmResults = << >>
    /\ vmTxs = << >> /\ vmAnswers = << >>
    /\ vmThread = "get" /\ vmTx = 0
    /\ vmBlock = NoOutput /\ vmOutput = NoOutput

-----------------------------------------------------------------------------
(* The driver. *)

\* execute_next_tx up to the send: an error when the receiver is gone.
SendTx ==
    /\ vmDriver = "idle" /\ vmSent < VmMaxTxs
    /\ IF vmThread \in Ended
       THEN vmDriver' = "failed" /\ UNCHANGED <<vmTxs, vmSent>>
       ELSE /\ vmTxs = << >>
            /\ vmTxs' = <<vmSent + 1>> /\ vmSent' = vmSent + 1
            /\ vmDriver' = "waiting"
    /\ UNCHANGED <<vmResults, vmAnswers, vmThread, vmTx, vmBlock, vmOutput>>

ReceiveResult ==
    /\ vmDriver = "waiting" /\ vmAnswers # << >>
    /\ vmResults' = Append(vmResults, Head(vmAnswers))
    /\ vmAnswers' = << >> /\ vmDriver' = "idle"
    /\ UNCHANGED <<vmSent, vmTxs, vmThread, vmTx, vmBlock, vmOutput>>

\* The results' sender is gone: whatever the thread ended with, the call fails.
ResultChannelClosed ==
    /\ vmDriver = "waiting" /\ vmAnswers = << >> /\ vmThread \in Ended
    /\ vmDriver' = "failed"
    /\ UNCHANGED <<vmSent, vmResults, vmTxs, vmAnswers, vmThread, vmTx, vmBlock, vmOutput>>

\* seal_block: the request, ignored when the receiver is gone, then the join.
SealBlock ==
    /\ vmDriver = "idle"
    /\ IF vmThread \in Ended THEN UNCHANGED vmTxs
       ELSE vmTxs = << >> /\ vmTxs' = <<0>>
    /\ vmDriver' = "joining"
    /\ UNCHANGED <<vmSent, vmResults, vmAnswers, vmThread, vmTx, vmBlock, vmOutput>>

Join ==
    /\ vmDriver = "joining" /\ vmThread \in Ended
    /\ IF vmThread = "output" THEN vmDriver' = "sealed" /\ vmOutput' = vmBlock
       ELSE vmDriver' = "failed" /\ UNCHANGED vmOutput
    /\ UNCHANGED <<vmSent, vmResults, vmTxs, vmAnswers, vmThread, vmTx, vmBlock>>

\* The task is dropped at an await: on shutdown, or with its stage.
DropDriver ==
    /\ ~DriverGone
    /\ vmDriver' = "dropped"
    /\ UNCHANGED <<vmSent, vmResults, vmTxs, vmAnswers, vmThread, vmTx, vmBlock, vmOutput>>

-----------------------------------------------------------------------------
(* The thread. *)

\* Mutant: the source waits for a request that nobody can send any more.
MutSourceClosed == FALSE

\* blocking_recv returns None: every sender is dropped and the channel is empty.
SourceClosed == DriverGone /\ vmTxs = << >>

\* ChannelTxSource::get_next_tx: a closed source seals the block.
GetNextTx ==
    /\ vmThread = "get"
    /\ \/ vmTxs # << >> /\ vmTx' = Head(vmTxs)
       \/ SourceClosed /\ vmTx' = 0
    /\ vmTxs' = << >>
    /\ vmThread' = IF vmTx' = 0 THEN "output" ELSE "run"
    /\ UNCHANGED <<vmDriver, vmSent, vmResults, vmAnswers, vmBlock, vmOutput>>

\* Mutant: a transaction found invalid stays in the block.
MutRunTx(valid) ==
    /\ vmThread = "run"
    /\ vmBlock' = [txs |-> Append(vmBlock.txs, vmTx), reads |-> vmBlock.reads \union {vmTx}]
    /\ vmThread' = IF valid THEN "answer" ELSE "answer_invalid"
    /\ UNCHANGED <<vmDriver, vmSent, vmResults, vmTxs, vmAnswers, vmTx, vmOutput>>

\* run_block executes the transaction or finds it invalid; ReadRecordingState
\* keeps the slots that either reads.
RunTx(valid) ==
    /\ vmThread = "run"
    /\ vmBlock' = [txs |-> IF valid THEN Append(vmBlock.txs, vmTx) ELSE vmBlock.txs,
                   reads |-> vmBlock.reads \union {vmTx}]
    /\ vmThread' = IF valid THEN "answer" ELSE "answer_invalid"
    /\ UNCHANGED <<vmDriver, vmSent, vmResults, vmTxs, vmAnswers, vmTx, vmOutput>>

RunFails(how) ==
    /\ vmThread \in {"get", "run"} /\ how \in {"error", "panic"}
    /\ vmThread' = how
    /\ UNCHANGED <<vmDriver, vmSent, vmResults, vmTxs, vmAnswers, vmTx, vmBlock, vmOutput>>

Answer == [tx |-> vmTx, valid |-> vmThread = "answer"]

\* tx_executed: blocks while the channel is full; an error is ignored.
TxExecuted ==
    /\ vmThread \in {"answer", "answer_invalid"}
    /\ vmAnswers = << >> \/ DriverGone
    /\ vmAnswers' = IF DriverGone THEN vmAnswers ELSE <<Answer>>
    /\ vmThread' = "get"
    /\ UNCHANGED <<vmDriver, vmSent, vmResults, vmTxs, vmTx, vmBlock, vmOutput>>

ThreadStep == GetNextTx \/ (\E valid \in BOOLEAN : RunTx(valid)) \/ TxExecuted
DriverStep == SendTx \/ ReceiveResult \/ ResultChannelClosed \/ SealBlock \/ Join

VmNext ==
    \/ ThreadStep \/ DriverStep \/ DropDriver
    \/ \E how \in {"error", "panic"} : RunFails(how)

VmSpec == VmInit /\ [][VmNext]_vmVars /\ WF_vmVars(ThreadStep) /\ WF_vmVars(DriverStep)

-----------------------------------------------------------------------------
(* Properties. *)

\* Every result the executor gets is the result of the transaction it has just
\* sent, and a sealed block holds exactly the transactions reported valid, with
\* the reads of all that were run (VmWrapper::execute_next_tx, seal_block).
ResultsMatchTxs ==
    /\ \A i \in DOMAIN vmResults : vmResults[i].tx = i
    /\ vmDriver = "sealed" =>
        /\ vmOutput.txs = SelectSeq([i \in 1..vmSent |-> i], LAMBDA i : vmResults[i].valid)
        /\ vmOutput.reads = 1..vmSent

\* Both ends come to rest: the executor gets an answer, an output or an error,
\* and the blocking thread ends even when the executor is dropped, so that the
\* runtime can be shut down.
RunnerEnds == <>(DriverGone /\ vmThread \in Ended)
=============================================================================
