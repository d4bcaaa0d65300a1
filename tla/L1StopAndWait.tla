--------------------------- MODULE L1StopAndWait ----------------------------
(***************************************************************************)
(* The fallback L1 sender (pipelining_enabled = false): take up to         *)
(* command_limit commands, send them, wait for all their confirmations,    *)
(* forward them, repeat. A new session first pairs the transactions it     *)
(* finds in flight with its queue and waits for them.                      *)
(***************************************************************************)
EXTENDS L1Account

CONSTANTS
    Windows,       \* values of command_limit
    ForceModes,    \* values of force_transaction_resubmission
    MaxCrashes,    \* bound: times the process is killed
    MaxRpcErrors   \* bound: failed lookups during recovery

VARIABLES
    crashes, rpc_errors,
    \* fixed for a session
    command_limit, force, build, snapshot_nonce, snapshot_batch,
    \* the cycle
    phase,
    next_batch,     \* batch of the next command of the inbound queue
    pending_nonce,  \* pending count that recovery has read
    next_nonce,     \* nonce that is looked up or sent next
    wave,           \* commands of the cycle left to send
    pending_txs,    \* transactions waited for, oldest first
    completed,      \* commands of the cycle that are confirmed
    forwarded       \* commands sent downstream in this session

sessionVars == <<command_limit, force, build, snapshot_nonce, snapshot_batch>>
cycleVars == <<phase, next_batch, pending_nonce, next_nonce, wave, pending_txs,
               completed, forwarded>>
vars == <<l1Vars, crashes, rpc_errors, sessionVars, cycleVars>>

-----------------------------------------------------------------------------

\* The command of this session for batch b.
Command(b) ==
    [batch |-> b, content |-> build[b],
     prev |-> IF b = 1 THEN Genesis ELSE build[b - 1]]

FreshFee == IF force THEN Bump(0) ELSE 0

Init ==
    /\ L1Init
    /\ crashes = 0 /\ rpc_errors = 0
    /\ phase = "down"
    /\ command_limit = 0 /\ force = FALSE /\ build = <<>>
    /\ snapshot_nonce = 0 /\ snapshot_batch = 0
    /\ next_batch = 1 /\ pending_nonce = 0 /\ next_nonce = 0 /\ wave = 0
    /\ pending_txs = <<>> /\ completed = <<>> /\ forwarded = <<>>

\* The process exits; nothing of the sender is persisted.
Exit ==
    /\ phase' = "down"
    /\ command_limit' = 0 /\ force' = FALSE /\ build' = <<>>
    /\ snapshot_nonce' = 0 /\ snapshot_batch' = 0
    /\ next_batch' = 1 /\ pending_nonce' = 0 /\ next_nonce' = 0 /\ wave' = 0
    /\ pending_txs' = <<>> /\ completed' = <<>> /\ forwarded' = <<>>

Crash ==
    /\ phase # "down" /\ crashes < MaxCrashes
    /\ crashes' = crashes + 1
    /\ Exit
    /\ UNCHANGED <<l1Vars, rpc_errors>>

\* Startup reads the committed batch and the nonce at one L1 block. Batches
\* above the committed one are sealed again.
Start ==
    /\ phase = "down"
    /\ phase' = "passthrough"
    /\ command_limit' \in Windows
    /\ force' \in ForceModes
    /\ snapshot_nonce' = LatestNonce
    /\ snapshot_batch' = LastCommitted(mined)
    /\ \E c \in [Batches -> Contents] :
        build' = [b \in Batches |-> IF b <= LastCommitted(mined)
                                    THEN CommittedContent(mined, b) ELSE c[b]]
    /\ UNCHANGED <<l1Vars, crashes, rpc_errors, next_batch, pending_nonce,
                   next_nonce, wave, pending_txs, completed, forwarded>>

\* Batches that are committed already go downstream first, unsent.
ForwardPassthrough ==
    /\ phase = "passthrough" /\ next_batch <= snapshot_batch
    /\ forwarded' = Append(forwarded, Command(next_batch))
    /\ next_batch' = next_batch + 1
    /\ UNCHANGED <<l1Vars, crashes, rpc_errors, sessionVars, phase, pending_nonce,
                   next_nonce, wave, pending_txs, completed>>

-----------------------------------------------------------------------------
(* Recovery. While it pairs, pending_txs collects what it has paired.      *)

Recover ==
    /\ phase = "passthrough"
    /\ snapshot_batch < next_batch /\ next_batch <= MaxBatch
    /\ pending_nonce' = PendingNonce
    /\ next_nonce' = snapshot_nonce
    /\ phase' = IF force \/ PendingNonce <= snapshot_nonce THEN "idle" ELSE "pair"
    /\ UNCHANGED <<l1Vars, crashes, rpc_errors, sessionVars, next_batch, wave,
                   pending_txs, completed, forwarded>>

\* The transaction at the nonce carries the next command.
Matches ==
    /\ Landed(next_nonce) # NoTx
    /\ Landed(next_nonce).call = Command(next_batch)

PairNext ==
    /\ phase = "pair" /\ next_nonce < pending_nonce
    /\ next_batch <= MaxBatch
    /\ Matches
    /\ pending_txs' = Append(pending_txs,
           [nonce |-> next_nonce, call |-> Command(next_batch), tx |-> Landed(next_nonce)])
    /\ next_batch' = next_batch + 1
    /\ next_nonce' = next_nonce + 1
    /\ UNCHANGED <<l1Vars, crashes, rpc_errors, sessionVars, phase, pending_nonce,
                   wave, completed, forwarded>>

\* The first transaction that is gone or carries something else ends it.
RecoveryDone ==
    /\ phase = "pair"
    /\ next_nonce < pending_nonce => next_batch <= MaxBatch /\ ~Matches
    /\ phase' = IF pending_txs = <<>> THEN "idle" ELSE "waiting"
    /\ UNCHANGED <<l1Vars, crashes, rpc_errors, sessionVars, next_batch,
                   pending_nonce, next_nonce, wave, pending_txs, completed, forwarded>>

\* A lookup fails: recovery is given up with a warning, and what has been
\* paired so far is dropped with the error.
RecoveryError ==
    /\ phase = "pair" /\ next_nonce < pending_nonce
    /\ rpc_errors < MaxRpcErrors
    /\ rpc_errors' = rpc_errors + 1
    /\ pending_txs' = <<>>
    /\ phase' = "idle"
    /\ UNCHANGED <<l1Vars, crashes, sessionVars, next_batch, pending_nonce,
                   next_nonce, wave, completed, forwarded>>

-----------------------------------------------------------------------------
(* The cycle.                                                              *)

\* recv_many, and the one read of the pending count for the whole cycle.
StartCycle ==
    /\ phase = "idle"
    /\ \E k \in 1 .. command_limit :
        /\ next_batch + k - 1 <= MaxBatch
        /\ wave' = k
        /\ next_batch' = next_batch + k
    /\ next_nonce' = PendingNonce
    /\ phase' = "wave"
    /\ UNCHANGED <<l1Vars, crashes, rpc_errors, sessionVars, pending_nonce,
                   pending_txs, completed, forwarded>>

WaveTx == [call |-> Command(next_batch - wave), fee |-> FreshFee]

\* A send at nonce n returns a hash: admitted, or found there and adopted.
SendAt(n) ==
    /\ phase = "wave" /\ n < MaxNonce
    /\ \E hash \in {WaveTx, Landed(n)} :
        /\ \/ Admits(n, WaveTx) /\ Admit(n, WaveTx) /\ hash = WaveTx
           \/ AlreadyLanded(n, WaveTx) /\ UNCHANGED pool /\ hash = Landed(n)
        /\ pending_txs' = Append(pending_txs,
               [nonce |-> n, call |-> WaveTx.call, tx |-> hash])
    /\ next_nonce' = n + 1
    /\ wave' = wave - 1
    /\ phase' = IF wave = 1 THEN "waiting" ELSE "wave"
    /\ UNCHANGED <<mined, confirmed, floating, evictions, reorgs, crashes, rpc_errors,
                   sessionVars, next_batch, pending_nonce, completed, forwarded>>

SendCommand == SendAt(next_nonce)

\* A send that fails for good; an ambiguous one may have been admitted.
FailSend ==
    /\ phase = "wave" /\ next_nonce < MaxNonce
    /\ \/ /\ ~Admits(next_nonce, WaveTx) /\ ~AlreadyLanded(next_nonce, WaveTx)
          /\ UNCHANGED <<pool, crashes>>
       \/ /\ Admits(next_nonce, WaveTx) /\ crashes < MaxCrashes
          /\ crashes' = crashes + 1
          /\ Admit(next_nonce, WaveTx) \/ UNCHANGED pool
    /\ Exit
    /\ UNCHANGED <<mined, confirmed, floating, evictions, reorgs, rpc_errors>>

ConfirmedReceipt ==
    /\ phase = "waiting" /\ pending_txs # <<>>
    /\ Head(pending_txs).nonce < confirmed
    /\ HasReceipt(Head(pending_txs).nonce, Head(pending_txs).tx)

ValidReceipt == mined[Head(pending_txs).nonce + 1].ok

AwaitReceipt ==
    /\ ConfirmedReceipt /\ ValidReceipt
    /\ completed' = Append(completed, Head(pending_txs).call)
    /\ pending_txs' = Tail(pending_txs)
    /\ UNCHANGED <<l1Vars, crashes, rpc_errors, sessionVars, phase, next_batch,
                   pending_nonce, next_nonce, wave, forwarded>>

FailReceipt ==
    /\ ConfirmedReceipt /\ ~ValidReceipt
    /\ Exit
    /\ UNCHANGED <<l1Vars, crashes, rpc_errors>>

\* All of the cycle is confirmed: forward it in order.
ForwardCompleted ==
    /\ phase = "waiting" /\ pending_txs = <<>>
    /\ forwarded' = forwarded \o completed
    /\ completed' = <<>>
    /\ phase' = "idle"
    /\ UNCHANGED <<l1Vars, crashes, rpc_errors, sessionVars, next_batch,
                   pending_nonce, next_nonce, wave, pending_txs>>

Sender ==
    \/ Start \/ ForwardPassthrough \/ Recover \/ PairNext \/ RecoveryDone
    \/ RecoveryError \/ StartCycle \/ SendCommand \/ FailSend
    \/ AwaitReceipt \/ FailReceipt \/ ForwardCompleted

Next ==
    \/ L1Next /\ UNCHANGED <<crashes, rpc_errors, sessionVars, cycleVars>>
    \/ Crash
    \/ Sender

Spec == Init /\ [][Next]_vars

-----------------------------------------------------------------------------
(* Properties.                                                             *)

\* Every variable has its type.
TypeOK ==
    /\ L1TypeOK
    /\ crashes \in 0 .. MaxCrashes /\ rpc_errors \in 0 .. MaxRpcErrors
    /\ phase \in {"down", "passthrough", "pair", "idle", "wave", "waiting"}
    /\ command_limit \in Windows \cup {0} /\ force \in BOOLEAN
    /\ phase # "down" => build \in [Batches -> Contents]
    /\ snapshot_nonce \in 0 .. MaxNonce /\ snapshot_batch \in 0 .. MaxBatch
    /\ next_batch \in 1 .. MaxBatch + 1
    /\ {pending_nonce, next_nonce} \subseteq 0 .. MaxNonce
    /\ wave \in 0 .. MaxBatch /\ (wave > 0 <=> phase = "wave")
    /\ pending_txs \in Seq([nonce: Nonces, call: Call, tx: Tx])
    /\ completed \in Seq(Call)
    /\ forwarded \in Seq(Call)

\* What goes downstream is what the contract has stored, confirmed.
ForwardedIsCommitted ==
    \A i \in snapshot_batch + 1 .. Len(forwarded) :
        /\ forwarded[i].batch <= LastCommitted(SubSeq(mined, 1, confirmed))
        /\ CommittedContent(mined, forwarded[i].batch) = forwarded[i].content

=============================================================================
