------------------------------ MODULE L1Sender ------------------------------
(***************************************************************************)
(* The pipelined L1 sender (lib/l1_sender/src/pipelined.rs): a submitter   *)
(* that assigns nonces, an inclusion watcher that waits for the oldest     *)
(* transaction and has evicted ones resent, and a confirmation forwarder   *)
(* that hands confirmed commands downstream. The process may stop at any   *)
(* moment; a new session pairs what it finds in flight with its queue.     *)
(*                                                                         *)
(* A command is one transaction for one batch. The contents of batches     *)
(* that are not committed yet may differ from session to session: they are *)
(* sealed again after a restart.                                           *)
(***************************************************************************)
EXTENDS L1Account

CONSTANTS
    Windows,     \* values of command_limit that sessions are configured with
    ForceModes,  \* values of force_transaction_resubmission
    Lookups,     \* whether the endpoint offers eth_getTransactionBySenderAndNonce
    MaxCrashes   \* bound: times the process is killed

ASSUME WindowsAssumption == Windows \subseteq Nat \ {0}
ASSUME ForceModesAssumption == ForceModes \subseteq BOOLEAN
ASSUME LookupsAssumption == Lookups \subseteq BOOLEAN

VARIABLES
    crashes,
    \* fixed for a session
    window, force, build, snapshot_nonce, snapshot_batch,
    \* submitter
    phase,             \* what the submitter is doing
    next_batch,        \* batch of the next command of the inbound queue
    pending_nonce,     \* pending count that recovery has read
    seeds,             \* recovered transactions that are not tracked yet
    base_nonce,        \* nonce of the session's first command
    next_nonce,
    until_nonce, fee_floor,  \* ReplacementPlan; until_nonce = 0: none
    in_flight_prefix,
    wave, wave_fee,    \* commands of the wave left to send, and their fees
    \* inclusion watcher
    submitted,         \* channel of in-flight transactions, its head included
    watching,          \* progress of the watcher on the head
    mined_floor,
    \* confirmation forwarder
    mined_rx,          \* channel of mined transactions
    forwarded          \* batches sent downstream in this session

sessionVars == <<window, force, build, snapshot_nonce, snapshot_batch>>
planVars == <<pending_nonce, base_nonce, until_nonce, fee_floor>>
waveVars == <<wave, wave_fee>>
watcherVars == <<submitted, watching, mined_floor>>
forwarderVars == <<mined_rx, forwarded>>
nodeVars == <<sessionVars, phase, next_batch, planVars, seeds, next_nonce,
              in_flight_prefix, waveVars, watcherVars, forwarderVars>>
vars == <<l1Vars, crashes, nodeVars>>

-----------------------------------------------------------------------------

\* The command of this session for batch b.
Command(b) ==
    [batch |-> b, content |-> build[b],
     prev |-> IF b = 1 THEN Genesis ELSE build[b - 1]]

\* Unused permits of the in-flight window.
Slots == window - Len(submitted) - wave

FreshFee == IF force THEN Bump(0) ELSE 0

Init ==
    /\ L1Init
    /\ crashes = 0
    /\ phase = "down"
    /\ window = 0 /\ force = FALSE /\ build = <<>>
    /\ snapshot_nonce = 0 /\ snapshot_batch = 0
    /\ next_batch = 1 /\ pending_nonce = 0 /\ seeds = <<>> /\ base_nonce = 0
    /\ next_nonce = 0 /\ until_nonce = 0 /\ fee_floor = 0
    /\ in_flight_prefix = <<>> /\ wave = 0 /\ wave_fee = 0
    /\ submitted = <<>> /\ watching = "polling" /\ mined_floor = 0
    /\ mined_rx = <<>> /\ forwarded = <<>>

\* The process exits and is started again by its supervisor; nothing of the
\* sender is persisted.
Exit ==
    /\ phase' = "down"
    /\ window' = 0 /\ force' = FALSE /\ build' = <<>>
    /\ snapshot_nonce' = 0 /\ snapshot_batch' = 0
    /\ next_batch' = 1 /\ pending_nonce' = 0 /\ seeds' = <<>> /\ base_nonce' = 0
    /\ next_nonce' = 0 /\ until_nonce' = 0 /\ fee_floor' = 0
    /\ in_flight_prefix' = <<>> /\ wave' = 0 /\ wave_fee' = 0
    /\ submitted' = <<>> /\ watching' = "polling" /\ mined_floor' = 0
    /\ mined_rx' = <<>> /\ forwarded' = <<>>

Crash ==
    /\ phase # "down" /\ crashes < MaxCrashes
    /\ crashes' = crashes + 1
    /\ Exit
    /\ UNCHANGED l1Vars

\* Startup reads the committed batch and the nonce at one L1 block. Batches
\* above the committed one are sealed again.
Start ==
    /\ phase = "down"
    /\ phase' = "passthrough"
    /\ window' \in Windows
    /\ force' \in ForceModes
    /\ snapshot_nonce' = LatestNonce
    /\ snapshot_batch' = LastCommitted(mined)
    /\ \E c \in [Batches -> Contents] :
        build' = [b \in Batches |-> IF b <= LastCommitted(mined)
                                    THEN CommittedContent(mined, b) ELSE c[b]]
    /\ UNCHANGED <<l1Vars, crashes, next_batch, planVars, seeds, next_nonce,
                   in_flight_prefix, waveVars, watcherVars, forwarderVars>>

\* Batches that are committed already go downstream first, unsent.
ForwardPassthrough ==
    /\ phase = "passthrough" /\ next_batch <= snapshot_batch
    /\ forwarded' = Append(forwarded, Command(next_batch))
    /\ next_batch' = next_batch + 1
    /\ UNCHANGED <<l1Vars, crashes, sessionVars, phase, planVars, seeds,
                   next_nonce, in_flight_prefix, waveVars, watcherVars, mined_rx>>

-----------------------------------------------------------------------------
(* Recovery of what an earlier session left in flight.                     *)

\* Mutant: force resubmission starts behind the transactions in flight.
PlanRecoveryForcedBehind ==
    /\ phase = "passthrough" /\ snapshot_batch < next_batch
    /\ next_batch <= MaxBatch
    /\ pending_nonce' = PendingNonce
    /\ \E lookup \in Lookups :
        phase' = IF force \/ PendingNonce <= snapshot_nonce THEN "seed"
                 ELSE IF lookup THEN "pair" ELSE "settle"
    /\ base_nonce' = IF force THEN PendingNonce ELSE snapshot_nonce
    /\ next_nonce' = IF force THEN PendingNonce ELSE snapshot_nonce
    /\ mined_floor' = snapshot_nonce
    /\ UNCHANGED <<l1Vars, crashes, sessionVars, next_batch, until_nonce,
                   fee_floor, seeds, in_flight_prefix, waveVars, submitted,
                   watching, forwarderVars>>

\* Once a command is queued: force resubmission and an empty pool need no
\* recovery. (PendingNonce < snapshot_nonce only after a reorganisation.)
PlanRecovery ==
    /\ phase = "passthrough" /\ snapshot_batch < next_batch
    /\ next_batch <= MaxBatch
    /\ pending_nonce' = PendingNonce
    /\ \E lookup \in Lookups :
        phase' = IF force \/ PendingNonce <= snapshot_nonce THEN "seed"
                 ELSE IF lookup THEN "pair" ELSE "settle"
    /\ base_nonce' = snapshot_nonce
    /\ next_nonce' = snapshot_nonce
    /\ mined_floor' = snapshot_nonce
    /\ UNCHANGED <<l1Vars, crashes, sessionVars, next_batch, until_nonce,
                   fee_floor, seeds, in_flight_prefix, waveVars, submitted,
                   watching, forwarderVars>>

\* Without eth_getTransactionBySenderAndNonce: wait until nothing is pending.
Settle ==
    /\ phase = "settle" /\ PendingNonce <= LatestNonce
    /\ phase' = "seed"
    /\ base_nonce' = LatestNonce
    /\ next_nonce' = LatestNonce
    /\ mined_floor' = LatestNonce
    /\ UNCHANGED <<l1Vars, crashes, sessionVars, next_batch, pending_nonce,
                   until_nonce, fee_floor, seeds, in_flight_prefix, waveVars,
                   submitted, watching, forwarderVars>>

\* Mutant: pairs by batch number and ignores what the transaction carries.
MatchesBatchNumber ==
    /\ Landed(next_nonce) # NoTx
    /\ Landed(next_nonce).call.batch = next_batch

\* The transaction at the next pending nonce carries the next command.
Matches ==
    /\ Landed(next_nonce) # NoTx
    /\ Landed(next_nonce).call = Command(next_batch)

PairNext ==
    /\ phase = "pair" /\ next_nonce < pending_nonce
    /\ next_batch <= MaxBatch
    /\ Matches
    /\ seeds' = Append(seeds, [nonce |-> next_nonce, call |-> Command(next_batch),
                               tx |-> Landed(next_nonce)])
    /\ next_batch' = next_batch + 1
    /\ next_nonce' = next_nonce + 1
    /\ UNCHANGED <<l1Vars, crashes, sessionVars, phase, planVars,
                   in_flight_prefix, waveVars, watcherVars, forwarderVars>>

\* Fees of the transactions at the nonces from next_nonce that are visible.
StaleFees ==
    {Landed(n).fee : n \in {m \in next_nonce .. pending_nonce - 1 : Landed(m) # NoTx}}

\* Mutant: the replacements pay what the stale transactions pay.
StopPairingUnbumped ==
    /\ phase = "pair" /\ next_nonce < pending_nonce
    /\ next_batch <= MaxBatch
    /\ ~Matches
    /\ \/ /\ StaleFees = {}
          /\ UNCHANGED <<until_nonce, fee_floor>>
       \/ \E fee \in StaleFees :
            /\ \A other \in StaleFees : other <= fee
            /\ fee_floor' = fee
            /\ until_nonce' = pending_nonce
    /\ phase' = "seed"
    /\ UNCHANGED <<l1Vars, crashes, sessionVars, next_batch, pending_nonce,
                   base_nonce, seeds, next_nonce, in_flight_prefix, waveVars,
                   watcherVars, forwarderVars>>

\* The first transaction that is gone or carries something else ends the
\* pairing: it and the ones behind it will be replaced at a bumped fee.
StopPairing ==
    /\ phase = "pair" /\ next_nonce < pending_nonce
    /\ next_batch <= MaxBatch
    /\ ~Matches
    /\ \/ /\ StaleFees = {}
          /\ UNCHANGED <<until_nonce, fee_floor>>
       \/ \E fee \in StaleFees :
            /\ \A other \in StaleFees : other <= fee
            /\ fee_floor' = Bump(fee)
            /\ until_nonce' = pending_nonce
    /\ phase' = "seed"
    /\ UNCHANGED <<l1Vars, crashes, sessionVars, next_batch, pending_nonce,
                   base_nonce, seeds, next_nonce, in_flight_prefix, waveVars,
                   watcherVars, forwarderVars>>

PairingDone ==
    /\ phase = "pair" /\ next_nonce = pending_nonce
    /\ phase' = "seed"
    /\ UNCHANGED <<l1Vars, crashes, sessionVars, next_batch, planVars, seeds,
                   next_nonce, in_flight_prefix, waveVars, watcherVars,
                   forwarderVars>>

\* A recovered transaction takes a slot of the window and is tracked.
SeedRecovered ==
    /\ phase = "seed" /\ seeds # <<>> /\ Slots > 0
    /\ LET seed == Head(seeds) IN
        /\ in_flight_prefix' = Append(in_flight_prefix,
               [nonce |-> seed.nonce, call |-> seed.call, fee |-> seed.tx.fee])
        /\ submitted' = Append(submitted,
               [nonce |-> seed.nonce, call |-> seed.call, txs |-> {seed.tx}])
    /\ seeds' = Tail(seeds)
    /\ UNCHANGED <<l1Vars, crashes, sessionVars, phase, next_batch, planVars,
                   next_nonce, waveVars, watching, mined_floor, forwarderVars>>

SeedingDone ==
    /\ phase = "seed" /\ seeds = <<>>
    /\ phase' = "idle"
    /\ UNCHANGED <<l1Vars, crashes, sessionVars, next_batch, planVars, seeds,
                   next_nonce, in_flight_prefix, waveVars, watcherVars,
                   forwarderVars>>

-----------------------------------------------------------------------------
(* Submitter.                                                              *)

\* Mutant: keeps the entries of the prefix that were observed mined and
\* drops the others.
PrunedPrefixInverted == SelectSeq(in_flight_prefix, LAMBDA e : e.nonce <= mined_floor - 1)

\* Entries that the inclusion watcher has observed mined leave the prefix.
PrunedPrefix == SelectSeq(in_flight_prefix, LAMBDA e : e.nonce >= mined_floor)

\* The submitter holds permits and takes as many commands as are queued, at
\* most one for each permit. A pending resend request is served before.
StartWave ==
    /\ phase = "idle" /\ watching # "requested"
    /\ \E k \in 1 .. Slots :
        /\ next_batch + k - 1 <= MaxBatch
        /\ wave' = k
        /\ next_batch' = next_batch + k
    /\ in_flight_prefix' = PrunedPrefix
    /\ IF next_nonce < until_nonce
       THEN /\ wave_fee' = Larger(FreshFee, fee_floor)
            /\ UNCHANGED <<until_nonce, fee_floor>>
       ELSE /\ wave_fee' = FreshFee
            /\ until_nonce' = 0 /\ fee_floor' = 0
    /\ phase' = "wave"
    /\ UNCHANGED <<l1Vars, crashes, sessionVars, pending_nonce, base_nonce, seeds,
                   next_nonce, watcherVars, forwarderVars>>

\* A send that returns a transaction hash: tx was admitted, or the calldata
\* was found at its nonce and is adopted.
Sent(n, tx, hash) ==
    \/ Admits(n, tx) /\ Admit(n, tx) /\ hash = tx
    \/ AlreadyLanded(n, tx) /\ hash = Landed(n) /\ UNCHANGED pool

\* The next command of the wave.
WaveCall == Command(next_batch - wave)

SendCommand ==
    /\ phase = "wave" /\ next_nonce < MaxNonce
    /\ LET tx == [call |-> WaveCall, fee |-> wave_fee] IN
       \E hash \in {tx, Landed(next_nonce)} :
        /\ Sent(next_nonce, tx, hash)
        /\ submitted' = Append(submitted,
               [nonce |-> next_nonce, call |-> WaveCall, txs |-> {hash}])
    /\ next_nonce' = next_nonce + 1
    /\ in_flight_prefix' = Append(in_flight_prefix,
           [nonce |-> next_nonce, call |-> WaveCall, fee |-> wave_fee])
    /\ wave' = wave - 1
    /\ phase' = IF wave = 1 THEN "idle" ELSE "wave"
    /\ wave_fee' = IF wave = 1 THEN 0 ELSE wave_fee
    /\ UNCHANGED <<mined, confirmed, floating, evictions, reorgs, crashes,
                   sessionVars, next_batch, planVars, seeds, watching,
                   mined_floor, forwarderVars>>

\* A send that fails for good. Its outcome may be ambiguous: the endpoint may
\* have admitted the transaction.
FailSend(n, tx) ==
    /\ \/ ~Admits(n, tx) /\ ~AlreadyLanded(n, tx) /\ UNCHANGED <<pool, crashes>>
       \/ /\ Admits(n, tx) /\ crashes < MaxCrashes
          /\ crashes' = crashes + 1
          /\ Admit(n, tx) \/ UNCHANGED pool
    /\ Exit
    /\ UNCHANGED <<mined, confirmed, floating, evictions, reorgs>>

FailSendCommand ==
    /\ phase = "wave" /\ next_nonce < MaxNonce
    /\ FailSend(next_nonce, [call |-> WaveCall, fee |-> wave_fee])

\* The request of the inclusion watcher and its entry of the prefix.
RequestedNonce == submitted[1].nonce
PrefixEntries(n) == {i \in 1 .. Len(in_flight_prefix) : in_flight_prefix[i].nonce = n}
BumpedTx(e) == [call |-> e.call, fee |-> Larger(FreshFee, Bump(e.fee))]

\* Requests are served while the submitter waits for permits or commands.
ResendEvicted ==
    /\ phase = "idle" /\ watching = "requested"
    /\ \E i \in PrefixEntries(RequestedNonce) :
       LET tx == BumpedTx(in_flight_prefix[i]) IN
       \E hash \in {tx, Landed(RequestedNonce)} :
        /\ Sent(RequestedNonce, tx, hash)
        /\ in_flight_prefix' = [in_flight_prefix EXCEPT ![i].fee = tx.fee]
        /\ submitted' = [submitted EXCEPT ![1].txs = @ \cup {hash}]
    /\ watching' = "polling"
    /\ UNCHANGED <<mined, confirmed, floating, evictions, reorgs, crashes,
                   sessionVars, phase, next_batch, planVars, seeds, next_nonce,
                   waveVars, mined_floor, forwarderVars>>

FailResend ==
    /\ phase = "idle" /\ watching = "requested"
    /\ \/ \E i \in PrefixEntries(RequestedNonce) :
            FailSend(RequestedNonce, BumpedTx(in_flight_prefix[i]))
       \/ PrefixEntries(RequestedNonce) = {} /\ Exit /\ UNCHANGED <<l1Vars, crashes>>

-----------------------------------------------------------------------------
(* Inclusion watcher. It looks at the oldest transaction only.             *)

Tracking == submitted # <<>> /\ phase \in {"seed", "idle", "wave"}

\* The candidates of an entry that have a receipt.
ReceiptOf(entry) == {tx \in entry.txs : HasReceipt(entry.nonce, tx)}

\* First sighting: the slot of the window is free again.
ObserveMined ==
    /\ Tracking /\ watching = "polling"
    /\ \E tx \in ReceiptOf(submitted[1]) :
        mined_rx' = Append(mined_rx, [nonce |-> submitted[1].nonce,
                                      call |-> submitted[1].call, tx |-> tx])
    /\ mined_floor' = submitted[1].nonce + 1
    /\ submitted' = Tail(submitted)
    /\ UNCHANGED <<l1Vars, crashes, sessionVars, phase, next_batch, planVars,
                   seeds, next_nonce, in_flight_prefix, waveVars, watching,
                   forwarded>>

\* Two probes in a row found none of the candidates.
ProbeAbsent ==
    /\ Tracking /\ watching = "polling"
    /\ \A tx \in submitted[1].txs : ~Known(submitted[1].nonce, tx)
    /\ watching' = "absent"
    /\ UNCHANGED <<l1Vars, crashes, sessionVars, phase, next_batch, planVars,
                   seeds, next_nonce, in_flight_prefix, waveVars, submitted,
                   mined_floor, forwarderVars>>

\* Mutant: a resend is requested without a look at the account's nonce, and
\* the watcher does not wait for the answer.
HandleEvictedForget ==
    /\ Tracking /\ watching = "absent"
    /\ watching' = "polling"
    /\ UNCHANGED <<l1Vars, crashes, sessionVars, phase, next_batch, planVars,
                   seeds, next_nonce, in_flight_prefix, waveVars, submitted,
                   mined_floor, forwarderVars>>

HandleEvicted ==
    /\ Tracking /\ watching = "absent"
    /\ LatestNonce > submitted[1].nonce => ReceiptOf(submitted[1]) # {}
    /\ watching' = IF LatestNonce > submitted[1].nonce THEN "polling" ELSE "requested"
    /\ UNCHANGED <<l1Vars, crashes, sessionVars, phase, next_batch, planVars,
                   seeds, next_nonce, in_flight_prefix, waveVars, submitted,
                   mined_floor, forwarderVars>>

\* The nonce was consumed by a transaction that is none of the candidates.
FailConsumedNonce ==
    /\ Tracking /\ watching = "absent"
    /\ LatestNonce > submitted[1].nonce /\ ReceiptOf(submitted[1]) = {}
    /\ Exit
    /\ UNCHANGED <<l1Vars, crashes>>

-----------------------------------------------------------------------------
(* Confirmation forwarder.                                                 *)

\* wait_for_confirmed_receipt returns for the oldest mined transaction.
ConfirmedReceipt ==
    /\ mined_rx # <<>>
    /\ Head(mined_rx).nonce < confirmed
    /\ HasReceipt(Head(mined_rx).nonce, Head(mined_rx).tx)

ValidReceipt == mined[Head(mined_rx).nonce + 1].ok

\* Mutant: the confirmations of several commands are awaited at once.
ForwardConfirmedAny ==
    /\ \E i \in 1 .. Len(mined_rx) :
        /\ mined_rx[i].nonce < confirmed /\ HasReceipt(mined_rx[i].nonce, mined_rx[i].tx)
        /\ mined[mined_rx[i].nonce + 1].ok
        /\ forwarded' = Append(forwarded, mined_rx[i].call)
        /\ mined_rx' = SubSeq(mined_rx, 1, i - 1) \o SubSeq(mined_rx, i + 1, Len(mined_rx))
    /\ UNCHANGED <<l1Vars, crashes, sessionVars, phase, next_batch, planVars,
                   seeds, next_nonce, in_flight_prefix, waveVars, watcherVars>>

ForwardConfirmed ==
    /\ ConfirmedReceipt /\ ValidReceipt
    /\ forwarded' = Append(forwarded, Head(mined_rx).call)
    /\ mined_rx' = Tail(mined_rx)
    /\ UNCHANGED <<l1Vars, crashes, sessionVars, phase, next_batch, planVars,
                   seeds, next_nonce, in_flight_prefix, waveVars, watcherVars>>

FailReceipt ==
    /\ ConfirmedReceipt /\ ~ValidReceipt
    /\ Exit
    /\ UNCHANGED <<l1Vars, crashes>>

-----------------------------------------------------------------------------

Submitter ==
    \/ Start \/ ForwardPassthrough \/ PlanRecovery \/ Settle
    \/ PairNext \/ StopPairing \/ PairingDone \/ SeedRecovered \/ SeedingDone
    \/ StartWave \/ SendCommand \/ FailSendCommand \/ ResendEvicted \/ FailResend

Watcher == ObserveMined \/ ProbeAbsent \/ HandleEvicted \/ FailConsumedNonce

Forwarder == ForwardConfirmed \/ FailReceipt

Next ==
    \/ L1Next /\ UNCHANGED <<crashes, nodeVars>>
    \/ Crash
    \/ Submitter \/ Watcher \/ Forwarder

Spec == Init /\ [][Next]_vars

\* The three tasks run until the process exits; L1 includes and confirms
\* what is in its pool.
Fairness ==
    /\ WF_vars(Submitter) /\ WF_vars(Watcher) /\ WF_vars(Forwarder)
    /\ WF_vars(Mine /\ UNCHANGED <<crashes, nodeVars>>)
    /\ WF_vars(Confirm /\ UNCHANGED <<crashes, nodeVars>>)

FairSpec == Spec /\ Fairness

-----------------------------------------------------------------------------
(* Properties.                                                             *)

\* Every variable has its type.
TypeOK ==
    /\ L1TypeOK
    /\ crashes \in 0 .. MaxCrashes
    /\ phase \in {"down", "passthrough", "pair", "settle", "seed", "idle", "wave"}
    /\ window \in Windows \cup {0} /\ force \in BOOLEAN
    /\ phase # "down" => build \in [Batches -> Contents]
    /\ snapshot_nonce \in 0 .. MaxNonce /\ snapshot_batch \in 0 .. MaxBatch
    /\ next_batch \in 1 .. MaxBatch + 1
    /\ {pending_nonce, base_nonce, next_nonce, until_nonce, mined_floor} \subseteq 0 .. MaxNonce
    /\ {fee_floor, wave_fee} \subseteq 0 .. MaxFee
    /\ wave \in 0 .. MaxBatch /\ (wave > 0 <=> phase = "wave")
    /\ seeds \in Seq([nonce: Nonces, call: Call, tx: Tx])
    /\ submitted \in Seq([nonce: Nonces, call: Call, txs: SUBSET Tx \ {{}}])
    /\ in_flight_prefix \in Seq([nonce: Nonces, call: Call, fee: 0 .. MaxFee])
    /\ mined_rx \in Seq([nonce: Nonces, call: Call, tx: Tx])
    /\ watching \in {"polling", "absent", "requested"}
    /\ forwarded \in Seq(Call)

\* Commands go downstream in the order of their batches, without a gap and
\* each at most once, behind the passthrough batches ("strict FIFO = nonce
\* order = batch order").
ForwardedInOrder == \A i \in 1 .. Len(forwarded) : forwarded[i].batch = i

\* What the forwarder sends downstream is what the contract has stored: the
\* batch of this session, with its content, in a confirmed transaction that
\* did not revert. Leftovers of other sessions at the same nonce do not count.
ForwardedIsCommitted ==
    \A b \in snapshot_batch + 1 .. Len(forwarded) :
        /\ b <= LastCommitted(SubSeq(mined, 1, confirmed))
        /\ CommittedContent(mined, b) = forwarded[b].content

\* What the session sent and has not forwarded yet, oldest first.
Tracked ==
    LET Key(e) == <<e.nonce, e.call.batch>>
        Keys(s) == [i \in 1 .. Len(s) |-> Key(s[i])]
    IN Keys(mined_rx) \o Keys(submitted) \o Keys(seeds)

\* Number of commands the session has forwarded after the passthroughs.
Finished == IF Len(forwarded) > snapshot_batch THEN Len(forwarded) - snapshot_batch ELSE 0

\* The session's commands occupy consecutive nonces in batch order, from the
\* confirmed nonce that recovery was pinned to: nothing in flight is lost,
\* tracked twice, or duplicated behind a stale suffix. next_nonce is the
\* nonce behind the last of them.
NoncesFollowBatches ==
    phase \in {"pair", "seed", "idle", "wave"} =>
        /\ \A i \in 1 .. Len(Tracked) :
            Tracked[i] = <<base_nonce + Finished + i - 1, snapshot_batch + Finished + i>>
        /\ next_nonce = base_nonce + Finished + Len(Tracked)
        /\ next_batch - wave = snapshot_batch + Finished + Len(Tracked) + 1
        /\ force => base_nonce = snapshot_nonce

\* Whatever the inclusion watcher may have to resend, the submitter still has
\* the entry to build it from: pruning never outruns the watcher.
ResendPossible ==
    \A i \in 1 .. Len(submitted) :
        \E j \in PrefixEntries(submitted[i].nonce) :
            in_flight_prefix[j].call = submitted[i].call

\* A command that replaces a stale transaction of an earlier session always
\* outbids it, when the whole stale suffix was visible to recovery.
ReplacementsOutbid ==
    (phase = "wave" /\ ~force /\ evictions = 0 /\ reorgs = 0
     /\ LatestNonce <= next_nonce /\ next_nonce < MaxNonce /\ wave_fee < MaxFee) =>
        pool[next_nonce] = NoTx \/ pool[next_nonce].fee < wave_fee

\* Every batch gets downstream, whatever the crashes and evictions.
AllForwarded == <>[](Len(forwarded) = MaxBatch)

\* "A transaction evicted from the L1 pool is detected by the inclusion
\* watcher and resent at its nonce."
EvictedIsResent == watching = "requested" ~> watching # "requested"

=============================================================================
