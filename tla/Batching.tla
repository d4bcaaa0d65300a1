------------------------------ MODULE Batching ------------------------------
(* How the main node turns blocks into batches, has them signed by the       *)
(* verifiers and hands them to L1: the batcher, the batch verification step, *)
(* the block cache of the verifiers, the commit transactions a session       *)
(* leaves in the mempool and the UnexpectedCommit guard, across restarts.    *)
EXTENDS Naturals, Sequences, FiniteSets, Functions

CONSTANTS
    MaxBlock,        \* bound on the blocks of a behaviour
    Chains,          \* the chains considered: functions from 1..MaxBlock to block kinds
    WeightLimit,     \* the limit on what a batch may hold
    Verifiers,       \* the external nodes that sign batches
    Threshold,       \* signatures a batch needs
    PendingModes,    \* whether the pending state of L1 may show, or hide, what is in the mempool
    MaxFaults        \* bound on crashes, restarts of verifiers and requests that time out early

ASSUME BatchingAssumption ==
    /\ MaxBlock \in Nat \ {0}
    /\ WeightLimit \in Nat
    /\ Threshold \in Nat \ {0} /\ Threshold <= Cardinality(Verifiers)
    /\ PendingModes \subseteq BOOLEAN

VARIABLES
    chain,       \* what the blocks hold
    pendingVisible,  \* the pending state of L1 shows what is in the mempool
    height,      \* last block of the WAL
    l1,          \* batches committed on L1
    executed,    \* how many of them are executed
    pool,        \* commit transactions in the mempool, by nonce
    landed,      \* commit transactions mined since startup: nonces that are used up
    phase,       \* "down", "counted" (startup has counted the mempool), "up"
    inFlight,    \* commit transactions counted at startup
    start,       \* what startup has read from L1 and the WAL
    pos,         \* next block the batcher takes
    armed,       \* the deadline of the open batch is set
    sealed,      \* batches the batcher has emitted in this session
    verified,    \* how many of them are signed
    request,     \* the verification request that is open
    sent,        \* how many are with the commit sender
    submitted,   \* the commit_submitted watch
    watched,     \* commits the commit watcher has seen
    vpos, vlow,  \* the cache of verifier v holds the blocks vlow[v]..vpos[v]
    fin,         \* commits that verifier v knows of
    prior,       \* batches of the previous session (history variable)
    faults

mainVars == <<phase, inFlight, start, pos, armed, sealed, verified, request, sent, submitted, watched, prior>>
l1Vars == <<l1, executed, pool, landed>>
verifierVars == <<vpos, vlow, fin>>
vars == <<chain, pendingVisible, height, l1Vars, mainVars, verifierVars, faults>>

Batch == [num: 1..MaxBlock, prev: 0..MaxBlock, first: 1..MaxBlock, last: 1..MaxBlock]
NoRequest == [open |-> FALSE, asked |-> {}, signed |-> {}]

LastOf(batches) == IF batches = <<>> THEN 0 ELSE batches[Len(batches)].last
FirstOf(batches) == IF batches = <<>> THEN 0 ELSE batches[Len(batches)].first
\* Last block of batch n on L1.
CommittedBlock(n) == LastOf(SubSeq(l1, 1, n))

(***************************************************************************)
(* Seal criteria.  One weight stands for the transactions, native cycles,  *)
(* pubdata bytes, logs and interop roots, which are all sums with a limit. *)
(***************************************************************************)
Weight(blocks, first, last) == FoldFunctionOnSet(+, 0, [b \in first..last |-> blocks[b].weight], first..last)

Overweight(first, last) == Weight(chain, first, last) > WeightLimit
HasUpgrade(first, last) == \E b \in first..last : chain[b].upgrade
MixesVersions(first, last) == \E a, b \in first..last : chain[a].version # chain[b].version
\* A chain id update after the first block of the batch.
MigratesLate(first, last) == \E b \in (first + 1)..last : chain[b].chainId

\* Mutant: a chain id update may be anywhere in a batch.
ShouldSealIgnoringMigration(first, last) ==
    \/ last > first /\ HasUpgrade(first, last)
    \/ MixesVersions(first, last)
    \/ Overweight(first, last)

ShouldSeal(first, last) ==
    \/ last > first /\ HasUpgrade(first, last)
    \/ MixesVersions(first, last)
    \/ Overweight(first, last)
    \/ MigratesLate(first, last)

(***************************************************************************)
(* L1 and the mempool (external).                                          *)
(***************************************************************************)
Accepted(tx) == tx.num = Len(l1) + 1 /\ tx.prev = FirstOf(l1) /\ tx.first = LastOf(l1) + 1

Number(i) == start.executed + i
Ours(tx) == phase = "up" /\ \E i \in 1..sent : sealed[i] = tx /\ Number(i) > start.committed

\* The process exits; its supervisor starts it again.
Exit ==
    /\ phase' = "down"
    /\ prior' = [base |-> start.executed, batches |-> sealed]
    /\ UNCHANGED <<inFlight, start, pos, armed, sealed, verified, request, sent, submitted, watched>>

\* The transaction with the lowest nonce is mined.  The sender gives up when one of its own reverts.
Land ==
    /\ pool # <<>>
    /\ pool' = Tail(pool)
    /\ landed' = landed + 1
    /\ LET tx == Head(pool)
       IN IF Accepted(tx)
          THEN l1' = Append(l1, tx) /\ UNCHANGED mainVars
          ELSE UNCHANGED l1 /\ IF Ours(tx) THEN Exit ELSE UNCHANGED mainVars
    /\ UNCHANGED <<chain, pendingVisible, height, executed, verifierVars, faults>>

\* The later stages prove and execute a batch that went through the commit stage of this session.
Execute ==
    /\ phase = "up"
    /\ executed < Len(l1) /\ executed < Number(sent)
    /\ executed' = executed + 1
    /\ UNCHANGED <<chain, pendingVisible, height, l1, pool, landed, mainVars, verifierVars, faults>>

(***************************************************************************)
(* Startup.                                                                *)
(***************************************************************************)
\* in_flight_commit_tx_count
CountInFlight ==
    /\ phase = "down"
    /\ phase' = "counted"
    /\ inFlight' = Len(pool)
    /\ UNCHANGED <<chain, pendingVisible, height, l1Vars, start, pos, armed, sealed, verified, request, sent, submitted, watched,
                   prior, verifierVars, faults>>

\* The pending state equals the latest one: nothing in the mempool would commit a batch.
PendingIsLatest == ~(pendingVisible /\ pool # <<>> /\ Accepted(Head(pool)))

\* Mutant: the guard starts at the committed batch.
GuardInitNoInFlight == Len(l1)
GuardInit == Len(l1) + inFlight

StartNode ==
    /\ phase = "counted"
    /\ PendingIsLatest
    /\ phase' = "up"
    /\ start' = [committed |-> Len(l1), executed |-> executed, persisted |-> height]
    /\ submitted' = GuardInit
    /\ watched' = Len(l1)
    /\ landed' = 0
    /\ pos' \in 1..(CommittedBlock(executed) + 1)
    /\ armed' = FALSE
    /\ sealed' = <<>>
    /\ verified' = 0
    /\ request' = NoRequest
    /\ sent' = 0
    /\ UNCHANGED <<chain, pendingVisible, height, l1, executed, pool, inFlight, prior, verifierVars, faults>>

Crash ==
    /\ phase = "up"
    /\ faults < MaxFaults
    /\ faults' = faults + 1
    /\ Exit
    /\ UNCHANGED <<chain, pendingVisible, height, l1Vars, verifierVars>>

(***************************************************************************)
(* The batcher.                                                            *)
(***************************************************************************)
\* The sequencer appends a block to the WAL.
Produce ==
    /\ phase = "up"
    /\ height < MaxBlock
    /\ height' = height + 1
    /\ UNCHANGED <<chain, pendingVisible, l1Vars, mainVars, verifierVars, faults>>

PrevLast == IF sealed = <<>> THEN CommittedBlock(start.executed) ELSE LastOf(sealed)
\* Mutant: every batch is built on the one startup has read.
PrevFirstOfStartup == FirstOf(SubSeq(l1, 1, start.executed))
PrevFirst == IF sealed = <<>> THEN FirstOf(SubSeq(l1, 1, start.executed)) ELSE FirstOf(sealed)
NextFirst == PrevLast + 1
NextNumber == Number(Len(sealed)) + 1

Seal(last) ==
    /\ sealed' = Append(sealed, [num |-> NextNumber, prev |-> PrevFirst, first |-> NextFirst, last |-> last])
    /\ armed' = FALSE

BatcherReady == phase = "up" /\ pos >= NextFirst
BatcherUnchanged ==
    UNCHANGED <<chain, pendingVisible, height, l1Vars, phase, inFlight, start, verified, request, sent, submitted, watched, prior,
                verifierVars, faults>>

\* Blocks of executed batches are passed over.
Skip ==
    /\ phase = "up"
    /\ sealed = <<>> /\ pos < NextFirst
    /\ pos <= height
    /\ pos' = pos + 1
    /\ UNCHANGED <<armed, sealed>>
    /\ BatcherUnchanged

Recreates == Number(Len(sealed)) < start.committed

\* recreate_existing_batch: the batch takes the range it has on L1.
Recreate ==
    /\ BatcherReady
    /\ Recreates
    /\ LET batch == l1[NextNumber]
       IN /\ batch.first = pos
          /\ batch.last <= height
          /\ Seal(batch.last)
          /\ pos' = batch.last + 1
    /\ BatcherUnchanged

\* Mutant: the deadline is armed while old blocks are replayed.
ArmsAlways(block) == TRUE
Arms(block) == block >= start.persisted

\* Mutant: a block that exceeds the limits by itself is not taken.
AddFittingBlock ==
    /\ BatcherReady
    /\ ~Recreates
    /\ pos <= height
    /\ ~ShouldSeal(NextFirst, pos)
    /\ pos' = pos + 1
    /\ armed' = (armed \/ Arms(pos)) /\ UNCHANGED sealed
    /\ BatcherUnchanged

\* create_batch takes a block; one that exceeds the limits by itself is a batch of its own.
AddBlock ==
    /\ BatcherReady
    /\ ~Recreates
    /\ pos <= height
    /\ pos = NextFirst \/ ~ShouldSeal(NextFirst, pos)
    /\ pos' = pos + 1
    /\ IF ShouldSeal(NextFirst, pos)
       THEN Seal(pos)
       ELSE armed' = (armed \/ Arms(pos)) /\ UNCHANGED sealed
    /\ BatcherUnchanged

\* The next block does not fit: the batch is sealed without it.
SealByLimit ==
    /\ BatcherReady
    /\ ~Recreates
    /\ pos <= height /\ pos > NextFirst
    /\ ShouldSeal(NextFirst, pos)
    /\ Seal(pos - 1)
    /\ UNCHANGED pos
    /\ BatcherUnchanged

SealByTimeout ==
    /\ BatcherReady
    /\ armed
    /\ Seal(pos - 1)
    /\ UNCHANGED pos
    /\ BatcherUnchanged

(***************************************************************************)
(* Batch verification, the side of the main node.                          *)
(***************************************************************************)
Current == sealed[verified + 1]
ToVerify == phase = "up" /\ verified < Len(sealed)

SignsFrom == start.committed
VerificationUnchanged ==
    UNCHANGED <<chain, pendingVisible, height, l1Vars, phase, inFlight, start, pos, armed, sealed, sent, submitted, watched, prior,
                verifierVars>>

\* Already committed batches need no signatures.
PassCommitted ==
    /\ ToVerify
    /\ Current.num <= SignsFrom
    /\ verified' = verified + 1
    /\ UNCHANGED <<request, faults>>
    /\ VerificationUnchanged

\* The request goes to the peers to which the last block was streamed; one that has it in its cache is among them.
Ask ==
    /\ ToVerify
    /\ Current.num > SignsFrom
    /\ ~request.open
    /\ \E asked \in SUBSET Verifiers :
          /\ {v \in Verifiers : vpos[v] >= Current.last} \subseteq asked
          /\ request' = [open |-> TRUE, asked |-> asked, signed |-> {}]
    /\ UNCHANGED <<verified, faults>>
    /\ VerificationUnchanged

\* A verifier signs when its cache holds every block of the batch, and refuses otherwise.
Answer(v) ==
    /\ phase = "up" /\ request.open
    /\ v \in request.asked
    /\ LET holds == \A b \in Current.first..Current.last : b \in vlow[v]..vpos[v]
           signed == IF holds THEN request.signed \cup {v} ELSE request.signed
       IN IF Cardinality(signed) >= Threshold
          THEN verified' = verified + 1 /\ request' = NoRequest
          ELSE /\ request' = [request EXCEPT !.asked = @ \ {v}, !.signed = signed]
               /\ UNCHANGED verified
    /\ UNCHANGED faults
    /\ VerificationUnchanged

\* NotEnoughSigners: every attempt starts from no signatures under a new request id, so late answers are ignored.
Retry ==
    /\ phase = "up" /\ request.open
    /\ request.asked # {} => faults < MaxFaults
    /\ faults' = IF request.asked = {} THEN faults ELSE faults + 1
    /\ request' = NoRequest
    /\ UNCHANGED verified
    /\ VerificationUnchanged

(***************************************************************************)
(* The commit sender (pipelined, with an endpoint that finds transactions  *)
(* by nonce; see L1Sender) and the commit watcher.                         *)
(***************************************************************************)
NoteSubmitted(num) == IF num > submitted THEN num ELSE submitted

\* The nonce of a batch, counted from the first one that was free at startup.
Nonce(batch) == batch.num - start.committed

\* A command is paired with the same transaction of an earlier session, replaces another one, or is sent anew.
Place(batch) ==
    LET slot == Nonce(batch) - landed
    IN IF slot <= Len(pool) THEN [pool EXCEPT ![slot] = batch] ELSE Append(pool, batch)

\* The nonce of the batch is used up: that is fine when the batch itself is what L1 has taken.
OnL1(batch) == batch.num <= Len(l1) /\ l1[batch.num] = batch

Submit ==
    /\ phase = "up"
    /\ sent < verified
    /\ LET batch == sealed[sent + 1]
           used == batch.num <= start.committed + landed
       IN /\ pool' = IF used THEN pool ELSE Place(batch)
          /\ IF used => OnL1(batch)
             THEN /\ sent' = sent + 1
                  /\ submitted' = NoteSubmitted(batch.num)
                  /\ UNCHANGED <<phase, inFlight, start, pos, armed, sealed, verified, request, watched, prior>>
             ELSE Exit
    /\ UNCHANGED <<chain, pendingVisible, height, l1, executed, landed, verifierVars, faults>>

\* should_restart_for_unexpected_commit
Unexpected(num) == num > submitted

ObserveCommit ==
    /\ phase = "up"
    /\ watched < Len(l1)
    /\ IF Unexpected(watched + 1)
       THEN Exit
       ELSE /\ watched' = watched + 1
            /\ UNCHANGED <<phase, inFlight, start, pos, armed, sealed, verified, request, sent, submitted, prior>>
    /\ UNCHANGED <<chain, pendingVisible, height, l1Vars, verifierVars, faults>>

(***************************************************************************)
(* The verifiers.                                                          *)
(***************************************************************************)
\* Mutant: the block behind the committed ones is evicted as well.
EvictOneMore(low, high, committedBlock) ==
    LET keep == committedBlock + 2
    IN IF keep <= low THEN low ELSE IF keep > high THEN high + 1 ELSE keep

\* remove_lower_then: the first block kept; high + 1 is an empty cache.
Evict(low, high, committedBlock) ==
    LET keep == committedBlock + 1
    IN IF keep <= low THEN low ELSE IF keep > high THEN high + 1 ELSE keep

\* BlockCache::insert of the next block, with what the verifier's watcher knows of L1 by then.
Insert(v) ==
    /\ vpos[v] < height
    /\ \E c \in fin[v]..Len(l1) :
          /\ fin' = [fin EXCEPT ![v] = c]
          /\ vpos' = [vpos EXCEPT ![v] = @ + 1]
          /\ vlow' = [vlow EXCEPT ![v] = Evict(@, vpos[v] + 1, CommittedBlock(c))]
    /\ UNCHANGED <<chain, pendingVisible, height, l1Vars, mainVars, faults>>

\* The cache is in memory: a restarted verifier replays from the first block that is not executed.
RestartVerifier(v) ==
    /\ faults < MaxFaults
    /\ faults' = faults + 1
    /\ fin' = [fin EXCEPT ![v] = Len(l1)]
    /\ vpos' = [vpos EXCEPT ![v] = CommittedBlock(executed)]
    /\ vlow' = [vlow EXCEPT ![v] = CommittedBlock(executed) + 1]
    /\ UNCHANGED <<chain, pendingVisible, height, l1Vars, mainVars>>

(***************************************************************************)
(* The specification.                                                      *)
(***************************************************************************)
Init ==
    /\ chain \in Chains
    /\ pendingVisible \in PendingModes
    /\ height = 0
    /\ l1 = <<>> /\ executed = 0 /\ pool = <<>> /\ landed = 0
    /\ phase = "down" /\ inFlight = 0
    /\ start = [committed |-> 0, executed |-> 0, persisted |-> 0]
    /\ pos = 1 /\ armed = FALSE /\ sealed = <<>> /\ verified = 0 /\ request = NoRequest
    /\ sent = 0 /\ submitted = 0 /\ watched = 0
    /\ vpos = [v \in Verifiers |-> 0] /\ vlow = [v \in Verifiers |-> 1] /\ fin = [v \in Verifiers |-> 0]
    /\ prior = [base |-> 0, batches |-> <<>>]
    /\ faults = 0

Next ==
    \/ Land
    \/ Execute
    \/ CountInFlight
    \/ StartNode
    \/ Crash
    \/ Produce
    \/ Skip
    \/ Recreate
    \/ AddBlock
    \/ SealByLimit
    \/ SealByTimeout
    \/ PassCommitted
    \/ Ask
    \/ \E v \in Verifiers : Answer(v)
    \/ Retry
    \/ Submit
    \/ ObserveCommit
    \/ \E v \in Verifiers : Insert(v)
    \/ \E v \in Verifiers : RestartVerifier(v)

Spec == Init /\ [][Next]_vars

\* Every task of the node runs, the deadline of a batch passes, L1 mines, verifiers follow.
Fairness ==
    /\ WF_vars(Land)
    /\ WF_vars(CountInFlight)
    /\ WF_vars(StartNode)
    /\ WF_vars(Skip) /\ WF_vars(Recreate) /\ WF_vars(AddBlock) /\ WF_vars(SealByLimit) /\ WF_vars(SealByTimeout)
    /\ WF_vars(PassCommitted) /\ WF_vars(Ask) /\ WF_vars(Retry /\ request.asked = {})
    /\ \A v \in Verifiers : WF_vars(Answer(v)) /\ WF_vars(Insert(v))
    /\ WF_vars(Submit)
    /\ WF_vars(ObserveCommit)

FairSpec == Spec /\ Fairness

(***************************************************************************)
(* Properties.                                                             *)
(***************************************************************************)
\* The types of the variables.
TypeOK ==
    /\ chain \in Chains
    /\ pendingVisible \in PendingModes
    /\ height \in 0..MaxBlock
    /\ l1 \in Seq(Batch) /\ executed \in 0..Len(l1) /\ pool \in Seq(Batch) /\ landed \in Nat
    /\ phase \in {"down", "counted", "up"} /\ inFlight \in 0..MaxBlock
    /\ pos \in 1..(MaxBlock + 1) /\ armed \in BOOLEAN
    /\ sealed \in Seq(Batch) /\ verified \in 0..Len(sealed) /\ sent \in 0..verified
    /\ request.asked \subseteq Verifiers /\ request.signed \subseteq Verifiers
    /\ watched \in 0..Len(l1)
    /\ \A v \in Verifiers : vpos[v] \in 0..height /\ vlow[v] \in 1..(vpos[v] + 1) /\ fin[v] \in 0..Len(l1)

(* Every batch on L1 obeys the seal criteria: it stays within the limits     *)
(* unless it is a single block, never mixes versions, keeps an upgrade in a  *)
(* batch of its own and a chain id update in its first block.                *)
SealRules ==
    \A n \in 1..Len(l1) :
        LET first == l1[n].first
            last == l1[n].last
        IN /\ Overweight(first, last) => first = last
           /\ ~MixesVersions(first, last)
           /\ HasUpgrade(first, last) => first = last
           /\ ~MigratesLate(first, last)

(* A transaction of this session is accepted when its turn comes: it is      *)
(* built on what L1 holds by then.                                           *)
OwnCommitsAccepted ==
    pool # <<>> /\ Ours(Head(pool)) => Accepted(Head(pool))

(* The UnexpectedCommit guard never fires for the only main node: whatever   *)
(* lands was noted by this session or counted at its startup.                *)
GuardCoversCommits == phase = "up" => Len(l1) <= submitted

(* When startup has waited for the mempool to drain, the blocks of a batch   *)
(* that still has to be signed stay in the cache of every verifier that has  *)
(* received them: a commit a verifier learns of was signed before.           *)
NeededBlocksKept ==
    pendingVisible /\ phase = "up" =>
        \A v \in Verifiers, i \in (verified + 1)..Len(sealed) :
            Number(i) > start.committed /\ vpos[v] >= sealed[i].first => vlow[v] <= sealed[i].first

(* Blocks that were in the WAL at startup are never cut short by the         *)
(* deadline: a batch sealed again ends no earlier than in the session before, *)
(* when startup has waited for the mempool to drain.                         *)
ResealedNoShorter ==
    pendingVisible /\ phase = "up" =>
        \A i \in 1..Len(sealed), j \in 1..Len(prior.batches) :
            Number(i) = prior.base + j /\ Number(i) > start.committed => sealed[i].last >= prior.batches[j].last

\* What the drained mempool gives to a new session.
DrainedStartup == NeededBlocksKept /\ ResealedNoShorter

(* Every block of the WAL is committed on L1 in the end, when startup has    *)
(* waited for the mempool to drain.                                          *)
AllBlocksCommitted == pendingVisible /\ height = MaxBlock ~> LastOf(l1) = MaxBlock

(* "retrying until it succeeds": the verification step never stays with a    *)
(* batch for ever while the node runs.                                       *)
VerificationSucceeds ==
    \A n \in 0..(MaxBlock - 1) :
        phase = "up" /\ verified = n /\ n < Len(sealed) ~> verified # n \/ phase # "up"

-----------------------------------------------------------------------------
(* Chains of the instances that TLC checks. *)

Plain == [weight |-> 1, version |-> 1, upgrade |-> FALSE, chainId |-> FALSE]
Big == [Plain EXCEPT !.weight = 3]
Upgrade == [Plain EXCEPT !.version = 2, !.upgrade = TRUE]
Patched == [Plain EXCEPT !.version = 2]
Migration == [Plain EXCEPT !.chainId = TRUE]
\* A full batch and a rest, an upgrade in the middle, a change of the settlement layer before a block above the limit.
MCChains == {<<Plain, Plain, Plain>>, <<Plain, Upgrade, Patched>>, <<Plain, Migration, Big>>}
PlainChain == {<<Plain, Plain, Plain>>}
=============================================================================
