-------------------------- MODULE BatchCommitments --------------------------
(* What a batch commits to, and everybody who has to compute the same thing: *)
(* the batcher that builds the commit data, the verifiers that rebuild it    *)
(* from their own blocks and sign it, the calldata that carries it to L1, the *)
(* contract that stores its hash, the startup code that reads it back from   *)
(* calldata and events, the FRI verifier that derives a public input from it, *)
(* and the prove command that folds these inputs into one.  Protocol versions *)
(* 30, 31 and 32 encode, hash and fold differently.                          *)
(*                                                                           *)
(* A hash is the tuple of what is hashed, under the name of its layout.      *)
EXTENDS Naturals, Sequences, FiniteSets, SequencesExt

CONSTANTS
    BcChains,      \* the chains considered: sequences of block contents
    BcMode,        \* pubdata mode of the node: "calldata", "blobs" or "validium"
    BcVerifiers,   \* external nodes that answer verification requests
    BcAccepted,    \* the signers L1 accepts, a subset of the verifiers
    BcThreshold,   \* signatures a commit needs
    BcWindow,      \* block hashes a block context carries (256 in the code)
    BcMaxPerBatch, \* bound on the blocks of a batch
    BcMaxReverts,  \* bound on reverts of L1 followed by a rebuild
    BcMaxJobs,     \* bound on FRI jobs with provers at a time
    BcMaxRestarts  \* bound on restarts of the node and of the verifiers

VARIABLES
    bcPlan,      \* what the blocks of this behaviour hold
    bcChain,     \* the blocks of the main node
    bcBatches,   \* the batches sealed by this process, from batch 1
    bcCache,     \* the blocks a verifier holds
    bcL1,        \* the contract and the commit transactions it has accepted
    bcJobs,      \* FRI jobs that were handed to a prover, with what it will prove
    bcReverts, bcRestarts,
    bcFlaws      \* refusals that should not have happened (history variable)
bcVars == <<bcPlan, bcChain, bcBatches, bcCache, bcL1, bcJobs, bcReverts, bcRestarts, bcFlaws>>

Zero == <<"zero">>
ChainId == <<"chain id">>
SlChainId == <<"sl chain id">>
NoSl == <<"no sl chain id">>
ProvingVersion(ver) == ver - 24

(***************************************************************************)
(* Blocks.  plan[n] says what block n holds; fork counts the rebuilds.     *)
(***************************************************************************)
BlockHash(b) == <<"block", b.number, b.fork>>
\* The tree after the block: its root and its leaf count.
TreeOf(b) == <<"root", b.number, b.fork>>
Timestamp(b) == b.number + b.fork
TxsOf(blocks) == FoldLeft(LAMBDA acc, b : acc \o b.plan.txs, <<>>, blocks)
NextBlock(chain, plan, fork) ==
    [number |-> Len(chain) + 1, fork |-> fork, plan |-> plan,
     hashes |-> LET all == FoldLeft(LAMBDA acc, b : Append(acc, BlockHash(b)), [i \in 1..BcWindow |-> Zero], chain)
                IN  SubSeq(all, Len(all) - BcWindow + 1, Len(all))]

(***************************************************************************)
(* PendingBatchInfo::build.                                                *)
(***************************************************************************)
PriorityOperationsHash(txs) ==
    FoldLeft(LAMBDA h, tx : IF tx.kind = "l1" THEN <<"keccak", h, tx.id>> ELSE h, Zero, txs)
DependencyRootsHash(txs) ==
    FoldLeft(LAMBDA h, tx : IF tx.kind = "roots" THEN <<"keccak", h, tx.id>> ELSE h, Zero, txs)
Count(txs, kinds) == Len(SelectSeq(txs, LAMBDA tx : tx.kind \in kinds))
Upgrades(txs) == SelectSeq(txs, LAMBDA tx : tx.kind = "upgrade")
UpgradeTxHash(txs) == IF Upgrades(txs) = <<>> THEN Zero ELSE Upgrades(txs)[1].id

StateCommitment(b) ==
    <<"blake", TreeOf(b), b.number, Append(Tail(b.hashes), BlockHash(b)), Timestamp(b)>>
LogsRoot(blocks, ver) ==
    <<"keccak", FoldLeft(LAMBDA acc, b : acc \o b.plan.logs, <<>>, blocks),
      IF ver >= 31 THEN <<"multichain root", TreeOf(Last(blocks))>> ELSE Zero>>

Pubdata(blocks) == FoldLeft(LAMBDA acc, b : Append(acc, BlockHash(b)), <<>>, blocks)
Scheme(mode) == CASE mode = "blobs" -> 4 [] mode = "calldata" -> 3 [] mode = "validium" -> 1
DaFields(pubdata, mode) ==
    CASE mode = "calldata" -> [commitment |-> <<"keccak", pubdata>>, input |-> <<"header and pubdata", pubdata>>, sidecar |-> FALSE]
      [] mode = "validium" -> [commitment |-> Zero, input |-> <<"one word">>, sidecar |-> FALSE]
      [] mode = "blobs" -> [commitment |-> <<"versioned hashes", pubdata>>, input |-> <<"words", Len(pubdata)>>, sidecar |-> TRUE]

CommitDataOf(blocks, txs, number, mode, ver, sl, da) ==
    [batchNumber |-> number, newStateCommitment |-> StateCommitment(Last(blocks)),
     l1Txs |-> Count(txs, {"l1"}), l2Txs |-> Count(txs, {"l2", "system", "roots"}),
     priorityHash |-> PriorityOperationsHash(txs), dependencyHash |-> DependencyRootsHash(txs),
     logsRoot |-> LogsRoot(blocks, ver),
     scheme |-> Scheme(mode), daCommitment |-> da,
     firstTimestamp |-> Timestamp(blocks[1]), firstBlock |-> blocks[1].number,
     lastTimestamp |-> Timestamp(Last(blocks)), lastBlock |-> Last(blocks).number,
     chainId |-> ChainId, daInput |-> DaFields(Pubdata(blocks), mode).input, slChainId |-> sl]
CommitData(blocks, number, mode, ver, sl, da) == CommitDataOf(blocks, TxsOf(blocks), number, mode, ver, sl, da)

Build(blocks, number, mode, ver) ==
    [ok |-> Len(Upgrades(TxsOf(blocks))) <= 1, ver |-> ver, upgrade |-> UpgradeTxHash(TxsOf(blocks)),
     info |-> CommitData(blocks, number, mode, ver, SlChainId, DaFields(Pubdata(blocks), mode).commitment)]

\* The batch output hash: v30 leaves out the number of L2 transactions and the
\* settlement layer, v32 the chain id.
Common(c, upgrade) == <<c.priorityHash, c.logsRoot, upgrade, c.dependencyHash>>
V32BatchOutputHash(c, upgrade) ==
    <<"v32", c.firstTimestamp, c.lastTimestamp, c.scheme, c.daCommitment, c.l1Txs, c.l2Txs,
      Common(c, upgrade), c.slChainId>>
MutPublicInputHash(p) ==
    LET c == p.info IN
    IF p.ver = 32 THEN V32BatchOutputHash(c, p.upgrade)
    ELSE <<"v31", c.chainId, c.firstTimestamp, c.lastTimestamp, c.scheme, c.daCommitment, c.l1Txs, c.l2Txs,
           Common(c, p.upgrade), c.slChainId>>
PublicInputHash(p) ==
    LET c == p.info IN
    CASE p.ver = 30 -> <<"v30", c.chainId, c.firstTimestamp, c.lastTimestamp, c.scheme, c.daCommitment, c.l1Txs,
                         Common(c, p.upgrade)>>
      [] p.ver = 31 -> <<"v31", c.chainId, c.firstTimestamp, c.lastTimestamp, c.scheme, c.daCommitment, c.l1Txs,
                         c.l2Txs, Common(c, p.upgrade), c.slChainId>>
      [] p.ver = 32 -> V32BatchOutputHash(c, p.upgrade)

IntoStored(info, commitment) ==
    [batchNumber |-> info.batchNumber, stateCommitment |-> info.newStateCommitment, l1Txs |-> info.l1Txs,
     priorityHash |-> info.priorityHash, dependencyHash |-> info.dependencyHash, logsRoot |-> info.logsRoot,
     commitment |-> commitment]
Stored(p) == IntoStored(p.info, PublicInputHash(p))
GenesisStored ==
    [batchNumber |-> 0, stateCommitment |-> <<"genesis">>, l1Txs |-> 0, priorityHash |-> Zero,
     dependencyHash |-> Zero, logsRoot |-> Zero, commitment |-> Zero]
StoredHash(s) == <<"stored", s>>

(***************************************************************************)
(* The native run of a batch (v32).  The batch program re-executes the     *)
(* blocks; what it reports goes through the checks of build_batch_info.    *)
(***************************************************************************)
ChainConfigHash == <<"config", ChainId, "no fri verification", "default gas limit">>
BatchPublicInput(before, after, output) == <<"keccak", before, after, output>>
V32PublicInput(before, after, output) == <<"keccak", before, after, ChainConfigHash, output>>

\* What the batch program computes from the blocks and the state before them.
CanonicalCommitData(blocks, mode) ==
    CommitData(blocks, 0, mode, 32, blocks[1].plan.sl, DaFields(Pubdata(blocks), mode).commitment)
RunOutput(c, before, upgrade) ==
    [before |-> before, commit |-> c, upgrade |-> upgrade,
     input |-> V32PublicInput(before, c.newStateCommitment, V32BatchOutputHash(c, upgrade))]
NativeRun(blocks, before, mode) ==
    RunOutput(CanonicalCommitData(blocks, mode), before, UpgradeTxHash(TxsOf(blocks)))

BuildFromCanonicalOutput(run, blocks, number, mode) ==
    [ok |-> DaFields(Pubdata(blocks), mode).commitment = run.commit.daCommitment,
     ver |-> 32, upgrade |-> run.upgrade, info |-> [run.commit EXCEPT !.batchNumber = number]]
Checked(p, run) ==
    [p EXCEPT !.ok = /\ @
                     /\ run.commit.slChainId = SlChainId
                     /\ V32PublicInput(run.before, p.info.newStateCommitment, V32BatchOutputHash(p.info, p.upgrade)) = run.input]
BuildBatchInfo(run, blocks, number, mode) == Checked(BuildFromCanonicalOutput(run, blocks, number, mode), run)

\* The state commitment the tree and the record of the first block give.
StateBefore(chain, first) ==
    IF first.number = 1 THEN GenesisStored.stateCommitment ELSE StateCommitment(chain[first.number - 1])
SealBatch(chain, blocks, prev, number, mode) ==
    LET ver == blocks[1].plan.ver
        before == StateBefore(chain, blocks[1])
    IN  [(IF ver = 32 THEN BuildBatchInfo(NativeRun(blocks, before, mode), blocks, number, mode)
                      ELSE Build(blocks, number, mode, ver))
         EXCEPT !.ok = /\ @
                       /\ ver = 32 => before = prev.stateCommitment
                       /\ \A i \in 1..Len(blocks) : blocks[i].plan.ver = ver]

(***************************************************************************)
(* Encodings.  The V30 layout has neither the L2 transactions nor the      *)
(* settlement layer; reading it back puts zeros there.                     *)
(***************************************************************************)
EncodingVersion(ver) == IF ver = 30 THEN 3 ELSE 4
EncodeInfo(info, ver) ==
    [version |-> EncodingVersion(ver),
     info |-> IF ver = 30 THEN [info EXCEPT !.l2Txs = 0, !.slChainId = NoSl] ELSE info]
DecodeInfo(data) == IF data.version = 3 THEN [data.info EXCEPT !.l2Txs = 0, !.slChainId = NoSl] ELSE data.info
EncodeCommitBatchData(prev, info, ver) == <<StoredHash(prev), EncodeInfo(info, ver)>>
MutNormalizedCommitData(info, ver) == info
NormalizedCommitData(info, ver) ==
    IF ver <= 30 THEN [info EXCEPT !.l2Txs = 0, !.slChainId = NoSl] ELSE info

\* The digest the verifiers sign and the contract recovers the signers from.
MultisigDigest(prev, info, ver) ==
    <<"digest", ChainId, info.batchNumber, EncodeCommitBatchData(prev, info, ver), SlChainId>>

(***************************************************************************)
(* The contract on L1.                                                     *)
(***************************************************************************)
L1Commitment(c, ver, upgrade) ==
    CASE ver = 30 -> <<"v30", c.chainId, c.firstTimestamp, c.lastTimestamp, c.scheme, c.daCommitment, c.l1Txs,
                       <<c.priorityHash, c.logsRoot, upgrade, c.dependencyHash>> >>
      [] ver = 31 -> <<"v31", c.chainId, c.firstTimestamp, c.lastTimestamp, c.scheme, c.daCommitment, c.l1Txs, c.l2Txs,
                       <<c.priorityHash, c.logsRoot, upgrade, c.dependencyHash>>, c.slChainId>>
      [] ver = 32 -> <<"v32", c.firstTimestamp, c.lastTimestamp, c.scheme, c.daCommitment, c.l1Txs, c.l2Txs,
                       <<c.priorityHash, c.logsRoot, upgrade, c.dependencyHash>>, c.slChainId>>
L1Version == bcL1.ver
\* The upgrade transaction the next batch has to carry.
L1Upgrade == IF bcL1.upgradeBatch = 0 THEN bcL1.upgradeTx ELSE Zero
L1StoredHash(n) == IF n = 0 THEN StoredHash(GenesisStored) ELSE bcL1.stored[n]
L1Accepts(call) ==
    /\ call.data.version = EncodingVersion(L1Version)
    /\ call.data.info.batchNumber = Len(bcL1.stored) + 1
    /\ call.prevHash = L1StoredHash(Len(bcL1.stored))
    /\ Cardinality({i \in 1..Len(call.signers) :
                        /\ call.signers[i].signer \in BcAccepted
                        /\ \A j \in 1..i - 1 : call.signers[j].signer # call.signers[i].signer
                        /\ call.signers[i].digest =
                             <<"digest", ChainId, call.data.info.batchNumber, <<call.prevHash, call.data>>, SlChainId>>})
         >= BcThreshold
\* The public input the contract computes for a range of one version.
L1Element(prev, s, ver) ==
    IF ver = 32 THEN <<"keccak", prev.stateCommitment, s.stateCommitment, ChainConfigHash, s.commitment>>
    ELSE <<"keccak", prev.stateCommitment, s.stateCommitment, s.commitment>>
L1PublicInput(infos, ver) ==
    LET elements == [i \in 1..Len(infos) - 1 |-> L1Element(infos[i], infos[i + 1], ver)]
    IN  IF ver = 32
        THEN <<"shift", IF Len(elements) = 1 THEN elements[1] ELSE <<"keccak all", elements>> >>
        ELSE FoldLeft(LAMBDA acc, e : <<"shift", <<"keccak", acc, <<"shift", e>> >> >>, <<"shift", elements[1]>>, Tail(elements))

(***************************************************************************)
(* The prove command and the FRI verifier.                                 *)
(***************************************************************************)
PrevStored(batches, i) == IF i = 1 THEN GenesisStored ELSE Stored(batches[i - 1].pending)
MutSnarkPublicInput(prev, infos, ver) ==
    LET all == <<prev>> \o infos
        element(i) == IF ver >= 32
                      THEN V32PublicInput(all[i].stateCommitment, all[i + 1].stateCommitment, all[i + 1].commitment)
                      ELSE <<"shift", BatchPublicInput(all[i].stateCommitment, all[i + 1].stateCommitment, all[i + 1].commitment)>>
        elements == FoldLeft(LAMBDA acc, i : Append(acc, element(i)), <<>>, [i \in 1..Len(infos) |-> i])
    IN  IF ver >= 32
        THEN <<"shift", FoldLeft(LAMBDA acc, e : <<"keccak all", <<acc, e>> >>, elements[1], Tail(elements))>>
        ELSE FoldLeft(LAMBDA acc, e : <<"shift", <<"keccak", acc, e>> >>, elements[1], Tail(elements))
SnarkPublicInput(prev, infos, ver) ==
    LET all == <<prev>> \o infos
        element(i) == IF ver >= 32
                      THEN V32PublicInput(all[i].stateCommitment, all[i + 1].stateCommitment, all[i + 1].commitment)
                      ELSE <<"shift", BatchPublicInput(all[i].stateCommitment, all[i + 1].stateCommitment, all[i + 1].commitment)>>
        elements == FoldLeft(LAMBDA acc, i : Append(acc, element(i)), <<>>, [i \in 1..Len(infos) |-> i])
    IN  IF ver >= 32
        THEN <<"shift", IF Len(elements) = 1 THEN elements[1] ELSE <<"keccak all", elements>> >>
        ELSE FoldLeft(LAMBDA acc, e : <<"shift", <<"keccak", acc, e>> >>, elements[1], Tail(elements))

ExpectedPublicInput(batches, i) ==
    LET p == batches[i].pending
        before == PrevStored(batches, i).stateCommitment
    IN  IF ProvingVersion(p.ver) = 8
        THEN V32PublicInput(before, p.info.newStateCommitment, V32BatchOutputHash(p.info, p.upgrade))
        ELSE BatchPublicInput(before, Stored(p).stateCommitment, Stored(p).commitment)

\* What a proof of these blocks exposes: computed by the proven program.
ProgramInput(chain, blocks) ==
    LET c == CommitData(blocks, 0, BcMode, blocks[1].plan.ver, SlChainId, DaFields(Pubdata(blocks), BcMode).commitment)
        config == IF blocks[1].plan.ver = 32 THEN <<ChainConfigHash>> ELSE <<>>
    IN  <<"keccak", StateBefore(chain, blocks[1]), StateCommitment(Last(blocks))>> \o config
          \o <<L1Commitment(c, blocks[1].plan.ver, UpgradeTxHash(TxsOf(blocks)))>>

(***************************************************************************)
(* The batcher.                                                            *)
(***************************************************************************)
Batch(chain, from, to, number, prev) ==
    LET blocks == SubSeq(chain, from, to)
    IN  [pending |-> SealBatch(chain, blocks, prev, number, BcMode), blocks |-> blocks, signatures |-> <<>>, fri |-> <<>>]
LastSealed == IF bcBatches = <<>> THEN 0 ELSE Last(bcBatches).pending.info.lastBlock
Note(flaw, cond) == IF cond THEN bcFlaws \cup {flaw} ELSE bcFlaws

ProduceBlock ==
    /\ Len(bcChain) < Len(bcPlan)
    /\ bcChain' = Append(bcChain, NextBlock(bcChain, bcPlan[Len(bcChain) + 1], bcReverts))
    /\ UNCHANGED <<bcPlan, bcBatches, bcCache, bcL1, bcJobs, bcReverts, bcRestarts, bcFlaws>>

\* The seal criteria keep blocks of different versions apart.
CreateBatch(k) ==
    /\ LastSealed + k <= Len(bcChain)
    /\ \A i \in 2..k : bcChain[LastSealed + i].plan.ver = bcChain[LastSealed + 1].plan.ver
    /\ LET n == Len(bcBatches) + 1
       IN  bcBatches' = Append(bcBatches, Batch(bcChain, LastSealed + 1, LastSealed + k, n, PrevStored(bcBatches, n)))
    /\ bcFlaws' = Note("seal", ~Last(bcBatches').pending.ok)
    /\ UNCHANGED <<bcPlan, bcChain, bcCache, bcL1, bcJobs, bcReverts, bcRestarts>>

(***************************************************************************)
(* Batch verification.                                                     *)
(***************************************************************************)
\* The responder caches the blocks of its own node in order and drops those of
\* committed batches.
CommittedBlock ==
    IF bcL1.stored = <<>> THEN 0 ELSE bcL1.log[SelectLastInSeq(bcL1.log, LAMBDA e : e.number = Len(bcL1.stored))].last
CacheAdmits(cache, b) == IF cache = <<>> THEN TRUE ELSE b.number = Last(cache).number + 1
CacheBlock(v) ==
    /\ \E b \in ToSet(bcChain) :
         /\ CacheAdmits(bcCache[v], b)
         /\ bcCache' = [bcCache EXCEPT ![v] = SelectSeq(Append(@, b), LAMBDA c : c.number > CommittedBlock)]
    /\ UNCHANGED <<bcPlan, bcChain, bcBatches, bcL1, bcJobs, bcReverts, bcRestarts, bcFlaws>>

EncodeRequest(batch, prev) ==
    LET info == batch.pending.info
    IN  [number |-> info.batchNumber, first |-> info.firstBlock, last |-> info.lastBlock, mode |-> BcMode,
         data |-> DecodeInfo(EncodeInfo(info, batch.pending.ver)), prev |-> prev, ver |-> batch.pending.ver]

Refusal == [approved |-> FALSE, digest |-> <<"none">>, blocks |-> <<>>]
MutHandleRequest(cache, request) ==
    LET blocks == SelectSeq(cache, LAMBDA b : b.number \in request.first..request.last)
    IN  IF Len(blocks) < request.last - request.first + 1 THEN Refusal
        ELSE [approved |-> TRUE, digest |-> MultisigDigest(request.prev, request.data, blocks[1].plan.ver), blocks |-> blocks]
OwnBatch(blocks, request) ==
    IF blocks[1].plan.ver = 32
    THEN BuildBatchInfo(NativeRun(blocks, <<"own tree">>, request.mode), blocks, request.number, request.mode)
    ELSE Build(blocks, request.number, request.mode, blocks[1].plan.ver)
Verdict(own, blocks, request) ==
    IF ~own.ok \/ NormalizedCommitData(own.info, request.ver) # request.data THEN Refusal
    ELSE [approved |-> TRUE, digest |-> MultisigDigest(request.prev, own.info, own.ver), blocks |-> blocks]
Answer(blocks, request) ==
    IF Len(blocks) < request.last - request.first + 1 THEN Refusal
    ELSE Verdict(OwnBatch(blocks, request), blocks, request)
HandleRequest(cache, request) ==
    Answer(SelectSeq(cache, LAMBDA b : b.number \in request.first..request.last), request)

\* The signer recovered from a signature over another digest is a stranger.
Recovered(v, answer, batch, prev) ==
    IF answer.digest = MultisigDigest(prev, batch.pending.info, batch.pending.ver) THEN v ELSE "stranger"

\* The set holds one signature per signer, and only those of accepted ones.
PushSignature(v, i, batch, answer, signer) ==
    /\ \A s \in ToSet(batch.signatures) : s.signer # signer
    /\ bcBatches' = IF answer.approved /\ signer \in BcAccepted
                    THEN [bcBatches EXCEPT ![i].signatures =
                            Append(@, [signer |-> signer, digest |-> answer.digest, blocks |-> answer.blocks])]
                    ELSE bcBatches
    /\ bcFlaws' = Note("verify", /\ v \in BcAccepted
                                 /\ SelectSeq(bcCache[v], LAMBDA b : b.number \in batch.pending.info.firstBlock..batch.pending.info.lastBlock) = batch.blocks
                                 /\ ~(answer.approved /\ signer = v))
RecoverSigner(v, i, batch, prev, answer) == PushSignature(v, i, batch, answer, Recovered(v, answer, batch, prev))
SendRequest(v, i, batch, prev) == RecoverSigner(v, i, batch, prev, HandleRequest(bcCache[v], EncodeRequest(batch, prev)))
CollectSignature(v) ==
    LET i == Len(bcL1.stored) + 1
    IN  /\ i <= Len(bcBatches) /\ Len(bcBatches[i].signatures) < BcThreshold
        /\ SendRequest(v, i, bcBatches[i], PrevStored(bcBatches, i))
        /\ UNCHANGED <<bcPlan, bcChain, bcCache, bcL1, bcJobs, bcReverts, bcRestarts>>

(***************************************************************************)
(* Commit, upgrade and prove on L1.                                        *)
(***************************************************************************)
\* CommitCommand::try_new keeps the signatures L1 accepts.
CommitCall(batch, prev) ==
    [prevHash |-> StoredHash(prev), data |-> EncodeInfo(batch.pending.info, batch.pending.ver),
     signers |-> SelectSeq(batch.signatures, LAMBDA s : s.signer \in BcAccepted)]

\* The gatekeeper lets a commit pass once L1 runs the version of the batch.
GatekeeperPasses(batch) == L1Version = batch.pending.ver

CommitBatch ==
    LET i == Len(bcL1.stored) + 1
        batch == bcBatches[i]
        call == CommitCall(batch, PrevStored(bcBatches, i))
        commitment == L1Commitment(call.data.info, L1Version, L1Upgrade)
    IN  /\ i <= Len(bcBatches) /\ Len(batch.signatures) >= BcThreshold
        /\ GatekeeperPasses(batch)
        /\ bcFlaws' = Note("commit", ~L1Accepts(call))
        /\ bcL1' = IF L1Accepts(call)
                   THEN [bcL1 EXCEPT !.stored = Append(@, StoredHash(IntoStored(call.data.info, commitment))),
                                     !.log = Append(@, [number |-> i, first |-> call.data.info.firstBlock,
                                                        last |-> call.data.info.lastBlock,
                                                        commitment |-> commitment, data |-> call.data]),
                                     !.upgradeBatch = IF L1Upgrade # Zero THEN i ELSE @]
                   ELSE bcL1
        /\ UNCHANGED <<bcPlan, bcChain, bcBatches, bcCache, bcJobs, bcReverts, bcRestarts>>

\* The chain is upgraded on L1 once every block of the old version is committed.
UpgradeL1 ==
    /\ CommittedBlock < Len(bcPlan)
    /\ LET next == bcPlan[CommittedBlock + 1]
       IN  /\ next.ver > L1Version
           /\ bcL1' = [bcL1 EXCEPT !.ver = next.ver, !.upgradeTx = UpgradeTxHash(next.txs), !.upgradeBatch = 0]
    /\ UNCHANGED <<bcPlan, bcChain, bcBatches, bcCache, bcJobs, bcReverts, bcRestarts, bcFlaws>>

Uniform(batches) == \A i \in 1..Len(batches) : batches[i].pending.ver = batches[1].pending.ver
ProveBatches(j) ==
    LET i == bcL1.proved + 1
        range == SubSeq(bcBatches, i, j)
        infos == FoldLeft(LAMBDA acc, b : Append(acc, Stored(b.pending)), <<>>, range)
        prev == PrevStored(bcBatches, i)
    IN  /\ i <= j /\ j <= Len(bcL1.stored)
        /\ \A b \in ToSet(range) : b.fri # <<>>
        /\ bcFlaws' = Note("prove",
              \/ StoredHash(prev) # L1StoredHash(i - 1)
              \/ \E n \in i..j : StoredHash(infos[n - i + 1]) # L1StoredHash(n)
              \/ Uniform(range) /\ SnarkPublicInput(prev, infos, range[1].pending.ver)
                                     # L1PublicInput(<<prev>> \o infos, range[1].pending.ver))
        /\ bcL1' = [bcL1 EXCEPT !.proved = j]
        /\ UNCHANGED <<bcPlan, bcChain, bcBatches, bcCache, bcJobs, bcReverts, bcRestarts>>

(***************************************************************************)
(* FRI proofs.  A prover keeps its job while the node restarts or rebuilds. *)
(***************************************************************************)
PickFriJob(i) ==
    /\ i <= Len(bcBatches) /\ bcBatches[i].fri = <<>>
    /\ Cardinality(bcJobs) < BcMaxJobs
    /\ \A job \in bcJobs : job.number = i => job.blocks # bcBatches[i].blocks
    /\ bcJobs' = bcJobs \cup {[number |-> i, ver |-> bcBatches[i].pending.ver, blocks |-> bcBatches[i].blocks,
                               input |-> ProgramInput(bcChain, bcBatches[i].blocks)]}
    /\ UNCHANGED <<bcPlan, bcChain, bcBatches, bcCache, bcL1, bcReverts, bcRestarts, bcFlaws>>

Lane(ver) == IF ProvingVersion(ver) = 8 THEN "unrolled" ELSE "program"
VerifyFriProof(job, batches) ==
    /\ Lane(job.ver) = Lane(batches[job.number].pending.ver)
    /\ job.input = ExpectedPublicInput(batches, job.number)
SubmitFriProof(job) ==
    /\ job.number <= Len(bcBatches) /\ bcBatches[job.number].fri = <<>>
    /\ bcJobs' = bcJobs \ {job}
    /\ bcBatches' = IF VerifyFriProof(job, bcBatches) THEN [bcBatches EXCEPT ![job.number].fri = job.blocks] ELSE bcBatches
    /\ bcFlaws' = Note("fri", job.blocks = bcBatches[job.number].blocks /\ ~VerifyFriProof(job, bcBatches))
    /\ UNCHANGED <<bcPlan, bcChain, bcCache, bcL1, bcReverts, bcRestarts>>

(***************************************************************************)
(* Startup.  Committed batches are read back from L1 and recreated.        *)
(***************************************************************************)
\* The last event of every batch number wins.
SweptCommit(l1, n) == SelectLastInSeq(l1.log, LAMBDA e : e.number = n)
DecodeCommitCalldata(data) == [ok |-> data.version \in {3, 4}, info |-> DecodeInfo(data)]
Discovered(l1, n) ==
    LET event == l1.log[SweptCommit(l1, n)]
        decoded == DecodeCommitCalldata(event.data)
    IN  [ok |-> decoded.ok /\ decoded.info.batchNumber = n,
         info |-> IntoStored(decoded.info, event.commitment), first |-> event.first, last |-> event.last]
LiveHashMatches(l1, n) == Discovered(l1, n).ok /\ StoredHash(Discovered(l1, n).info) = l1.stored[n]
RecreateBatch(chain, found, n, prev) == Batch(chain, found.first, found.last, n, prev)
RecreateBatches(chain, l1) ==
    FoldLeft(LAMBDA acc, n : Append(acc, RecreateBatch(chain, Discovered(l1, n), n,
                                                       IF n = 1 THEN GenesisStored ELSE Discovered(l1, n - 1).info)),
             <<>>, [n \in 1..Len(l1.stored) |-> n])
StartFlaws(batches, l1) ==
    {f \in {"discover", "recreate"} :
        \E n \in 1..Len(l1.stored) :
           \/ f = "discover" /\ ~LiveHashMatches(l1, n)
           \/ f = "recreate" /\ \/ ~batches[n].pending.ok
                                \/ StoredHash(Stored(batches[n].pending)) # StoredHash(Discovered(l1, n).info)}

RestartNode ==
    /\ bcRestarts < BcMaxRestarts
    /\ bcRestarts' = bcRestarts + 1
    /\ bcBatches' = RecreateBatches(bcChain, bcL1)
    /\ bcFlaws' = bcFlaws \cup StartFlaws(bcBatches', bcL1)
    /\ UNCHANGED <<bcPlan, bcChain, bcCache, bcL1, bcJobs, bcReverts>>

RestartResponder(v) ==
    /\ bcRestarts < BcMaxRestarts /\ bcCache[v] # <<>>
    /\ bcRestarts' = bcRestarts + 1
    /\ bcCache' = [bcCache EXCEPT ![v] = <<>>]
    /\ UNCHANGED <<bcPlan, bcChain, bcBatches, bcL1, bcJobs, bcReverts, bcFlaws>>

\* L1 goes back to batch k and the node starts with a rebuild of what follows.
RevertAndRebuild(k) ==
    LET l1 == [bcL1 EXCEPT !.stored = SubSeq(@, 1, k), !.upgradeBatch = IF @ > k THEN 0 ELSE @]
        chain == SubSeq(bcChain, 1, IF k = 0 THEN 0 ELSE Discovered(bcL1, k).last)
    IN  /\ bcReverts < BcMaxReverts /\ bcL1.proved <= k /\ k < Len(bcL1.stored)
        /\ bcReverts' = bcReverts + 1
        /\ bcL1' = l1 /\ bcChain' = chain
        /\ bcBatches' = RecreateBatches(chain, l1)
        /\ bcFlaws' = bcFlaws \cup StartFlaws(bcBatches', l1)
        /\ UNCHANGED <<bcPlan, bcCache, bcJobs, bcRestarts>>

CommitmentsInit ==
    /\ bcPlan \in BcChains
    /\ bcChain = <<>> /\ bcBatches = <<>> /\ bcCache = [v \in BcVerifiers |-> <<>>]
    /\ bcL1 = [ver |-> bcPlan[1].ver, upgradeTx |-> Zero, upgradeBatch |-> 0, stored |-> <<>>, log |-> <<>>, proved |-> 0]
    /\ bcJobs = {} /\ bcReverts = 0 /\ bcRestarts = 0 /\ bcFlaws = {}
CommitmentsNext ==
    \/ ProduceBlock \/ CommitBatch \/ UpgradeL1 \/ RestartNode
    \/ \E k \in 1..BcMaxPerBatch : CreateBatch(k)
    \/ \E v \in BcVerifiers : CacheBlock(v) \/ CollectSignature(v) \/ RestartResponder(v)
    \/ \E i \in 1..Len(bcPlan) : PickFriJob(i) \/ ProveBatches(i) \/ RevertAndRebuild(i - 1)
    \/ \E job \in bcJobs : SubmitFriProof(job)

\* The node and L1 agree on every batch: what L1 stores for a committed batch is
\* the hash of what the node computes for it, and no commit is refused, no
\* startup fails to read a live batch back or to recreate it, and no range of
\* one version is proved with another public input than the contract's
\* (batch_info.rs, calldata.rs, prove.rs and committed_batch_provider.rs compute
\* these values independently, by version).
SettlementAgrees ==
    /\ bcFlaws \cap {"seal", "commit", "discover", "recreate", "prove"} = {}
    /\ \A n \in 1..Len(bcL1.stored) : bcL1.stored[n] = StoredHash(Stored(bcBatches[n].pending))

\* A signature or a FRI proof that the node accepts was made from the very
\* blocks of the batch, also when the verifier or the prover still has blocks
\* from before a rebuild; one made from these blocks is accepted
\* (verifier/mod.rs handle_verification_request, fri_proof_verifier.rs).
WitnessesBindBlocks ==
    /\ bcFlaws \cap {"verify", "fri"} = {}
    /\ \A i \in 1..Len(bcBatches) :
         /\ \A s \in ToSet(bcBatches[i].signatures) : s.blocks = bcBatches[i].blocks
         /\ bcBatches[i].fri # <<>> => bcBatches[i].fri = bcBatches[i].blocks
=============================================================================
