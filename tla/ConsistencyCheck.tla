-------------------------- MODULE ConsistencyCheck --------------------------
(***************************************************************************)
(* The REVM consistency checker (lib/revm_consistency_checker), the        *)
(* internal config it leaves for the next start (lib/internal_config), and *)
(* the start that obeys it: every block is executed a second time, and one *)
(* whose state changes differ is emptied by a rebuild after a restart,     *)
(* with its signers refused from then on.                                  *)
(*                                                                         *)
(* A behaviour follows the node, or one comparison of state changes, or    *)
(* one search of a blob gas value.                                         *)
(***************************************************************************)
EXTENDS Integers, Sequences, FiniteSets, SequencesExt

CONSTANTS
  CkSigners,     \* L2 signers
  CkBad,         \* those whose transactions the second VM executes differently
  CkMaxBlock,
  CkMaxCrashes,  \* bound on kills of the process
  CkVersions,    \* execution versions of produced blocks
  CkSpec,        \* versions zk_spec_version knows
  CkMaxBlobFee   \* bound on the blob fee searched for

NoSigner == "-"

VARIABLES
  ckPart,      \* "node", "compare" or "blob"
  ckPhase,     \* "down", "up" or "stopping" (a critical task has panicked)
  ckWal,       \* canonical blocks [tx, version, build]
  ckBuild,     \* rebuilds so far: tells the hashes of rebuilt blocks apart
  ckPos,       \* last block the checker took
  ckPassed,    \* last block the stages after the checker made durable
  ckExecuted,  \* last block executed on the settlement layer
  ckFile,      \* internal_config.json: [failing, hash, black, torn]
  ckBlack,     \* the signer blacklist in force
  ckSink,      \* the config the sink read when it started
  ckRead,      \* the config the checker has read and is about to write
  ckGone,      \* the checker's task has ended
  ckPoisoned,  \* the file lock was held by a task that panicked
  ckCrashes,
  ckCase       \* a comparison or a search and its result

ckVars == <<ckPart, ckPhase, ckWal, ckBuild, ckPos, ckPassed, ckExecuted, ckFile, ckBlack, ckSink, ckRead, ckGone,
            ckPoisoned, ckCrashes, ckCase>>

nodeVars == <<ckPhase, ckWal, ckBuild, ckPos, ckPassed, ckExecuted, ckFile, ckBlack, ckSink, ckRead, ckGone,
              ckPoisoned, ckCrashes>>

NoConfig == [failing |-> 0, hash |-> NoSigner, build |-> 0, black |-> {}, torn |-> FALSE]
NoRead == [NoConfig EXCEPT !.torn = TRUE]
NoCase == [kind |-> "none", prev |-> 0, revm |-> 0, writes |-> <<>>, same |-> TRUE, empty |-> TRUE, fee |-> 0, excess |-> 0]

CheckerInit ==
  /\ ckPart \in {"node", "compare", "blob"}
  /\ ckPhase = "down"
  /\ ckWal = <<>> /\ ckBuild = 0
  /\ ckPos = 0 /\ ckPassed = 0 /\ ckExecuted = 0
  /\ ckFile = NoConfig
  /\ ckBlack = {} /\ ckSink = NoConfig /\ ckRead = NoRead
  /\ ckPoisoned = FALSE /\ ckGone = FALSE
  /\ ckCrashes = 0
  /\ ckCase = NoCase

-----------------------------------------------------------------------------
(* Start: load_internal_config and the rebuild it asks for.                *)

\* The rebuild runs only while the failing block still has the recorded hash; it
\* empties that block and executes the later ones again.
Rebuilt ==
  LET n == ckFile.failing
  IN IF /\ n \in 1 .. Len(ckWal)
        /\ ckWal[n].tx = ckFile.hash /\ ckWal[n].build = ckFile.build
       THEN [i \in 1 .. Len(ckWal) |->
               IF i < n THEN ckWal[i]
               ELSE [ckWal[i] EXCEPT !.build = ckBuild + 1, !.tx = IF i = n THEN NoSigner ELSE @]]
       ELSE ckWal

LoadInternalConfig ==
  ckBlack' = ckFile.black

\* The pipeline resumes behind what its later stages made durable.
MutResumeAt == Len(ckWal)

ResumeAt == ckPassed

\* A torn file cannot be parsed: the node does not start.
StartNode ==
  /\ ckPart = "node" /\ ckPhase = "down" /\ ~ckFile.torn
  /\ ckPhase' = "up"
  /\ LoadInternalConfig
  /\ ckWal' = Rebuilt
  /\ ckBuild' = IF Rebuilt # ckWal THEN ckBuild + 1 ELSE ckBuild
  /\ ckPos' = ResumeAt
  /\ ckSink' = ckFile
  /\ ckRead' = NoRead /\ ckPoisoned' = FALSE /\ ckGone' = FALSE
  /\ UNCHANGED <<ckPart, ckPassed, ckExecuted, ckFile, ckCrashes, ckCase>>

\* A produced block; the RPC refuses transactions of blacklisted signers.
Produce ==
  /\ ckPart = "node" /\ ckPhase = "up" /\ Len(ckWal) < CkMaxBlock
  /\ \E tx \in (CkSigners \ ckBlack) \cup {NoSigner}, v \in CkVersions :
       ckWal' = Append(ckWal, [tx |-> tx, version |-> v, build |-> ckBuild])
  /\ UNCHANGED <<ckPart, ckPhase, ckBuild, ckPos, ckPassed, ckExecuted, ckFile, ckBlack, ckSink, ckRead, ckGone,
                 ckPoisoned, ckCrashes, ckCase>>

-----------------------------------------------------------------------------
(* The checker.                                                            *)

Diverges(block) == block.tx \in CkBad

\* Only versions with a spec are executed again.
Supported(block) == block.version \in CkSpec

\* A block that agrees, or cannot be checked, goes on.
CheckPasses ==
  /\ ckPart = "node" /\ ckPhase # "down" /\ ckRead = NoRead /\ ~ckGone
  /\ ckPos < Len(ckWal)
  /\ ~(Supported(ckWal[ckPos + 1]) /\ Diverges(ckWal[ckPos + 1]))
  /\ ckPos' = ckPos + 1
  /\ UNCHANGED <<ckPart, ckPhase, ckWal, ckBuild, ckPassed, ckExecuted, ckFile, ckBlack, ckSink, ckRead, ckGone,
                 ckPoisoned, ckCrashes, ckCase>>

\* handle_report with revert_enabled: the config is read ...
CheckFails ==
  /\ ckPart = "node" /\ ckPhase # "down" /\ ckRead = NoRead /\ ~ckGone
  /\ ckPos < Len(ckWal)
  /\ Supported(ckWal[ckPos + 1]) /\ Diverges(ckWal[ckPos + 1])
  /\ ckRead' = ckFile
  /\ UNCHANGED <<ckPart, ckPhase, ckWal, ckBuild, ckPos, ckPassed, ckExecuted, ckFile, ckBlack, ckSink, ckGone,
                 ckPoisoned, ckCrashes, ckCase>>

MutFailing(config, n, block) ==
  [config EXCEPT !.failing = n, !.black = @ \cup ({block.tx} \ {NoSigner})]

Failing(config, n, block) ==
  [config EXCEPT !.failing = n, !.hash = block.tx, !.build = block.build, !.black = @ \cup ({block.tx} \ {NoSigner})]

\* write_config_and_panic: the lock stays poisoned after the panic, so that at
\* most one write of a run of the process succeeds.
MutWriteConfig(config) ==
  /\ ckFile' = config
  /\ ckPoisoned' = TRUE
  /\ ckPhase' = "stopping"

WriteConfig(config) ==
  /\ ckFile' = IF ckPoisoned THEN ckFile ELSE config
  /\ ckPoisoned' = TRUE
  /\ ckPhase' = "stopping"

\* ... and written with the failing block and its signers.
RecordFailing ==
  /\ ckPart = "node" /\ ckPhase # "down" /\ ckRead # NoRead
  /\ WriteConfig(Failing(ckRead, ckPos + 1, ckWal[ckPos + 1]))
  /\ ckRead' = NoRead
  /\ ckGone' = TRUE
  /\ UNCHANGED <<ckPart, ckWal, ckBuild, ckPos, ckPassed, ckExecuted, ckBlack, ckSink, ckCrashes, ckCase>>

\* The stages behind the checker, up to the tree and the batches.
PassOn ==
  /\ ckPart = "node" /\ ckPhase # "down"
  /\ ckPassed < ckPos
  /\ ckPassed' = ckPassed + 1
  /\ UNCHANGED <<ckPart, ckPhase, ckWal, ckBuild, ckPos, ckExecuted, ckFile, ckBlack, ckSink, ckRead, ckGone,
                 ckPoisoned, ckCrashes, ckCase>>

Execute ==
  /\ ckPart = "node" /\ ckPhase # "down"
  /\ ckExecuted < ckPassed
  /\ ckExecuted' = ckExecuted + 1
  /\ UNCHANGED <<ckPart, ckPhase, ckWal, ckBuild, ckPos, ckPassed, ckFile, ckBlack, ckSink, ckRead, ckGone,
                 ckPoisoned, ckCrashes, ckCase>>

\* BatchSink and clear_failing_block_config_task: once the failing block is
\* executed it is taken off the config read at the start.
ClearFailing ==
  /\ ckPart = "node" /\ ckPhase # "down"
  /\ ckSink.failing # 0 /\ ckExecuted >= ckSink.failing
  /\ WriteConfig([ckSink EXCEPT !.failing = 0, !.hash = NoSigner, !.build = 0])
  /\ ckSink' = [ckSink EXCEPT !.failing = 0]
  /\ UNCHANGED <<ckPart, ckWal, ckBuild, ckPos, ckPassed, ckExecuted, ckBlack, ckRead, ckGone, ckCrashes, ckCase>>

\* The panic of a critical task ends the process, sooner or later.
Halt ==
  /\ ckPart = "node" /\ ckPhase = "stopping"
  /\ ckPhase' = "down"
  /\ UNCHANGED <<ckPart, ckWal, ckBuild, ckPos, ckPassed, ckExecuted, ckFile, ckBlack, ckSink, ckRead, ckGone,
                 ckPoisoned, ckCrashes, ckCase>>

\* The process is killed, also after a write emptied the file and before its
\* content is there.
Kill ==
  /\ ckPart = "node" /\ ckPhase # "down" /\ ckCrashes < CkMaxCrashes
  /\ ckPhase' = "down"
  /\ ckCrashes' = ckCrashes + 1
  /\ \/ UNCHANGED ckFile
     \/ /\ ckRead # NoRead /\ ~ckPoisoned
        /\ ckFile' = [ckFile EXCEPT !.torn = TRUE]
  /\ UNCHANGED <<ckPart, ckWal, ckBuild, ckPos, ckPassed, ckExecuted, ckBlack, ckSink, ckRead, ckGone, ckPoisoned, ckCase>>

\* The operator gives the node an empty file again.
RepairFile ==
  /\ ckPart = "node" /\ ckFile.torn
  /\ ckFile' = NoConfig
  /\ UNCHANGED <<ckPart, ckPhase, ckWal, ckBuild, ckPos, ckPassed, ckExecuted, ckBlack, ckSink, ckRead, ckGone,
                 ckPoisoned, ckCrashes, ckCase>>

-----------------------------------------------------------------------------
(* CompareReport: one account, its slots "s" and, under the account         *)
(* properties address, "p", which is not compared.                         *)

Slots == {"s", "p"}
Values == 0 .. 1
Codes == {"zero", "empty", "keccak", "code"}
Accounts == [nonce : Values, balance : Values, code : {"zero", "code"}]

\* build_revm_storage_map.
RevmStorage(prev, cache) == {s \in Slots \ {"p"} : cache[s] # prev[s]}

\* build_zk_storage_map: the last write of a slot counts.
FinalValue(prev, writes, s) ==
  FoldLeft(LAMBDA v, w : IF w[1] = s THEN w[2] ELSE v, prev[s], writes)

MutZkStorage(prev, writes) ==
  {s \in Slots \ {"p"} : \E i \in 1 .. Len(writes) : writes[i][1] = s /\ writes[i][2] # prev[s]}

ZkStorage(prev, writes) ==
  {s \in Slots \ {"p"} : FinalValue(prev, writes, s) # prev[s]}

\* compare_storage.
StorageMismatches(prev, cache, writes) ==
  LET revm == RevmStorage(prev, cache)
      zk == ZkStorage(prev, writes)
  IN {s \in revm \cup zk : s \notin revm \cap zk \/ cache[s] # FinalValue(prev, writes, s)}

EmptyCode(c) == c \in {"zero", "empty", "keccak"}
CodeEquivalent(a, b) == a = b \/ (EmptyCode(a) /\ EmptyCode(b))

\* build_revm_accounts, build_zk_accounts and compare_accounts: an account in one
\* map only is a mismatch.  The VM lists the accounts it changed.
AccountMismatch(prev, revm, zk) ==
  LET changed == revm # prev
      listed == zk # prev
  IN \/ changed # listed
     \/ changed /\ (revm.nonce # zk.nonce \/ revm.balance # zk.balance \/ ~CodeEquivalent(revm.code, zk.code))

ReportEmpty(prev, cache, writes, acc) ==
  StorageMismatches(prev, cache, writes) = {} /\ ~AccountMismatch(acc[1], acc[2], acc[3])

Compare ==
  /\ ckPart = "compare" /\ ckCase = NoCase
  /\ \E prev, cache \in [Slots -> Values], writes \in BoundedSeq(Slots \X Values, 2), acc \in Accounts \X Accounts \X Accounts :
       /\ prev["p"] = 0 /\ acc[1].nonce = 0
       /\ ckCase' = [NoCase EXCEPT
            !.kind = "compare",
            !.writes = writes,
            !.same = (cache["s"] = FinalValue(prev, writes, "s") /\ acc[2] = acc[3]),
            !.empty = ReportEmpty(prev, cache, writes, acc)]
  /\ UNCHANGED <<ckPart, nodeVars>>

-----------------------------------------------------------------------------
(* The transaction the second VM is given: fees, mint and gas by kind.     *)

\* zk_tx_into_revm_tx.
RevmTx(kind, tx, blockGas) ==
  [price |-> IF kind \in {"system", "upgrade"} THEN 0 ELSE tx.price,
   mint |-> IF kind \in {"l1", "upgrade"} THEN tx.mint ELSE 0,
   gas |-> IF kind = "system" THEN blockGas ELSE tx.gas,
   used |-> tx.used,
   fail |-> ~tx.ok,
   value |-> IF kind = "system" THEN 0 ELSE tx.value]

\* The signer's balance after it in the second VM, and in the first.
RevmBalance(t) == t.mint - t.price * t.used - (IF t.fail THEN 0 ELSE t.value)
ZkBalance(kind, tx) ==
  LET fee == IF kind \in {"l2", "l1"} THEN tx.price * tx.used ELSE 0
      minted == IF kind \in {"l1", "upgrade"} THEN tx.mint ELSE 0
      sent == IF tx.ok /\ kind # "system" THEN tx.value ELSE 0
  IN minted - fee - sent

Replay ==
  /\ ckPart = "compare" /\ ckCase = NoCase
  /\ \E kind \in {"l2", "l1", "upgrade", "system"}, price, mint, value \in 0 .. 1, ok \in BOOLEAN :
       LET tx == [price |-> price, mint |-> mint, value |-> value, ok |-> ok, used |-> 2, gas |-> 3]
           t == RevmTx(kind, tx, 9)
       IN ckCase' = [NoCase EXCEPT !.kind = "replay",
                                   !.same = (RevmBalance(t) = ZkBalance(kind, tx) /\ t.used <= t.gas)]
  /\ UNCHANGED <<ckPart, nodeVars>>

-----------------------------------------------------------------------------
(* calculate_excess_blob_gas_from_blob_base_fee: the blob gas that gives    *)
(* the fee, searched for on a growing function of it.                      *)

BlobFeeAt(excess) == 1 + (excess * excess) \div 3

MutBound(fee) ==
  LET double[h \in 1 .. 64] == IF BlobFeeAt(h) < fee THEN double[2 * h] ELSE h
  IN double[1] - 1

Bound(fee) ==
  LET double[h \in 1 .. 64] == IF BlobFeeAt(h) < fee THEN double[2 * h] ELSE h
  IN double[1]

ExcessBlobGas(fee) ==
  LET search[lo \in 0 .. 64, hi \in 0 .. 64] ==
        LET mid == lo + (hi - lo) \div 2
        IN IF lo >= hi THEN lo
           ELSE IF BlobFeeAt(mid) < fee THEN search[mid + 1, hi] ELSE search[lo, mid]
  IN IF fee <= 1 THEN 0 ELSE search[0, Bound(fee)]

SearchBlobGas ==
  /\ ckPart = "blob" /\ ckCase = NoCase
  /\ \E fee \in 0 .. CkMaxBlobFee :
       ckCase' = [NoCase EXCEPT !.kind = "blob", !.fee = fee, !.excess = ExcessBlobGas(fee)]
  /\ UNCHANGED <<ckPart, nodeVars>>

-----------------------------------------------------------------------------
CheckerNext ==
  \/ StartNode \/ Produce \/ CheckPasses \/ CheckFails \/ RecordFailing \/ PassOn \/ Execute
  \/ ClearFailing \/ Halt \/ Kill \/ RepairFile
  \/ Compare \/ Replay \/ SearchBlobGas

\* The process supervisor restarts the node, its tasks run, and the operator
\* repairs a torn file.
CheckerSpec ==
  /\ CheckerInit /\ [][CheckerNext]_ckVars
  /\ WF_ckVars(StartNode) /\ WF_ckVars(CheckPasses \/ CheckFails) /\ WF_ckVars(RecordFailing)
  /\ WF_ckVars(Halt) /\ WF_ckVars(RepairFile)

-----------------------------------------------------------------------------
(* Properties.                                                             *)

\* A block the second VM executes differently goes no further than the checker:
\* neither the tree nor a batch ever holds it, whatever restarts, rebuilds and
\* kills come in between.
DivergenceContained ==
  \A n \in 1 .. ckPassed : ~(Supported(ckWal[n]) /\ Diverges(ckWal[n]))

\* The blacklist on disk never loses a signer but with the whole file: the checker
\* and the sink, each writing a copy it read earlier, do not undo each other.
BlacklistKept == [][ckFile.black \subseteq ckFile'.black \/ ckFile.torn]_ckVars

\* The report of a comparison is empty exactly when both executions leave the
\* same values: writes that a later write undoes do not count, nor do slots of the
\* account properties, nor the spelling of "no code"; a transaction handed to the
\* second VM changes the signer's balance as in the first; the blob gas found is
\* the least that gives the fee.
ChecksExact ==
  /\ ckCase.kind = "compare" => (ckCase.empty <=> ckCase.same)
  /\ ckCase.kind = "replay" => ckCase.same
  /\ ckCase.kind = "blob" => /\ BlobFeeAt(ckCase.excess) >= ckCase.fee
                             /\ ckCase.excess = 0 \/ BlobFeeAt(ckCase.excess - 1) < ckCase.fee

\* A divergent block is eventually emptied.
DivergenceResolved ==
  \A n \in 1 .. CkMaxBlock :
    (n <= Len(ckWal) /\ Supported(ckWal[n]) /\ Diverges(ckWal[n]))
      ~> (n <= Len(ckWal) /\ ~Diverges(ckWal[n]))

=============================================================================
