----------------------------- MODULE UpgradeData -----------------------------
(***************************************************************************)
(* How the upgrade watcher (lib/l1_watcher/src/upgrade_tx_watcher.rs)      *)
(* turns a request to upgrade into the upgrade it hands to the mempool:    *)
(* it looks the cut up on the L1 chain type manager (CTM), by the block    *)
(* the CTM names or by scanning windows of L1 blocks backwards, rewrites   *)
(* the transaction, and collects the bytecodes the upgrade depends on from *)
(* the bytecode supplier.  Every call to L1 is a step: L1 grows between    *)
(* two calls.                                                              *)
(***************************************************************************)
EXTENDS Integers, Sequences, FiniteSets, SequencesExt, FiniteSetsExt

CONSTANTS
    UdScenarios,     \* [v31: the CTM's kind at first, old: the chain's version,
                     \*  blocks: what an L1 block may contain]
    UdMaxL1,         \* L1 blocks of a behaviour
    UdLookbehind,    \* UPGRADE_DATA_LOOKBEHIND_BLOCKS
    UdWindow,        \* max_blocks_to_process
    UdLive,          \* live protocol versions
    UdLocal,         \* is L1 a local chain
    UdMaxFails       \* failures of the watcher, each followed by a restart

VARIABLES
    udCase,          \* the scenario
    udL1,            \* L1: a sequence of blocks, each a sequence of events
    udV31,           \* the CTM exposes the mapping and the supplier of v31
    udCur,           \* current_protocol_version of the watcher
    udTask,          \* the fetch in progress
    udPushed,        \* what the sink was given
    udFails

udVars == <<udCase, udL1, udV31, udCur, udTask, udPushed, udFails>>

(***************************************************************************)
(* L1.  An item of a block: [k "up", old, new, deps], an upgrade           *)
(* registered on the CTM; [k "code", hash], a bytecode published; [k       *)
(* "ctm"], the CTM's own upgrade to v31.  A registration emits             *)
(* NewProtocolVersion and NewUpgradeCutData; the cut's topic is the new    *)
(* version on an older CTM and the old one since v31.  Versions are        *)
(* 10 * minor + patch.                                                     *)
(***************************************************************************)
Supplier(v31) == IF v31 THEN "ctm" ELSE "configured"

EventsOf(item, v31) ==
    CASE item.k = "up" ->
            << [k |-> "version", key |-> item.old, up |-> item, v31 |-> v31],
               [k |-> "cut", key |-> IF v31 THEN item.old ELSE item.new,
                up |-> item, v31 |-> v31] >>
      [] item.k = "code" -> << [k |-> Supplier(v31), key |-> item.hash] >>
      [] item.k = "ctm" -> << >>

MineBlock ==
    /\ Len(udL1) < UdMaxL1
    /\ \E block \in udCase.blocks :
        /\ udL1' = Append(udL1, FlattenSeq([i \in DOMAIN block |-> EventsOf(block[i], udV31)]))
        /\ udV31' = (udV31 \/ \E i \in DOMAIN block : block[i].k = "ctm")
    /\ UNCHANGED <<udCase, udCur, udTask, udPushed, udFails>>

Tip == Len(udL1)

\* eth_getLogs over a window, for a signature and a set of first topics.
GetLogs(from, to, k, keys) ==
    SelectSeq(FlattenSeq(SubSeq(udL1, from, to)), LAMBDA e : e.k = k /\ e.key \in keys)

\* upgradeCutDataBlock: 0 when the mapping has no entry or the CTM has no mapping.
GetUpgradeCutDataBlock(old) ==
    LET cuts == {b \in 1..Tip : \E i \in DOMAIN udL1[b] :
                     udL1[b][i].k = "cut" /\ udL1[b][i].v31 /\ udL1[b][i].key = old}
    IN  IF udV31 /\ cuts # {} THEN Max(cuts) ELSE 0

(***************************************************************************)
(* The fetch.  A scan goes from "cur" down to "start" in windows.          *)
(***************************************************************************)
NoTask == [at |-> "idle", since |-> 0, tip |-> 0, start |-> 1, cur |-> 0, new |-> 0,
           up |-> << >>, data |-> "none", sup |-> "none", found |-> {}]

UpgradeDataInit ==
    /\ udCase \in UdScenarios
    /\ udL1 = << >> /\ udV31 = udCase.v31 /\ udCur = udCase.old
    /\ udTask = NoTask /\ udPushed = << >> /\ udFails = 0

Step(at, task) ==
    /\ udTask.at = at
    /\ udTask' = task
    /\ UNCHANGED <<udCase, udL1, udV31, udCur, udPushed, udFails>>

StartBlock(tip) == Max({tip - UdLookbehind, 1})
Scanned(task, tip) == [task EXCEPT !.tip = tip, !.start = StartBlock(tip), !.cur = tip]
FromBlock(task) == Max({task.cur - (UdWindow - 1), task.start})
WindowDone(task) == task.cur < task.start
MutNextWindow(task) == [task EXCEPT !.cur = FromBlock(task) - 2]
NextWindow(task) == [task EXCEPT !.cur = FromBlock(task) - 1]
MutPicked(logs) == Head(logs)
Picked(logs) == Last(logs)

Minor(version) == version \div 10

\* What follows once the cut is known: a cut to a version that is not newer is
\* refused; a patch has neither a transaction nor preimages.
WithCut(task, cut) ==
    LET next == IF cut.up.new <= udCur THEN "failed"
                ELSE IF Minor(cut.up.new) = Minor(udCur) THEN "ready" ELSE "rewrite"
    IN  [task EXCEPT !.up = cut.up, !.at = next]

\* The upgrade the CTM holds for a version when L1 has b blocks.
RegisteredAt(b, old) ==
    LET ups == SelectSeq(FlattenSeq(SubSeq(udL1, 1, b)), LAMBDA e : e.k = "version" /\ e.key = old)
    IN  IF ups = << >> THEN << >> ELSE Last(ups).up

\* process_event: UpgradeTimestampUpdated names the chain's version.  The chain
\* asks for an upgrade that is registered.
ProcessEvent ==
    /\ RegisteredAt(Tip, udCur) # << >>
    /\ Step("idle", [NoTask EXCEPT !.at = "cutblock", !.since = Tip])

FindUpgradeCutLog ==
    LET b == GetUpgradeCutDataBlock(udCur)
    IN  Step("cutblock", IF b # 0 THEN [udTask EXCEPT !.at = "cutat", !.tip = b]
                         ELSE [udTask EXCEPT !.at = "legacy"])

FetchUpgradeCutLogAt ==
    Step("cutat", WithCut(udTask, Picked(GetLogs(udTask.tip, udTask.tip, "cut", {udCur}))))

LegacyBackwardScan == Step("legacy", [Scanned(udTask, Tip) EXCEPT !.at = "version"])

\* A window of find_new_protocol_version: the event of the old version.
FindNewProtocolVersion ==
    LET logs == GetLogs(FromBlock(udTask), udTask.cur, "version", {udCur})
    IN  Step("version",
             IF WindowDone(udTask) THEN [udTask EXCEPT !.at = "failed"]
             ELSE IF logs = << >> THEN NextWindow(udTask)
             ELSE [udTask EXCEPT !.at = "cut", !.cur = udTask.tip, !.new = Picked(logs).up.new])

\* A window of the scan for the cut, indexed by the new version.
ScanForCut ==
    LET logs == GetLogs(FromBlock(udTask), udTask.cur, "cut", {udTask.new})
    IN  Step("cut",
             IF WindowDone(udTask) THEN [udTask EXCEPT !.at = "failed"]
             ELSE IF logs = << >> THEN NextWindow(udTask)
             ELSE WithCut(udTask, Picked(logs)))

\* getL2UpgradeTxData rewrites the transaction; init contracts before v31 lack it.
RewriteTxData ==
    Step("rewrite", [udTask EXCEPT !.data = IF Minor(udTask.up.new) >= 31 THEN "rewritten" ELSE "original",
                                   !.at = IF udTask.up.deps = {} THEN "ready" ELSE "supplier"])

ResolveActiveBytecodeSupplier ==
    Step("supplier", [udTask EXCEPT !.sup = Supplier(udV31), !.at = "tip"])

ForcePreimagesTip == Step("tip", [Scanned(udTask, Tip) EXCEPT !.at = "codes"])

\* A window of fetch_force_preimages, by the hashes still requested.
FetchForcePreimages ==
    LET logs == GetLogs(FromBlock(udTask), udTask.cur, udTask.sup, udTask.up.deps)
        found == udTask.found \union {e.key : e \in ToSet(logs)}
        done == found = udTask.up.deps \/ FromBlock(udTask) = udTask.start
        next == [udTask EXCEPT !.found = found]
    IN  Step("codes", IF done THEN [next EXCEPT !.at = "check"] ELSE NextWindow(next))

CheckMissing ==
    Step("check", [udTask EXCEPT !.at = IF udTask.found = udTask.up.deps THEN "ready" ELSE "failed"])

\* The version must be live unless L1 is local; the node panics otherwise.
CheckLive ==
    Step("ready", [udTask EXCEPT !.at = IF udTask.up.new \in UdLive \/ UdLocal
                                        THEN "waiting" ELSE "panicked"])

\* wait_until_timestamp is over: the upgrade is pushed as it was fetched.
PushUpgrade ==
    /\ udTask.at = "waiting"
    /\ udPushed' = Append(udPushed, [new |-> udTask.up.new, data |-> udTask.data,
                                     codes |-> udTask.found])
    /\ udCur' = udTask.up.new
    /\ udTask' = NoTask
    /\ UNCHANGED <<udCase, udL1, udV31, udFails>>

\* A call to L1 fails: the error ends the watcher.
CallFails ==
    /\ udTask.at \notin {"idle", "ready", "waiting", "failed", "panicked"}
    /\ udFails < UdMaxFails
    /\ udTask' = [NoTask EXCEPT !.at = "broken"]
    /\ UNCHANGED <<udCase, udL1, udV31, udCur, udPushed, udFails>>

\* The node is started again and the watcher meets the same request.
RestartWatcher ==
    /\ udTask.at \in {"failed", "broken", "panicked"}
    /\ udFails < UdMaxFails
    /\ udFails' = udFails + 1
    /\ udTask' = NoTask
    /\ UNCHANGED <<udCase, udL1, udV31, udCur, udPushed>>

UpgradeDataNext ==
    \/ MineBlock \/ ProcessEvent \/ FindUpgradeCutLog \/ FetchUpgradeCutLogAt
    \/ LegacyBackwardScan \/ FindNewProtocolVersion \/ ScanForCut \/ RewriteTxData
    \/ ResolveActiveBytecodeSupplier \/ ForcePreimagesTip \/ FetchForcePreimages
    \/ CheckMissing \/ CheckLive \/ PushUpgrade \/ CallFails \/ RestartWatcher

\* fetch_upgrade_info returns the upgrade the CTM held for the chain's version
\* at some block since the request, with every bytecode it depends on; and it
\* gives up only when the registration changes under it, or the registration or
\* a bytecode is not in the blocks the scan had to look through.
UpgradeFetchedExact ==
    /\ udTask.at \in {"ready", "waiting"} =>
        /\ \E b \in udTask.since..Tip : RegisteredAt(b, udCur) = udTask.up
        /\ Minor(udTask.up.new) # Minor(udCur) => udTask.found = udTask.up.deps
    /\ udTask.at = "failed" =>
        \/ GetLogs(udTask.since + 1, Tip, "version", {udCur}) # << >>
        \/ udTask.up = << >> /\ GetLogs(udTask.start, udTask.tip, "version", {udCur}) = << >>
        \/ /\ udTask.up # << >>
           /\ \E h \in udTask.up.deps :
                GetLogs(udTask.start, udTask.tip, udTask.sup, {h}) = << >>
=============================================================================
