------------------------------ MODULE Mempool ------------------------------
(***************************************************************************)
(* The pool of lib/mempool: the upgrade, interop root, interop fee and L1  *)
(* priority subpools, the watchers of L1 that fill them, their streams for *)
(* the block being built, and the canonical update that consumes them.     *)
(* The L2 subpool (reth's pool) is an endless source of L2 transactions.   *)
(*                                                                         *)
(* A transaction is <<kind, numbers>>: <<"up", <<version>>>>,              *)
(* <<"l1", <<id>>>>, <<"root", log ids>>, <<"fee", <<fee, number>>>>,      *)
(* <<"sl", << >>>>, <<"l2", << >>>>.                                       *)
(***************************************************************************)
EXTENDS Integers, Sequences, FiniteSets, SequencesExt, FiniteSetsExt

(***************************************************************************)
(* The L1 transaction watchers (lib/l1_watcher: watcher.rs, tx_watcher.rs, *)
(* interop_watcher.rs, upgrade_tx_watcher.rs, util.rs): each resolves the  *)
(* L1 block to start from by a search over L1 state, scans windows of L1   *)
(* blocks behind the head, and pushes the events it accepts to a sink.     *)
(* What L1 contains is fixed per behaviour; the head moves over it.        *)
(***************************************************************************)

CONSTANTS
    EvScenarios,      \* contents of L1 and what the node is started with, see BlockBuilding
    EvMaxBlocks,      \* max_blocks_to_process of a window
    EvConfirmations,  \* confirmations behind the head
    EvGallop          \* GALLOP_INITIAL_DISTANCE

VARIABLES
    evCase,           \* the scenario: a member of EvScenarios; evCase.l1 the L1 blocks
    evHead,           \* latest L1 block
    evWatch           \* per watcher: [on, next, queue, cur]

evVars == <<evCase, evHead, evWatch>>

(***************************************************************************)
(* L1.  An event is [k, id, ver]: "l1", a priority request with its id;    *)
(* "root", an interop root with its log id; "up", UpgradeTimestampUpdated  *)
(* from version id to version ver (the cut data it is looked up with);     *)
(* "exec", the upgrade executed on the chain's contract.  A version is     *)
(* 10 * minor + patch.                                                     *)
(***************************************************************************)
Watchers == {"up", "l1", "root"}
Off == [on |-> FALSE, next |-> 0, queue |-> << >>, cur |-> 0]
Minor(version) == version \div 10
MinReliable == 302

EventsIn(from, to, k) ==
    SelectSeq(FlattenSeq(SubSeq(evCase.l1, from, to)), LAMBDA e : e.k = k)
CountTo(block, k) == Len(EventsIn(1, block, k))
VersionAt(block) ==
    LET done == EventsIn(1, block, "exec")
    IN  IF done = << >> THEN evCase.genesis ELSE Last(done).ver

EventsInit ==
    /\ evCase \in EvScenarios
    /\ evHead = evCase.head
    /\ evWatch = [w \in Watchers |-> Off]

MineL1 ==
    /\ evHead < Len(evCase.l1)
    /\ evHead' = evHead + 1
    /\ UNCHANGED <<evCase, evWatch>>

(***************************************************************************)
(* find_first_true_block: gallop back from the latest block until the      *)
(* predicate is false, then bisect; "pred" maps blocks to its value.       *)
(***************************************************************************)
Bisected(pred, from, to) ==
    LET step[lo \in from..to + 1, hi \in from..to] ==
            IF lo >= hi THEN lo
            ELSE LET mid == lo + (hi - lo) \div 2
                 IN  IF pred[mid] THEN step[lo, mid] ELSE step[mid + 1, hi]
    IN  step[from, to]

FindFirstTrueBlock(pred, start, latest) ==
    LET gallop[distance \in Nat, hi \in start..latest] ==
            IF start >= hi THEN <<start, hi>>
            ELSE LET probe == Max({latest - distance, start})
                 IN  IF ~pred[probe] THEN <<probe + 1, hi>>
                     ELSE IF probe = start THEN <<start, probe>>
                     ELSE gallop[2 * distance, probe]
        range == gallop[EvGallop, latest]
    IN  Bisected(pred, range[1], range[2])

\* The value a watcher's search compares with its cursor, at an L1 block: the
\* block it finds is the one that brought the chain to the cursor.
PriorityIdReached(block) == CountTo(block, "l1")
InteropRootIdReached(block) == CountTo(block, "root")
ProtocolVersionReached(block) == VersionAt(block)
Reached(w, block) ==
    CASE w = "l1" -> PriorityIdReached(block)
      [] w = "root" -> InteropRootIdReached(block)
      [] w = "up" -> ProtocolVersionReached(block)

\* resolve_start: the condition must hold at the latest block, or the watcher panics.
Resolvable(w, cursor) == Reached(w, evHead) >= cursor
ResolveStart(w, cursor) ==
    FindFirstTrueBlock([b \in 1..evHead |-> Reached(w, b) >= cursor], 1, evHead)

Started(cursors) ==
    [w \in Watchers |-> [on |-> TRUE, next |-> ResolveStart(w, cursors[w]),
                         queue |-> << >>, cur |-> cursors[w]]]

(***************************************************************************)
(* L1Watcher::poll.  The interop watcher keeps one log per id in a HashMap *)
(* and iterates over its values: the order within a window is arbitrary.   *)
(***************************************************************************)
Orders(w, events) ==
    IF w = "root" THEN SetToSeqs(ToSet(events)) ELSE {events}

Cap == Max({evHead - EvConfirmations, 0})

Scan(w) ==
    LET from == evWatch[w].next
        to == Min({Cap, from + EvMaxBlocks - 1})
    IN  /\ evWatch[w].on /\ evWatch[w].queue = << >> /\ from <= Cap
        /\ \E queue \in Orders(w, EventsIn(from, to, w)) :
               evWatch' = [evWatch EXCEPT ![w].queue = queue, ![w].next = to + 1]
        /\ UNCHANGED <<evCase, evHead>>

(***************************************************************************)
(* The processors: what process_event makes of the first queued event.     *)
(* A priority request waits for the contract to count it, so that what is  *)
(* pushed can be executed on L1.                                           *)
(***************************************************************************)
UpgradeCursor(e) ==
    LET cur == evWatch["up"].cur IN IF cur < MinReliable THEN e.id ELSE cur

UpgradeAccepted(e) == e.id = UpgradeCursor(e)
UpgradeFails(e) == e.id > UpgradeCursor(e)
RootAccepted(e) == e.id >= evWatch["root"].cur
PriorityAccepted(e) == e.id >= evWatch["l1"].cur
Counted(e) == PriorityIdReached(evHead) > e.id

Accepted(w, e) ==
    CASE w = "l1" -> PriorityAccepted(e)
      [] w = "root" -> RootAccepted(e)
      [] w = "up" -> UpgradeAccepted(e)
ProcessFails(w, e) == w = "up" /\ UpgradeFails(e)

\* The watcher after the event: the interop watcher keeps its starting id.
Advanced(w, e) ==
    CASE w = "l1" -> e.id + 1
      [] w = "up" -> e.ver
      [] OTHER -> evWatch[w].cur

Processed(w) ==
    LET e == Head(evWatch[w].queue)
    IN  evWatch' = [evWatch EXCEPT ![w].queue = Tail(@),
                                   ![w].cur = IF Accepted(w, e) THEN Advanced(w, e) ELSE @]

\* An event below the cursor is skipped.
SkipEvent(w) ==
    /\ evWatch[w].queue # << >>
    /\ ~Accepted(w, Head(evWatch[w].queue)) /\ ~ProcessFails(w, Head(evWatch[w].queue))
    /\ Processed(w)
    /\ UNCHANGED <<evCase, evHead>>

Deliverable(w) ==
    /\ evWatch[w].queue # << >>
    /\ Accepted(w, Head(evWatch[w].queue))
    /\ w = "l1" => Counted(Head(evWatch[w].queue))

-----------------------------------------------------------------------------

CONSTANTS
    MpChannel,        \* capacity of the L1 stream's channel
    MpRootsPerTx,     \* interop_roots_per_tx
    MpFees,           \* the fees the fee updater may find
    MpDeviation       \* update_deviation_percentage

VARIABLES
    mpUp,             \* UpgradeSubpool: [cur, pend], pend of [ver, tx]
    mpRoots,          \* pending_roots: set of log ids (a BTreeMap)
    mpFee,            \* InteropFeeSubpool and the updater: [pend, next, last]; 0 is none
    mpL1,             \* L1Subpool: [pend, held], held: the insert that holds the lock
    mpStream,         \* the streams of the block being built
    mpFail            \* the assertion of a canonical update that failed, or "no"

mpVars == <<mpUp, mpRoots, mpFee, mpL1, mpStream, mpFail>>

\* l1: transactions taken; known: how many the snapshot or the reader has
\* passed, the rest sits in the channel; cursor, buffer: the root stream's;
\* fee: the fee stream has yielded; delay: roots not before the service block delay.
ClosedStream ==
    [open |-> FALSE, l1 |-> 0, known |-> 0, cursor |-> 0, buffer |-> << >>, fee |-> FALSE,
     delay |-> FALSE]
OpenStream(delay) ==
    [ClosedStream EXCEPT !.open = TRUE, !.known = Len(mpL1.pend), !.delay = delay]

PoolInit ==
    /\ mpUp = [cur |-> 0, pend |-> << >>]
    /\ mpRoots = {}
    /\ mpFee = [pend |-> 0, next |-> 0, last |-> 0]
    /\ mpL1 = [pend |-> << >>, held |-> << >>]
    /\ mpStream = ClosedStream
    /\ mpFail = "no"

\* Pool::init with the first record: the genesis upgrade is queued when block
\* 0 or 1 is the first.
InitPool(number, version, feeNumber) ==
    /\ mpUp' = [cur |-> version,
                pend |-> IF number <= 1 THEN <<[ver |-> evCase.genesis, tx |-> TRUE]>> ELSE << >>]
    /\ mpFee' = [pend |-> 0, next |-> feeNumber, last |-> 0]
    /\ UNCHANGED <<mpRoots, mpL1, mpStream, mpFail>>

ResetPool ==
    /\ mpUp' = [cur |-> 0, pend |-> << >>]
    /\ mpRoots' = {}
    /\ mpFee' = [pend |-> 0, next |-> 0, last |-> 0]
    /\ mpL1' = [pend |-> << >>, held |-> << >>]
    /\ mpStream' = ClosedStream
    /\ UNCHANGED mpFail

(***************************************************************************)
(* The sinks.                                                              *)
(***************************************************************************)
\* fetch_upgrade_info: a patch of the watcher's current minor version has no
\* transaction.
UpgradeInfo(e) == [ver |-> e.ver, tx |-> Minor(e.ver) # Minor(UpgradeCursor(e))]

InsertUpgrade ==
    /\ Deliverable("up")
    /\ mpUp' = [mpUp EXCEPT !.pend = Append(@, UpgradeInfo(Head(evWatch["up"].queue)))]
    /\ Processed("up")
    /\ UNCHANGED <<evCase, evHead, mpRoots, mpFee, mpL1, mpStream, mpFail>>

AddRoot ==
    /\ Deliverable("root")
    /\ mpRoots' = mpRoots \cup {Head(evWatch["root"].queue).id}
    /\ Processed("root")
    /\ UNCHANGED <<evCase, evHead, mpUp, mpFee, mpL1, mpStream, mpFail>>

\* L1Subpool::insert sends to the open stream's channel before it queues the
\* transaction, and holds the lock while the channel is full.
ChannelFull ==
    mpStream.open /\ Len(mpL1.pend) - Max({mpStream.l1, mpStream.known}) >= MpChannel

InsertL1 ==
    /\ mpL1.held = << >>
    /\ Deliverable("l1")
    /\ LET tx == <<Head(evWatch["l1"].queue).id>>
       IN  mpL1' = IF ChannelFull THEN [mpL1 EXCEPT !.held = tx]
                   ELSE [mpL1 EXCEPT !.pend = @ \o tx]
    /\ Processed("l1")
    /\ UNCHANGED <<evCase, evHead, mpUp, mpRoots, mpFee, mpStream, mpFail>>

FinishInsertL1 ==
    /\ mpL1.held # << >>
    /\ ~ChannelFull
    /\ mpL1' = [pend |-> mpL1.pend \o mpL1.held, held |-> << >>]
    /\ UNCHANGED <<evVars, mpUp, mpRoots, mpFee, mpStream, mpFail>>

\* InteropFeeUpdater::loop_iteration with the fee of the latest block: no new
\* fee is queued until the chain shows the last one.
ShouldUpdateFee(current, target) ==
    LET diff == IF target > current THEN target - current ELSE current - target
    IN  diff # 0 /\ (current = 0 \/ 100 * diff >= MpDeviation * current)

UpdateFee(onChain, target) ==
    /\ mpFee.last \in {0, onChain}
    /\ ShouldUpdateFee(onChain, target)
    /\ mpFee' = [mpFee EXCEPT !.pend = target, !.last = target]
    /\ UNCHANGED <<evVars, mpUp, mpRoots, mpL1, mpStream, mpFail>>

(***************************************************************************)
(* The streams of best_transactions_stream.                                *)
(***************************************************************************)
\* What the root stream would yield: the buffer, then all roots from its cursor on.
RootBuffer(stream) ==
    stream.buffer \o SetToSortSeq({r \in mpRoots : r >= stream.cursor}, <)
RootCursor(stream) == Max({stream.cursor} \cup {r + 1 : r \in mpRoots})

RootTx(stream) ==
    LET all == RootBuffer(stream) IN <<"root", SubSeq(all, 1, Min({Len(all), MpRootsPerTx}))>>
AfterRoots(stream) ==
    LET all == RootBuffer(stream)
    IN  [stream EXCEPT !.cursor = RootCursor(stream),
                       !.buffer = SubSeq(all, Min({Len(all), MpRootsPerTx}) + 1, Len(all))]

FeeReady(stream) == ~stream.fee /\ mpFee.pend # 0
FeeTx == <<"fee", <<mpFee.pend, mpFee.next>>>>
InteropReady(stream) ==
    FeeReady(stream) \/ (~stream.delay /\ RootBuffer(stream) # << >>)
InteropTx(stream) == IF FeeReady(stream) THEN FeeTx ELSE RootTx(stream)
AfterInterop(stream) ==
    IF FeeReady(stream) THEN [stream EXCEPT !.fee = TRUE] ELSE AfterRoots(stream)

L1Ready(stream) == stream.l1 < Len(mpL1.pend)
L1Tx(stream) == <<"l1", <<mpL1.pend[stream.l1 + 1]>>>>
AfterL1(stream) == [stream EXCEPT !.l1 = @ + 1]

(***************************************************************************)
(* Pool::on_canonical_state_change for a block with transactions txs: one  *)
(* result per subpool, [wait, fail, ...]; a subpool waits in pop_wait for  *)
(* an input the watcher has not delivered yet.                             *)
(***************************************************************************)
OfKind(txs, k) == SelectSeq(txs, LAMBDA tx : tx[1] = k)

\* Upgrades popped for the upgrade transactions, then patches up to the
\* block's version.  The loop of the code over the queue, one pop at a time.
PopUpgrades(cur, pend, txs, version) ==
    LET Stop(c, q, waits, fails) == [cur |-> c, pend |-> q, wait |-> waits, fail |-> fails]
        pop[c \in Nat, q \in Seq(Range(pend)), t \in Seq(Range(txs))] ==
            IF t = << >> /\ c = version THEN Stop(c, q, FALSE, FALSE)
            ELSE IF t = << >> /\ c > version THEN Stop(c, q, FALSE, TRUE)
            ELSE IF q = << >> THEN Stop(c, q, TRUE, FALSE)
            ELSE IF ~Head(q).tx THEN pop[Head(q).ver, Tail(q), t]
            ELSE IF t = << >> \/ <<"up", <<Head(q).ver>>>> # Head(t) THEN Stop(c, q, FALSE, TRUE)
            ELSE pop[Head(q).ver, Tail(q), Tail(t)]
    IN  pop[cur, pend, txs]

UpgradeUpdate(version, txs) ==
    LET reliable == SelectSeq(mpUp.pend, LAMBDA u : u.ver >= MinReliable)
    IN  IF txs = << >> /\ version = mpUp.cur
        THEN [cur |-> mpUp.cur, pend |-> mpUp.pend, wait |-> FALSE, fail |-> FALSE]
        ELSE IF version < MinReliable
        THEN [cur |-> version, pend |-> reliable, wait |-> FALSE, fail |-> FALSE]
        ELSE PopUpgrades(mpUp.cur, reliable, txs, version)

\* Each import pops as many roots as it has, lowest id first, and compares.
RootsUpdate(txs) ==
    LET wanted == FlattenSeq([i \in DOMAIN txs |-> txs[i][2]])
        sorted == SetToSortSeq(mpRoots, <)
        popped == SubSeq(sorted, 1, Min({Len(sorted), Len(wanted)}))
    IN  [roots |-> mpRoots \ Range(popped), wait |-> Len(popped) < Len(wanted),
         fail |-> popped # SubSeq(wanted, 1, Len(popped))]

\* A produced block consumes the pending fee; a replayed one moves the number.
FeeUpdate(txs, strict) ==
    IF txs = << >> THEN [fee |-> mpFee, fail |-> FALSE, wait |-> FALSE]
    ELSE IF ~strict
    THEN [fee |-> [mpFee EXCEPT !.next = Max({@, Last(txs)[2][2] + 1})],
          fail |-> FALSE, wait |-> FALSE]
    ELSE [fee |-> [mpFee EXCEPT !.pend = 0, !.next = @ + 1],
          wait |-> mpFee.pend = 0, fail |-> mpFee.pend # 0 /\ txs # <<FeeTx>>]

L1Update(txs) ==
    LET popped == SubSeq(mpL1.pend, 1, Min({Len(mpL1.pend), Len(txs)}))
    IN  [pend |-> SubSeq(mpL1.pend, Len(popped) + 1, Len(mpL1.pend)),
         wait |-> Len(popped) < Len(txs),
         fail |-> \E i \in DOMAIN popped : txs[i][2] # <<popped[i]>>]
=============================================================================
