---------------------------- MODULE BlockBuilding ----------------------------
(***************************************************************************)
(* Block building on a main node: the command source (replays of the WAL,  *)
(* rebuilds, then produce commands; node/bin/src/command_source.rs), the   *)
(* BlockContextProvider, the execution loop of execute_block_in_vm and the *)
(* canonical update of the mempool, with restarts.  The VM is external: it *)
(* executes a transaction, rejects it or finds a block limit reached, and  *)
(* does the same again on a replay.                                        *)
(***************************************************************************)
EXTENDS Mempool

\* A scenario, a member of EvScenarios: genesis, the chain's first version; l1,
\* the L1 blocks; head, the latest of them at first; blocks and crashes, bounds
\* on the chain's length and on restarts; rebuild, fees: rebuilds are asked for
\* and fees change; upgradeFirst: a restart may begin at an upgrade block.
CONSTANTS
    BbTxLimit,        \* max_transactions_in_block
    BbRootsPerBlock   \* interop_roots_per_block

VARIABLES
    bbStage,          \* down, command, choose, execute, canonical, persist, failed
    bbWal,            \* the records of blocks 1, 2, ...: [ver, txs, cur]
    bbNext,           \* the next block to process
    bbTo,             \* last block of the WAL at startup
    bbRebuild,        \* [from, empty]: rebuild options, from = 0 for none
    bbLast,           \* LastBlock: [ver, cur, roots], roots: the block imported roots
    bbBlock,          \* the block being built
    bbCrashes

bbVars == <<bbStage, bbWal, bbNext, bbTo, bbRebuild, bbLast, bbBlock, bbCrashes>>

NoCursors == [l1 |-> 0, root |-> 0, fee |-> 0]
GenesisRecord == [ver |-> evCase.genesis, txs |-> << >>, cur |-> NoCursors]
RecordAt(n) == IF n = 0 THEN GenesisRecord ELSE bbWal[n]
NoRebuild == [from |-> 0, empty |-> {}]

\* src: "list", "up", "interop" or "l1l2"; rest: transactions already taken
\* from the source; tried: a transaction was attempted, the deadline is armed.
Building(ver, cur, src, rest, strict) ==
    [ver |-> ver, cur |-> cur, src |-> src, rest |-> rest, strict |-> strict,
     txs |-> << >>, tried |-> FALSE, patch |-> 0]
NoBuilding == Building(0, NoCursors, "list", << >>, FALSE)

BuildingInit ==
    /\ EventsInit /\ PoolInit
    /\ bbStage = "down" /\ bbWal = << >>
    /\ bbNext = 0 /\ bbTo = 0 /\ bbRebuild = NoRebuild
    /\ bbLast = [ver |-> 0, cur |-> NoCursors, roots |-> FALSE]
    /\ bbBlock = NoBuilding /\ bbCrashes = 0

(***************************************************************************)
(* Startup.  The first block is the last executed one or older: one whose  *)
(* version L1 has.  The pool is initialized from its record, which starts  *)
(* the watchers.                                                           *)
(***************************************************************************)
HasUpgrade(n) == n > 1 /\ OfKind(bbWal[n].txs, "up") # << >>

Start(first, rebuild) ==
    LET rec == RecordAt(first)
        cursors == [up |-> rec.ver, l1 |-> rec.cur.l1, root |-> rec.cur.root]
    IN  /\ bbStage = "down"
        /\ first <= Len(bbWal) /\ rec.ver <= VersionAt(evHead)
        /\ HasUpgrade(first) => evCase.upgradeFirst
        /\ rebuild.from # 0 => first <= rebuild.from /\ rebuild.from <= Len(bbWal)
        /\ bbStage' = "command"
        /\ bbNext' = first /\ bbTo' = Len(bbWal) /\ bbRebuild' = rebuild
        /\ bbBlock' = NoBuilding
        /\ InitPool(first, rec.ver, rec.cur.fee)
        /\ evWatch' = Started(cursors)
        /\ UNCHANGED <<evCase, evHead, bbWal, bbLast, bbCrashes>>

\* The process stops; what the WAL has is kept.  (A stop in the middle of a
\* rebuild is NodeStorage's subject.)
Crash ==
    /\ bbStage # "down" /\ bbCrashes < evCase.crashes
    /\ bbRebuild.from = 0 \/ bbNext > bbTo
    /\ bbStage' = "down" /\ bbCrashes' = bbCrashes + 1
    /\ bbNext' = 0 /\ bbTo' = 0 /\ bbRebuild' = NoRebuild
    /\ bbBlock' = NoBuilding /\ bbLast' = [ver |-> 0, cur |-> NoCursors, roots |-> FALSE]
    /\ ResetPool
    /\ evWatch' = [w \in Watchers |-> Off]
    /\ UNCHANGED <<evCase, evHead, bbWal>>

(***************************************************************************)
(* BlockContextProvider::prepare_command.                                  *)
(***************************************************************************)
Replaying == bbNext <= bbTo /\ (bbRebuild.from = 0 \/ bbNext < bbRebuild.from)
Rebuilding == bbNext <= bbTo /\ ~Replaying

ReplayGenesis ==
    /\ bbStage = "command" /\ Replaying /\ bbNext = 0
    /\ bbLast' = [ver |-> evCase.genesis, cur |-> NoCursors, roots |-> FALSE]
    /\ bbNext' = 1
    /\ UNCHANGED <<evVars, mpVars, bbStage, bbWal, bbTo, bbRebuild, bbBlock, bbCrashes>>

\* A replay must reproduce the block: no transaction may be rejected, and the
\* block ends with its list.
Replay ==
    /\ bbStage = "command" /\ Replaying /\ bbNext > 0
    /\ LET rec == bbWal[bbNext]
       IN  bbBlock' = [Building(rec.ver, rec.cur, "list", << >>, FALSE) EXCEPT !.txs = rec.txs]
    /\ bbStage' = "canonical"
    /\ UNCHANGED <<evVars, mpVars, bbWal, bbNext, bbTo, bbRebuild, bbLast, bbCrashes>>

\* Priority transactions are dropped when the block's first one is not the
\* next; the rest is offered again.
RebuildTxs(rec, cur) ==
    LET l1 == OfKind(rec.txs, "l1")
    IN  IF l1 # << >> /\ Head(l1)[2][1] # cur.l1
        THEN SelectSeq(rec.txs, LAMBDA tx : tx[1] # "l1")
        ELSE rec.txs

\* What executing the list may leave: a block limit ends it early, the
\* upgrade or the settlement layer transaction after it ends it, and L2
\* transactions may be rejected.
Ends(txs, i) ==
    \/ txs[i][1] = "sl"
    \/ txs[i][1] = "up" /\ (i = Len(txs) \/ txs[i + 1][1] # "sl")
Rebuilt(txs) ==
    LET upTo == Min({Len(txs)} \cup {i \in DOMAIN txs : Ends(txs, i)})
        early == {i \in 0..upTo : i < upTo => txs[i + 1][1] \notin {"up", "sl"}}
        Kept(i, dropped) ==
            SelectSeq([j \in 1..i |-> IF j \in dropped THEN <<"dropped", << >>>> ELSE txs[j]],
                      LAMBDA tx : tx[1] # "dropped")
    IN  {Kept(i, dropped) : i \in early, dropped \in SUBSET {j \in 1..upTo : txs[j][1] = "l2"}}

Rebuild ==
    /\ bbStage = "command" /\ Rebuilding
    /\ LET rec == bbWal[bbNext]
           empty == bbNext \in bbRebuild.empty
           cur == IF bbLast.ver = 0 THEN rec.cur ELSE bbLast.cur   \* no last block yet
       IN  /\ empty => ~HasUpgrade(bbNext) /\ bbNext # 1
           /\ \E txs \in (IF empty THEN {<< >>} ELSE Rebuilt(RebuildTxs(rec, cur))) :
                  bbBlock' = [Building(rec.ver, cur, "list", << >>, FALSE) EXCEPT !.txs = txs]
    /\ bbStage' = "canonical"
    /\ UNCHANGED <<evVars, mpVars, bbWal, bbNext, bbTo, bbRebuild, bbLast, bbCrashes>>

\* produce: takes the last block and opens the streams.
Produce ==
    /\ bbStage = "command" /\ bbNext > bbTo /\ bbNext <= evCase.blocks
    /\ bbStage' = "choose"
    /\ bbBlock' = Building(bbLast.ver, bbLast.cur, "none", << >>, TRUE)
    /\ mpStream' = OpenStream(bbLast.roots)
    /\ UNCHANGED <<evVars, mpUp, mpRoots, mpFee, mpL1, mpFail,
                   bbWal, bbNext, bbTo, bbRebuild, bbLast, bbCrashes>>

DelayOver ==
    /\ mpStream.delay
    /\ mpStream' = [mpStream EXCEPT !.delay = FALSE]
    /\ UNCHANGED <<evVars, mpUp, mpRoots, mpFee, mpL1, mpFail, bbVars>>

(***************************************************************************)
(* best_transactions_stream: a biased select.  The upgrade stream yields   *)
(* at most one upgrade: a transaction makes an upgrade block, a patch only *)
(* leaves its metadata.                                                    *)
(***************************************************************************)
UpgradeReady == bbBlock.patch = 0 /\ mpUp.pend # << >>
IncludeInterop == bbLast.ver >= 320
PostV31(version) == Minor(version) >= 31
NewVersion(version) == IF version > bbLast.ver THEN version ELSE bbLast.ver

\* The first block of v31 or later also gets the settlement layer's chain id.
SlTx(version) ==
    IF PostV31(version) /\ (Minor(bbLast.ver) < 31 \/ bbNext = 1) THEN <<<<"sl", << >>>>>> ELSE << >>

Chosen(ver, src, rest, stream) ==
    /\ bbStage' = "execute"
    /\ bbBlock' = [bbBlock EXCEPT !.ver = ver, !.src = src, !.rest = rest]
    /\ mpStream' = stream
    /\ UNCHANGED <<evVars, mpUp, mpRoots, mpFee, mpL1, mpFail,
                   bbWal, bbNext, bbTo, bbRebuild, bbLast, bbCrashes>>

ChooseUpgrade ==
    /\ bbStage = "choose" /\ UpgradeReady /\ Head(mpUp.pend).tx
    /\ LET ver == NewVersion(Head(mpUp.pend).ver)
       IN  Chosen(ver, "up", <<<<"up", <<Head(mpUp.pend).ver>>>>>> \o SlTx(ver), ClosedStream)

SeePatch ==
    /\ bbStage = "choose" /\ UpgradeReady /\ ~Head(mpUp.pend).tx
    /\ bbBlock' = [bbBlock EXCEPT !.patch = Head(mpUp.pend).ver]
    /\ UNCHANGED <<evVars, mpVars, bbStage, bbWal, bbNext, bbTo, bbRebuild, bbLast, bbCrashes>>

\* The L1 stream is dropped with the one not chosen.
ChooseInterop ==
    /\ bbStage = "choose" /\ ~UpgradeReady
    /\ IncludeInterop /\ InteropReady(mpStream)
    /\ Chosen(NewVersion(bbBlock.patch), "interop", <<InteropTx(mpStream)>>,
              [AfterInterop(mpStream) EXCEPT !.open = FALSE])

ChooseL1L2 ==
    /\ bbStage = "choose" /\ ~UpgradeReady
    /\ ~(IncludeInterop /\ InteropReady(mpStream))
    /\ IF L1Ready(mpStream)
       THEN Chosen(NewVersion(bbBlock.patch), "l1l2", <<L1Tx(mpStream)>>, AfterL1(mpStream))
       ELSE Chosen(NewVersion(bbBlock.patch), "l1l2", <<<<"l2", << >>>>>>, mpStream)

(***************************************************************************)
(* The main loop of execute_block_in_vm for a produced block.              *)
(***************************************************************************)
\* The next transaction of the source and the stream after it; empty: none yet.
Offered ==
    CASE bbBlock.rest # << >> -> <<Head(bbBlock.rest), mpStream>>
      [] bbBlock.src = "interop" /\ bbBlock.rest = << >> /\ InteropReady(mpStream)
            -> <<InteropTx(mpStream), AfterInterop(mpStream)>>
      [] bbBlock.src = "l1l2" /\ bbBlock.rest = << >> /\ L1Ready(mpStream)
            -> <<L1Tx(mpStream), AfterL1(mpStream)>>
      [] bbBlock.src = "l1l2" /\ bbBlock.rest = << >> /\ ~L1Ready(mpStream)
            -> <<<<"l2", << >>>>, mpStream>>
      [] OTHER -> << >>

RootsIn(txs) == Len(FlattenSeq([i \in DOMAIN OfKind(txs, "root") |-> OfKind(txs, "root")[i][2]]))

\* should_exclude_and_seal, and a block limit reached in the VM.
MustExclude(tx) == tx[1] = "root" /\ RootsIn(bbBlock.txs) + Len(tx[2]) > BbRootsPerBlock
MayHitLimit(tx) ==
    \/ tx[1] = "l1"                                   \* also as the first: an empty block
    \/ tx[1] \in {"l2", "root", "fee"} /\ bbBlock.txs # << >>

\* The command, and with it the streams, is dropped with the block sealed.
Sealed ==
    /\ bbStage' = "canonical"
    /\ mpStream' = ClosedStream

ExecuteTx ==
    /\ bbStage = "execute" /\ Offered # << >> /\ ~MustExclude(Offered[1])
    /\ LET tx == Offered[1]
           txs == Append(bbBlock.txs, tx)
           rest == IF bbBlock.rest = << >> THEN << >> ELSE Tail(bbBlock.rest)
       IN  /\ bbBlock' = [bbBlock EXCEPT !.txs = txs, !.rest = rest, !.tried = TRUE]
           /\ IF \/ tx[1] = "up" /\ rest = << >>
                 \/ tx[1] = "sl"
                 \/ Len(txs) >= Max({BbTxLimit, IF bbBlock.src = "up" THEN 2 ELSE 0})
              THEN Sealed
              ELSE mpStream' = Offered[2] /\ UNCHANGED bbStage
    /\ UNCHANGED <<evVars, mpUp, mpRoots, mpFee, mpL1, mpFail,
                   bbWal, bbNext, bbTo, bbRebuild, bbLast, bbCrashes>>

\* Purged or skipped; a block limit it alone reaches also purges an L2 transaction.
RejectL2 ==
    /\ bbStage = "execute" /\ Offered # << >> /\ Offered[1][1] = "l2"
    /\ bbBlock' = [bbBlock EXCEPT !.tried = TRUE,
                                  !.rest = IF @ = << >> THEN @ ELSE Tail(@)]
    /\ mpStream' = Offered[2]
    /\ UNCHANGED <<evVars, mpUp, mpRoots, mpFee, mpL1, mpFail, bbStage,
                   bbWal, bbNext, bbTo, bbRebuild, bbLast, bbCrashes>>

SealAtLimit ==
    /\ bbStage = "execute" /\ Offered # << >>
    /\ MustExclude(Offered[1]) \/ MayHitLimit(Offered[1])
    /\ Sealed
    /\ UNCHANGED <<evVars, mpUp, mpRoots, mpFee, mpL1, mpFail, bbBlock,
                   bbWal, bbNext, bbTo, bbRebuild, bbLast, bbCrashes>>

\* The deadline runs from the first attempt; the select is not biased.
Deadline ==
    /\ bbStage = "execute" /\ bbBlock.tried
    /\ Sealed
    /\ UNCHANGED <<evVars, mpUp, mpRoots, mpFee, mpL1, mpFail, bbBlock,
                   bbWal, bbNext, bbTo, bbRebuild, bbLast, bbCrashes>>

(***************************************************************************)
(* on_canonical_state_change of the provider and the pool, then the block  *)
(* goes down the pipeline; the next command waits for it to be applied.    *)
(***************************************************************************)
\* Mutant: a cursor names the last input consumed instead of the next.
MutNextCursors ==
    LET l1 == OfKind(bbBlock.txs, "l1")
    IN  [bbBlock.cur EXCEPT !.l1 = IF l1 = << >> THEN @ ELSE Last(l1)[2][1]]

NextCursors ==
    LET l1 == OfKind(bbBlock.txs, "l1")
        roots == OfKind(bbBlock.txs, "root")
        fees == OfKind(bbBlock.txs, "fee")
    IN  [l1 |-> IF l1 = << >> THEN bbBlock.cur.l1 ELSE Last(l1)[2][1] + 1,
         root |-> IF roots = << >> THEN bbBlock.cur.root ELSE Last(Last(roots)[2]) + 1,
         fee |-> IF fees = << >> THEN bbBlock.cur.fee ELSE Last(fees)[2][2] + 1]

OnCanonicalStateChange ==
    LET up == UpgradeUpdate(bbBlock.ver, OfKind(bbBlock.txs, "up"))
        roots == RootsUpdate(OfKind(bbBlock.txs, "root"))
        fee == FeeUpdate(OfKind(bbBlock.txs, "fee"), bbBlock.strict)
        l1 == L1Update(OfKind(bbBlock.txs, "l1"))
        fails == {x \in {<<"up", up.fail>>, <<"root", roots.fail>>, <<"fee", fee.fail>>,
                         <<"l1", l1.fail>>} : x[2]}
    IN  /\ bbStage = "canonical"
        /\ OfKind(bbBlock.txs, "l1") # << >> => mpL1.held = << >>
        /\ IF fails # {}
           THEN /\ mpFail' = (CHOOSE x \in fails : TRUE)[1]
                /\ bbStage' = "failed"
                /\ UNCHANGED <<mpUp, mpRoots, mpFee, mpL1, bbLast>>
           ELSE /\ ~up.wait /\ ~roots.wait /\ ~fee.wait /\ ~l1.wait
                /\ mpUp' = [cur |-> up.cur, pend |-> up.pend]
                /\ mpRoots' = roots.roots /\ mpFee' = fee.fee
                /\ mpL1' = [mpL1 EXCEPT !.pend = l1.pend]
                /\ bbLast' = [ver |-> bbBlock.ver, cur |-> NextCursors,
                              roots |-> OfKind(bbBlock.txs, "root") # << >>]
                /\ bbStage' = "persist"
                /\ UNCHANGED mpFail
        /\ UNCHANGED <<evVars, mpStream, bbWal, bbNext, bbTo, bbRebuild, bbBlock, bbCrashes>>

Persist ==
    /\ bbStage = "persist"
    /\ LET rec == [ver |-> bbBlock.ver, txs |-> bbBlock.txs, cur |-> bbBlock.cur]
       IN  bbWal' = IF bbNext <= Len(bbWal) THEN [bbWal EXCEPT ![bbNext] = rec]
                    ELSE Append(bbWal, rec)
    /\ bbNext' = bbNext + 1
    /\ bbBlock' = NoBuilding
    /\ bbStage' = "command"
    /\ UNCHANGED <<evVars, mpVars, bbTo, bbRebuild, bbLast, bbCrashes>>

Rebuilds ==
    IF evCase.rebuild
    THEN {NoRebuild} \cup {[from |-> f, empty |-> e] : f \in 1..Len(bbWal), e \in SUBSET (1..Len(bbWal))}
    ELSE {NoRebuild}

UpdateFees ==
    LET fees == FlattenSeq([n \in DOMAIN bbWal |-> OfKind(bbWal[n].txs, "fee")])
    IN  /\ bbStage \notin {"down", "failed"} /\ evCase.fees /\ UNCHANGED bbVars
        /\ \E target \in MpFees : UpdateFee(IF fees = << >> THEN 0 ELSE Last(fees)[2][1], target)

Watching ==
    /\ UNCHANGED bbVars
    /\ \/ (MineL1 \/ \E w \in Watchers : Scan(w) \/ SkipEvent(w)) /\ UNCHANGED mpVars
       \/ InsertUpgrade \/ AddRoot \/ InsertL1 \/ FinishInsertL1

Preparing == ReplayGenesis \/ Replay \/ Rebuild \/ Produce \/ DelayOver
Choosing == ChooseUpgrade \/ SeePatch \/ ChooseInterop \/ ChooseL1L2
Executing == ExecuteTx \/ RejectL2 \/ SealAtLimit \/ Deadline
Updating == OnCanonicalStateChange \/ Persist

BuildingNext ==
    \/ \E first \in 0..evCase.blocks : \E rebuild \in Rebuilds : Start(first, rebuild)
    \/ Crash \/ UpdateFees \/ Watching
    \/ Preparing \/ Choosing \/ Executing \/ Updating

\* The watchers and the executor are tasks of the runtime: what they can do
\* they do.  Nothing is assumed of users, of the fee updater or of a start.
BuildingSpec ==
    /\ BuildingInit /\ [][BuildingNext]_<<evVars, mpVars, bbVars>>
    /\ WF_<<evVars, mpVars, bbVars>>(Watching)
    /\ WF_<<evVars, mpVars, bbVars>>(Updating)

(***************************************************************************)
(* Properties.                                                             *)
(***************************************************************************)
TxsUpTo(n) == FlattenSeq([i \in 1..n |-> bbWal[i].txs])
Settled == IF bbStage = "down" \/ bbNext > bbTo THEN Len(bbWal) ELSE Max({bbNext - 1, 0})
Ids(txs, k) == LET of == OfKind(txs, k) IN FlattenSeq([i \in DOMAIN of |-> of[i][2]])
Upto(n) == [i \in 1..n |-> i - 1]

\* The canonical update's assertions hold: what a block consumes from a subpool
\* is what its stream gave out, over restarts, replays and rebuilds
\* (assert_eq! in l1.rs, interop_roots.rs, interop_fee.rs, upgrade.rs).
PoolConsistent == mpFail = "no"

\* L1 inputs enter the chain exactly once and in order, whatever was lost with
\* a crash or dropped by a rebuild: priority ids and interop roots are numbered
\* without gaps over the chain, each record starts with the cursors its
\* predecessors leave, and the version never goes back (starting_cursors of
\* ReplayRecord, BlockContextProvider).
InputsInOrder ==
    \A n \in 1..Settled :
        LET before == TxsUpTo(n - 1) IN
        LET after == TxsUpTo(n) IN
        /\ \A k \in {"l1", "root"} : Ids(after, k) = Upto(Len(Ids(after, k)))
        /\ bbWal[n].cur.l1 = Len(Ids(before, "l1"))
        /\ bbWal[n].cur.root = Len(Ids(before, "root"))
        /\ n > 1 => bbWal[n].ver >= bbWal[n - 1].ver
        /\ Minor(bbWal[n].ver) # Minor(RecordAt(n - 1).ver)
               => Head(bbWal[n].txs) = <<"up", <<bbWal[n].ver>>>>

\* A canonical update ends: the inputs it pops arrive, and the watcher that
\* holds the L1 subpool's lock for a full channel lets go of it.
UpdateEnds == (bbStage = "canonical") ~> (bbStage # "canonical")

\* The settlement layer's chain id is set exactly once: in the first block of
\* v31 or later (comment of BlockContextProvider::produce).
SetSLChainIdOnce ==
    (bbStage = "command" /\ \E n \in DOMAIN bbWal : PostV31(bbWal[n].ver))
        => Len(OfKind(TxsUpTo(Len(bbWal)), "sl")) = 1
=============================================================================
