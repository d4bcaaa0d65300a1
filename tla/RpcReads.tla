------------------------------ MODULE RpcReads ------------------------------
(***************************************************************************)
(* The reading side of the JSON-RPC server (lib/rpc/src): how a block tag  *)
(* is resolved (rpc_storage.rs), and the eth_, ots_, zks_ and debug_       *)
(* methods that then read blocks, contexts and states, while the node's    *)
(* pipeline keeps adding blocks.                                           *)
(*                                                                         *)
(* A block reaches the readers in four steps, in this order: the executor  *)
(* takes its transactions out of the pool, the applier writes the replay   *)
(* record, then the state, then the repository.  A method makes several    *)
(* reads, and each one is a step, so the pipeline may move between two of  *)
(* them.  A state, a context or a base fee is named by its block number;   *)
(* transactions are numbered by their nonce and all have one sender.       *)
(***************************************************************************)
EXTENDS Integers, Sequences, SequencesExt, FiniteSets, FiniteSetsExt

CONSTANTS
  RrMaxBlock,   \* bound: blocks produced
  RrMaxTxs,     \* bound: transactions submitted
  RrLead,       \* bound: blocks the executor runs ahead of the applier
  RrBatchSize,  \* blocks in a batch
  RrPage,       \* page size asked for by the Otterscan client
  RrScan,       \* MAX_BLOCKS_TO_SCAN
  RrAhead,      \* TRUE for an external node: L1 may be ahead of its blocks
  RrTags        \* the block ids asked for

VARIABLES
  rrBlocks,   \* blocks executed: the transactions of each
  rrWal,      \* latest replay record
  rrState,    \* latest block of the state
  rrRepo,     \* latest block of the repository
  rrCtx,      \* last_constructed_block_context: its block number, or 0
  rrPool,     \* transactions in the L2 pool
  rrSent,     \* transactions accepted so far
  rrSafe, rrFinal,  \* finality status: last committed, last executed block
  rrBatch,    \* last executed batch persisted
  rrCall,     \* the call being served, or the last one answered
  rrPaging    \* what an Otterscan client has collected so far

rrVars == <<rrBlocks, rrWal, rrState, rrRepo, rrCtx, rrPool, rrSent, rrSafe,
            rrFinal, rrBatch, rrCall, rrPaging>>

chainVars == <<rrBlocks, rrWal, rrState, rrRepo, rrCtx, rrPool, rrSent, rrSafe,
               rrFinal, rrBatch>>

Tag(t) == [t |-> t, n |-> 0]
Numbered(n) == [t |-> "number", n |-> n]

NoCall == [kind |-> "none", tag |-> Tag("latest"), pc |-> "done", from |-> 0,
           num |-> 0, ctx |-> 0, st |-> 0, out |-> <<>>]

NotPaging == [on |-> FALSE, cursor |-> 0, top |-> 0, got |-> <<>>]

TxsOf(n) == IF n = 0 THEN <<>> ELSE rrBlocks[n]

\* The nonce of the sender in the state after block n.
NonceAt(n) == FoldLeft(LAMBDA sum, txs : sum + Len(txs), 0, SubSeq(rrBlocks, 1, n))

Executed == Len(rrBlocks)

BatchLast(k) == k * RrBatchSize
BatchBlocks(k) == (k - 1) * RrBatchSize + 1 .. BatchLast(k)

-----------------------------------------------------------------------------
(* The pipeline.                                                           *)

SubmitTx ==
  /\ rrSent < RrMaxTxs
  /\ rrSent' = rrSent + 1
  /\ rrPool' = rrPool \cup {rrSent + 1}
  /\ UNCHANGED <<rrBlocks, rrWal, rrState, rrRepo, rrCtx, rrSafe, rrFinal,
                 rrBatch, rrCall, rrPaging>>

\* The context of the next block is published before the block is built.
ConstructContext ==
  /\ Executed < RrMaxBlock
  /\ Executed - rrRepo < RrLead
  /\ rrCtx' = Executed + 1
  /\ rrCtx' # rrCtx
  /\ UNCHANGED <<rrBlocks, rrWal, rrState, rrRepo, rrPool, rrSent, rrSafe,
                 rrFinal, rrBatch, rrCall, rrPaging>>

\* BlockExecutor: the block takes the lowest nonces of the pool, and the pool
\* is told at once.
ExecuteBlock ==
  /\ rrCtx = Executed + 1
  /\ \E k \in 0 .. Cardinality(rrPool) :
       LET txs == [i \in 1 .. k |-> NonceAt(Executed) + i]
       IN /\ rrBlocks' = Append(rrBlocks, txs)
          /\ rrPool' = rrPool \ Range(txs)
  /\ UNCHANGED <<rrWal, rrState, rrRepo, rrCtx, rrSent, rrSafe, rrFinal,
                 rrBatch, rrCall, rrPaging>>

\* BlockApplier: one block at a time, record, state, repository.
ApplyBlock ==
  /\ \/ /\ rrWal = rrRepo
        /\ rrWal < Executed
        /\ rrWal' = rrWal + 1
        /\ UNCHANGED <<rrState, rrRepo>>
     \/ /\ rrState < rrWal
        /\ rrState' = rrWal
        /\ UNCHANGED <<rrWal, rrRepo>>
     \/ /\ rrRepo < rrState
        /\ rrRepo' = rrState
        /\ UNCHANGED <<rrWal, rrState>>
  /\ UNCHANGED <<rrBlocks, rrCtx, rrPool, rrSent, rrSafe, rrFinal, rrBatch,
                 rrCall, rrPaging>>

\* L1: batches are committed, executed and then persisted in order.
Settle ==
  /\ \/ /\ rrSafe + RrBatchSize <= IF RrAhead THEN RrMaxBlock ELSE rrRepo
        /\ rrSafe' = rrSafe + RrBatchSize
        /\ UNCHANGED <<rrFinal, rrBatch>>
     \/ /\ rrFinal < rrSafe
        /\ rrFinal' = rrFinal + RrBatchSize
        /\ UNCHANGED <<rrSafe, rrBatch>>
     \/ /\ BatchLast(rrBatch + 1) <= rrFinal
        /\ rrBatch' = rrBatch + 1
        /\ UNCHANGED <<rrSafe, rrFinal>>
  /\ UNCHANGED <<rrBlocks, rrWal, rrState, rrRepo, rrCtx, rrPool, rrSent,
                 rrCall, rrPaging>>

-----------------------------------------------------------------------------
(* ReadRpcStorage.                                                         *)

MutResolve(tag) ==
  CASE tag.t \in {"latest", "pending"} -> rrWal
    [] tag.t = "safe"      -> rrSafe
    [] tag.t = "finalized" -> rrFinal
    [] tag.t = "earliest"  -> 0
    [] tag.t = "number"    -> tag.n

\* resolve_block_hash_or_number: no check that the block exists.
Resolve(tag) ==
  CASE tag.t \in {"latest", "pending"} -> rrRepo
    [] tag.t = "safe"      -> rrSafe
    [] tag.t = "finalized" -> rrFinal
    [] tag.t = "earliest"  -> 0
    [] tag.t = "number"    -> tag.n

HasBlock(n) == n <= rrRepo
HasContext(n) == n <= rrWal
HasState(n) == n <= rrState

\* state_at_block_number_or_latest: the newest state when the block has none.
StateOrLatest(n) == IF HasState(n) THEN n ELSE rrState

-----------------------------------------------------------------------------
(* Calls.  A handler starts with Begin and then takes its reads in order.  *)
(* Reads leave nothing behind, so a behaviour makes one call (or one       *)
(* client's sequence of pages), at any moment of the pipeline's run.       *)

Begin(kind, tag, pc) ==
  /\ rrCall = NoCall
  /\ rrCall' = [NoCall EXCEPT !.kind = kind, !.tag = tag, !.pc = pc, !.from = rrRepo,
                              !.num = IF kind = "tx" THEN rrSent ELSE 0]
  /\ UNCHANGED <<chainVars, rrPaging>>

At(kind, pc) == rrCall.kind = kind /\ rrCall.pc = pc

Reply(call) ==
  /\ rrCall' = call
  /\ UNCHANGED <<chainVars, rrPaging>>

Failed == [rrCall EXCEPT !.pc = "failed"]
IfFound(found, call) == IF found THEN call ELSE Failed

StartCall ==
  \/ \E tag \in RrTags, kind \in {"state", "count", "call", "simulate", "fees",
                                  "trace", "block"} :
       Begin(kind, tag, "resolve")
  \/ \E tx \in 1 .. RrMaxTxs, kind \in {"tx", "receipts"} :
       Begin(kind, Numbered(tx), "resolve")
  \/ \E tx \in 1 .. RrMaxTxs : Begin("logproof", Numbered(tx), "resolve")
  \/ \E k \in 1 .. RrMaxBlock \div RrBatchSize : Begin("proof", Numbered(k), "resolve")
  \/ \E n \in 1 .. RrMaxBlock : Begin("tree", Numbered(n), "count")
  \/ \E n \in 0 .. RrMaxBlock, kind \in {"after", "pages"} : Begin(kind, Numbered(n), "resolve")

\* eth_getBalance, eth_getStorageAt, eth_getCode, ots_hasCode.
ReadState ==
  \/ /\ At("state", "resolve")
     /\ Reply([rrCall EXCEPT !.num = Resolve(rrCall.tag), !.pc = "view"])
  \/ /\ At("state", "view")
     /\ Reply(IfFound(HasState(rrCall.num),
                      [rrCall EXCEPT !.st = rrCall.num, !.pc = "done"]))

\* eth_getBlockBy*, block receipts and transaction counts, ots block details.
\* The transactions and receipts of a block become readable with the block.
BlockById ==
  /\ At("block", "resolve")
  /\ LET n == Resolve(rrCall.tag)
     IN Reply(IfFound(HasBlock(n), [rrCall EXCEPT !.num = n, !.out = TxsOf(n), !.pc = "done"]))

\* eth_getTransactionCount: the state's nonce, then the pool for `pending`.
TransactionCount ==
  \/ /\ At("count", "resolve")
     /\ LET n == Resolve(rrCall.tag)
        IN Reply(IfFound(HasState(n),
                   [rrCall EXCEPT !.num = n, !.st = NonceAt(n),
                                  !.pc = IF rrCall.tag.t = "pending" THEN "pool" ELSE "done"]))
  \/ /\ At("count", "pool")
     /\ LET run == {i \in rrPool : rrCall.st + 1 .. i \subseteq rrPool /\ i > rrCall.st}
        IN Reply([rrCall EXCEPT !.st = IF run = {} THEN @ ELSE Max(run), !.pc = "done"])

\* eth_getTransactionByHash and its raw and by-nonce variants: pool first.
TransactionByHash ==
  \/ /\ At("tx", "resolve")
     /\ Reply(IF rrCall.tag.n \in rrPool
                THEN [rrCall EXCEPT !.out = <<rrCall.tag.n>>, !.pc = "done"]
                ELSE [rrCall EXCEPT !.pc = "repo"])
  \/ /\ At("tx", "repo")
     /\ Reply([rrCall EXCEPT !.out = IF \E n \in 1 .. rrRepo : rrCall.tag.n \in Range(TxsOf(n))
                                       THEN <<rrCall.tag.n>> ELSE <<>>,
                             !.pc = "done"])

\* eth_getTransactionReceipt: the repository only.
TransactionReceipt ==
  /\ At("receipts", "resolve")
  /\ Reply([rrCall EXCEPT !.out = IF \E n \in 1 .. rrRepo : rrCall.tag.n \in Range(TxsOf(n))
                                    THEN <<rrCall.tag.n>> ELSE <<>>,
                          !.pc = "done"])

\* resolve_block_context, then the state the call runs on.
EthCall ==
  \/ /\ At("call", "resolve")
     /\ rrCall.tag.t # "pending"
     /\ Reply([rrCall EXCEPT !.num = Resolve(rrCall.tag), !.pc = "context"])
  \/ /\ At("call", "context")
     /\ Reply(IfFound(HasContext(rrCall.num),
                      [rrCall EXCEPT !.ctx = rrCall.num, !.pc = "view"]))
  \/ /\ At("call", "resolve")
     /\ rrCall.tag.t = "pending"
     /\ Reply([rrCall EXCEPT !.num = rrWal, !.pc = "pending"])
  \/ /\ At("call", "pending")
     /\ Reply(IF rrCtx > rrCall.num
                THEN [rrCall EXCEPT !.ctx = rrCtx, !.pc = "view"]
                ELSE [rrCall EXCEPT !.pc = "build"])
  \/ /\ At("call", "build")
     /\ Reply([rrCall EXCEPT !.ctx = rrWal + 1, !.pc = "view"])
  \/ /\ At("call", "view")
     /\ Reply([rrCall EXCEPT !.st = StateOrLatest(rrCall.ctx), !.pc = "done"])

\* eth_simulateV1: where the first simulated block starts from.
Simulate ==
  \/ /\ At("simulate", "resolve")
     /\ rrCall.tag.t \in {"latest", "pending"}
     /\ Reply([rrCall EXCEPT !.num = rrWal, !.pc = "build"])
  \/ /\ At("simulate", "build")
     /\ Reply([rrCall EXCEPT !.ctx = rrWal + 1, !.pc = "view"])
  \/ /\ At("simulate", "resolve")
     /\ rrCall.tag.t \notin {"latest", "pending"}
     /\ LET n == Resolve(rrCall.tag)
        IN Reply(IfFound(HasContext(n) /\ HasBlock(n),
                         [rrCall EXCEPT !.num = n, !.ctx = n + 1, !.pc = "view"]))
  \/ /\ At("simulate", "view")
     /\ Reply(IfFound(HasState(rrCall.num),
                      [rrCall EXCEPT !.st = rrCall.num, !.pc = "done"]))

\* eth_feeHistory for RrPage blocks: the base fee of each, then of the next.
FeeHistory ==
  \/ /\ At("fees", "resolve")
     /\ Reply([rrCall EXCEPT !.num = Resolve(rrCall.tag), !.pc = "contexts"])
  \/ /\ At("fees", "contexts")
     /\ LET end == rrCall.num
            count == Min({end + 1, RrPage})
        IN Reply(IfFound(HasContext(end),
             [rrCall EXCEPT !.out = [i \in 1 .. count |-> end + i - count], !.pc = "next"]))
  \/ /\ At("fees", "next")
     /\ LET next == rrCall.num + 1
        IN Reply([rrCall EXCEPT !.pc = "done",
                    !.out = Append(@, IF HasContext(next) \/ rrCtx = next THEN next ELSE next - 1)])

\* debug_traceBlockBy*: the block, its context, its parent's state.
TraceBlock ==
  \/ /\ At("trace", "resolve")
     /\ LET n == Resolve(rrCall.tag)
        IN Reply(IfFound(HasBlock(n),
                   [rrCall EXCEPT !.num = n, !.pc = IF n = 0 THEN "done" ELSE "view"]))
  \/ /\ At("trace", "view")
     /\ Reply(IfFound(HasContext(rrCall.num) /\ HasState(rrCall.num - 1),
                [rrCall EXCEPT !.ctx = rrCall.num, !.st = rrCall.num - 1,
                               !.out = TxsOf(rrCall.num), !.pc = "done"]))

\* zks_getL2ToL1LogProof: the batch of the transaction's block, then the logs
\* of every block of it (one per transaction); num is the log's index.
LogProof ==
  \/ /\ At("logproof", "resolve")
     /\ LET found == {n \in 1 .. rrRepo : rrCall.tag.n \in Range(TxsOf(n))}
        IN Reply(IF found = {} \/ Max({0} \cup found) > BatchLast(rrBatch)
                   THEN [rrCall EXCEPT !.pc = "done"]
                   ELSE [rrCall EXCEPT !.ctx = (Max(found) - 1) \div RrBatchSize + 1,
                                       !.pc = "leaves"])
  \/ /\ At("logproof", "leaves")
     /\ LET blocks == SetToSortSeq(BatchBlocks(rrCall.ctx), <)
            leaves == FlattenSeq([i \in 1 .. Len(blocks) |-> TxsOf(blocks[i])])
            last == BatchLast(rrCall.ctx)
        IN Reply(IF HasBlock(last) /\ HasState(last)
                   THEN [rrCall EXCEPT !.out = leaves, !.st = last, !.pc = "done",
                           !.num = CHOOSE i \in 1 .. Len(leaves) : leaves[i] = rrCall.tag.n]
                   ELSE Failed)

\* zks_getProof: the state commitment of a persisted batch's last block.
StorageProof ==
  /\ At("proof", "resolve")
  /\ LET k == rrCall.tag.n
         last == BatchLast(k)
     IN Reply(IF k > rrBatch THEN [rrCall EXCEPT !.pc = "done"]
              ELSE IfFound(HasContext(last) /\ HasBlock(last),
                           [rrCall EXCEPT !.num = last, !.st = last, !.pc = "done"]))

\* zks_getImt*: leafCount and each leafAt is an eth_call of its own at block n.
\* A block adds one leaf, so the state after block s has s + 1 leaves; out
\* collects the state every leaf was read from.
ReadTree ==
  \/ /\ At("tree", "count")
     /\ Reply(IfFound(HasContext(rrCall.tag.n),
                      [rrCall EXCEPT !.st = StateOrLatest(rrCall.tag.n), !.pc = "leaves"]))
  \/ /\ At("tree", "leaves")
     /\ Reply([rrCall EXCEPT !.out = Append(@, StateOrLatest(rrCall.tag.n)),
                             !.pc = IF Len(rrCall.out) = rrCall.st THEN "done" ELSE "leaves"])

-----------------------------------------------------------------------------
(* ots_searchTransactions*.                                                *)

Least(a, b) == IF a < b THEN a ELSE b

MutScan(blocks) ==
  LET step(acc, n) ==
        IF acc.stop THEN acc
        ELSE IF Len(acc.txs) >= RrPage THEN [acc EXCEPT !.more = TRUE, !.stop = TRUE]
        ELSE IF HasBlock(n)
          THEN [acc EXCEPT !.txs = SubSeq(@ \o TxsOf(n), 1, Least(RrPage, Len(@) + Len(TxsOf(n))))]
        ELSE [acc EXCEPT !.stop = TRUE]
  IN FoldLeft(step, [txs |-> <<>>, more |-> FALSE, stop |-> FALSE], blocks)

\* search_transactions_impl: whole blocks until the page is full.
Scan(blocks) ==
  LET step(acc, n) ==
        IF acc.stop THEN acc
        ELSE IF Len(acc.txs) >= RrPage THEN [acc EXCEPT !.more = TRUE, !.stop = TRUE]
        ELSE IF HasBlock(n) THEN [acc EXCEPT !.txs = @ \o TxsOf(n)]
        ELSE [acc EXCEPT !.stop = TRUE]
  IN FoldLeft(step, [txs |-> <<>>, more |-> FALSE, stop |-> FALSE], blocks)

Downwards(lo, hi) == SetToSortSeq(lo .. hi - 1, >)

\* search_transactions_before_impl, called again from the block of the last
\* transaction it returned until it says the page is the last.
SearchBefore ==
  LET first == ~rrPaging.on
      upper == IF first THEN rrRepo + 1 ELSE rrPaging.cursor
      lower == IF upper > RrScan THEN upper - RrScan ELSE 0
      page == Scan(Downwards(lower, upper))
      got == IF first THEN page.txs ELSE rrPaging.got \o page.txs
  IN /\ rrCall = NoCall \/ rrPaging.on
     /\ rrCall' = [NoCall EXCEPT !.kind = "before", !.from = rrRepo]
     /\ rrPaging' = [on |-> page.more,
                     cursor |-> IF page.txs = <<>> THEN 0
                                ELSE CHOOSE n \in 1 .. rrRepo : Last(page.txs) \in Range(TxsOf(n)),
                     top |-> IF first THEN rrRepo ELSE rrPaging.top,
                     got |-> got]
     /\ UNCHANGED chainVars

\* get_block_transactions_impl, page by page (ctx is the page number) until
\* the client has asked for as many pages as transaction_count fills.
BlockTransactions ==
  LET n == Resolve(rrCall.tag)
      count == Len(TxsOf(n))
      saturating(a, b) == IF a > b THEN a - b ELSE 0
      pageEnd == saturating(count, rrCall.ctx * RrPage)
      pageStart == saturating(pageEnd, RrPage)
      page == SubSeq(TxsOf(n), pageStart + 1, Least(pageStart + RrPage, count))
  IN /\ At("pages", "resolve")
     /\ Reply(IfFound(HasBlock(n),
          IF rrCall.ctx * RrPage >= count
            THEN [rrCall EXCEPT !.num = n, !.pc = "done"]
            ELSE [rrCall EXCEPT !.num = n, !.ctx = @ + 1, !.out = page \o @]))

\* search_transactions_after_impl: the upper bound, the latest block, is left
\* out of the range.
SearchAfter ==
  \/ /\ At("after", "resolve")
     /\ Reply([rrCall EXCEPT !.num = Resolve(rrCall.tag) + 1, !.pc = "scan"])
  \/ /\ At("after", "scan")
     /\ LET upper == Least(rrCall.num + RrScan, rrRepo)
            page == Scan(SetToSortSeq(rrCall.num .. upper - 1, <))
        IN Reply([rrCall EXCEPT !.out = Reverse(page.txs), !.pc = "done"])

-----------------------------------------------------------------------------
ReadsInit ==
  /\ rrBlocks = <<>>
  /\ rrWal = 0 /\ rrState = 0 /\ rrRepo = 0 /\ rrCtx = 0
  /\ rrPool = {} /\ rrSent = 0
  /\ rrSafe = 0 /\ rrFinal = 0 /\ rrBatch = 0
  /\ rrCall = NoCall
  /\ rrPaging = NotPaging

ReadsNext ==
  \/ SubmitTx \/ ConstructContext \/ ExecuteBlock \/ ApplyBlock \/ Settle
  \/ StartCall \/ ReadState \/ BlockById \/ TransactionCount \/ TransactionByHash
  \/ TransactionReceipt \/ EthCall \/ Simulate \/ FeeHistory \/ TraceBlock
  \/ LogProof \/ StorageProof \/ ReadTree \/ SearchBefore \/ SearchAfter
  \/ BlockTransactions

-----------------------------------------------------------------------------
(* Properties.                                                             *)

Over == rrCall.pc \in {"done", "failed"}
Answered(kind) == rrCall.kind = kind /\ rrCall.pc = "done"

\* A method asked for "latest" is always served, whatever the pipeline does
\* between its reads, and its block is one that was latest during the call;
\* its context and its state are those of that block.  A pending call runs on
\* a context newer than every block seen and on a state that is not older than
\* the latest block when it began.  A fee history is contiguous, and a log
\* proof is over exactly the logs of its batch, at the transaction's index.
\* (The repository is written last, and resolve_block_hash_or_number reads it.)
AnswersMatchChain ==
  LET c == rrCall
  IN /\ (Over /\ c.tag.t = "latest" /\ c.kind \notin {"none", "before", "simulate"})
          => c.pc = "done" /\ c.from <= c.num /\ c.num <= rrRepo
     /\ Answered("call") /\ c.tag.t # "number"
          => IF c.tag.t = "pending" THEN c.from < c.ctx /\ c.from <= c.st /\ c.st <= c.ctx
             ELSE c.ctx = c.num /\ (RrAhead \/ c.st = c.num)
     /\ Answered("fees") => /\ \A i \in 1 .. Len(c.out) - 2 : c.out[i + 1] = c.out[i] + 1
                            /\ c.out[Len(c.out) - 1] = c.num
                            /\ Last(c.out) \in {c.num, c.num + 1}
     /\ Answered("simulate") /\ c.tag.t \notin {"latest", "pending"} => c.ctx = c.st + 1
     /\ Answered("logproof") /\ c.out # <<>>
          => /\ c.out[c.num] = c.tag.n
             /\ Range(c.out) = UNION {Range(rrBlocks[n]) : n \in BatchBlocks(c.ctx)}

\* An Otterscan client that pages back from the tip with searchTransactions-
\* Before, each time from the block of the last transaction it got, sees every
\* transaction up to the block that was latest when it began exactly once,
\* blocks added meanwhile included or not.
PagesComplete ==
  rrCall.kind = "before" /\ ~rrPaging.on
    => /\ Range(rrPaging.got) = UNION {Range(rrBlocks[n]) : n \in 1 .. rrPaging.top}
       /\ Cardinality(Range(rrPaging.got)) = Len(rrPaging.got)

\* ots_getBlockTransactions "Get paginated transactions for a certain block"
\* (rpc_api/src/ots.rs): the pages of a block are its transactions, each once.
BlockPagesPartition ==
  Answered("pages") => rrCall.out = TxsOf(rrCall.num)

\* eth_getTransactionByHash finds every transaction accepted before the call
\* ("Look up in mempool first to avoid race condition", eth_impl.rs).
AcceptedTxFound ==
  Answered("tx") /\ rrCall.tag.n <= rrCall.num => rrCall.out # <<>>

=============================================================================
