----------------------------- MODULE L1Account ------------------------------
(***************************************************************************)
(* The settlement layer as one sender of the node sees it through its RPC  *)
(* endpoint: the transactions of the operator's account, mined and pooled, *)
(* and the chain contract that accepts batches in order.                   *)
(*                                                                         *)
(* This part is external to the repository. It is what the code in         *)
(* lib/l1_sender relies on: single-use nonces, inclusion in nonce order,   *)
(* replacement only at a higher fee, eviction, reorganisation above the    *)
(* confirmation depth, and the contract's check of the batch chain.        *)
(*                                                                         *)
(* Fees are counted in replacement bumps: a transaction replaces another   *)
(* one at its nonce when it has been bumped over it.                       *)
(***************************************************************************)
EXTENDS Naturals, Sequences

CONSTANTS
    MaxBatch,      \* bound: number of the last batch
    MaxNonce,      \* bound: nonces the account may use
    MaxFee,        \* bound: replacement bumps
    MaxEvictions,  \* bound: evictions from the pool
    MaxReorgs,     \* bound: mined transactions that a reorganisation takes back
    Contents,      \* contents a batch may have been sealed with
    Genesis,       \* content of batch 0
    NoTx           \* no transaction

ASSUME MaxBatchAssumption == MaxBatch \in Nat
ASSUME MaxNonceAssumption == MaxNonce \in Nat \ {0}
ASSUME MaxFeeAssumption == MaxFee \in Nat

VARIABLES
    mined,      \* transactions on the chain: index = nonce + 1
    confirmed,  \* how many of them have required_confirmations
    pool,       \* transaction in the node's pool at each nonce
    floating,   \* evicted transactions that other nodes may still include
    evictions, reorgs

l1Vars == <<mined, confirmed, pool, floating, evictions, reorgs>>

-----------------------------------------------------------------------------

Batches == 1 .. MaxBatch
Nonces == 0 .. MaxNonce - 1

\* Calldata: a batch of some content on top of the content of the one before.
Call == [batch: Batches, content: Contents, prev: Contents \cup {Genesis}]

Tx == [call: Call, fee: 0 .. MaxFee]

Bump(fee) == IF fee < MaxFee THEN fee + 1 ELSE MaxFee

Larger(a, b) == IF a >= b THEN a ELSE b

\* The transactions that the contract did not revert: one for each batch.
Succeeded(txs) == SelectSeq(txs, LAMBDA t : t.ok)

LastCommitted(txs) == Len(Succeeded(txs))

CommittedContent(txs, b) ==
    IF b = 0 THEN Genesis ELSE Succeeded(txs)[b].tx.call.content

\* The contract's check of the batch chain.
Accepts(call) ==
    /\ call.batch = LastCommitted(mined) + 1
    /\ call.prev = CommittedContent(mined, call.batch - 1)

-----------------------------------------------------------------------------
(* What the RPC endpoint answers.                                          *)

\* eth_getTransactionCount at the latest block.
LatestNonce == Len(mined)

\* eth_getTransactionCount with the pending tag.
PendingNonce ==
    CHOOSE n \in LatestNonce .. MaxNonce :
        /\ n = MaxNonce \/ pool[n] = NoTx
        /\ \A m \in LatestNonce .. n - 1 : pool[m] # NoTx

\* eth_getTransactionBySenderAndNonce.
Landed(n) == IF n < LatestNonce THEN mined[n + 1].tx ELSE pool[n]

\* eth_getTransactionByHash, eth_getTransactionReceipt.
Known(n, tx) == Landed(n) = tx
HasReceipt(n, tx) == n < LatestNonce /\ mined[n + 1].tx = tx

\* eth_sendRawTransaction accepts tx at nonce n.
Admits(n, tx) ==
    /\ n >= LatestNonce
    /\ pool[n] # NoTx => tx.fee > pool[n].fee

\* It refuses tx at nonce n as known or with a nonce error although the same
\* calldata is there already.
AlreadyLanded(n, tx) ==
    /\ Landed(n) # NoTx /\ Landed(n).call = tx.call
    /\ n < LatestNonce \/ Landed(n) = tx

Admit(n, tx) == pool' = [pool EXCEPT ![n] = tx]

-----------------------------------------------------------------------------

L1Init ==
    /\ mined = <<>>
    /\ confirmed = 0
    /\ pool = [n \in Nonces |-> NoTx]
    /\ floating = {}
    /\ evictions = 0
    /\ reorgs = 0

\* A block includes the next transaction of the account.
Mine ==
    /\ LatestNonce < MaxNonce
    /\ \E tx \in {pool[LatestNonce]} \cup
                 {f.tx : f \in {g \in floating : g.nonce = LatestNonce}} :
        /\ tx # NoTx
        /\ mined' = Append(mined, [tx |-> tx, ok |-> Accepts(tx.call)])
    /\ pool' = [pool EXCEPT ![LatestNonce] = NoTx]
    /\ UNCHANGED <<confirmed, floating, evictions, reorgs>>

Confirm ==
    /\ confirmed < Len(mined)
    /\ confirmed' = confirmed + 1
    /\ UNCHANGED <<mined, pool, floating, evictions, reorgs>>

\* The pool drops a transaction. It may have reached other nodes before.
Evict(n) ==
    /\ evictions < MaxEvictions
    /\ pool[n] # NoTx
    /\ pool' = [pool EXCEPT ![n] = NoTx]
    /\ \/ floating' = floating \cup {[nonce |-> n, tx |-> pool[n]]}
       \/ UNCHANGED floating
    /\ evictions' = evictions + 1
    /\ UNCHANGED <<mined, confirmed, reorgs>>

\* A reorganisation returns the last mined transaction to the pool.
Reorg ==
    /\ reorgs < MaxReorgs
    /\ Len(mined) > confirmed
    /\ mined' = SubSeq(mined, 1, Len(mined) - 1)
    /\ pool' = [pool EXCEPT ![Len(mined) - 1] = mined[Len(mined)].tx]
    /\ reorgs' = reorgs + 1
    /\ UNCHANGED <<confirmed, floating, evictions>>

L1Next == Mine \/ Confirm \/ Reorg \/ \E n \in Nonces : Evict(n)

L1TypeOK ==
    /\ mined \in Seq([tx: Tx, ok: BOOLEAN]) /\ Len(mined) <= MaxNonce
    /\ confirmed \in 0 .. Len(mined)
    /\ pool \in [Nonces -> Tx \cup {NoTx}]
    /\ floating \subseteq [nonce: Nonces, tx: Tx]
    /\ evictions \in 0 .. MaxEvictions
    /\ reorgs \in 0 .. MaxReorgs

=============================================================================
