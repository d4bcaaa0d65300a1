---------------------------- MODULE PriorityTree ----------------------------
(***************************************************************************)
(* The priority tree manager (lib/priority_tree and its pipeline step): it *)
(* adds the L1 transactions of every batch to a Merkle tree, sends a proof *)
(* of the batch's range along with the execute command, and, in a second   *)
(* task, trims and persists the tree once the batch's execution is final.  *)
(* A node is a main node, fed by proven batches, or an external node, fed  *)
(* by finality.  A batch is the sequence of the priority-operation counts  *)
(* of its blocks; operation ids are global and start at 0.                 *)
(***************************************************************************)
EXTENDS MiniMerkleTree, FiniteSets

CONSTANTS
  PtMaxBatches,  \* batches of the chain
  PtBlocks,      \* blocks batches are made of: counts of L1 transactions
  PtChannel,     \* 4096: queue between the two tasks
  PtMaxCrashes

VARIABLES
  ptMain,     \* main node, not external node
  ptBatches,  \* sealed batches: blocks' counts
  ptExec,     \* last executed batch
  ptFinal,    \* last batch whose execution is final
  ptProven,   \* main node: next batch the pipeline delivers
  ptTree,     \* merkle_tree
  ptInit,     \* last_executed_batch_on_init
  ptLast,     \* last_processed_batch
  ptQueue,    \* batches queued for keep_caching
  ptDb,       \* persisted: [block, start, cache]; block 0 when empty
  ptSent,     \* execute commands sent: batch -> [items, left, right]
  ptCrashes

ptVars == <<ptMain, ptBatches, ptExec, ptFinal, ptProven, ptTree, ptInit, ptLast, ptQueue,
            ptDb, ptSent, ptCrashes>>

Plus(a, b) == a + b
OpsOf(batch) == FoldLeft(Plus, 0, batch)
OpsBefore(b) == FoldLeft(LAMBDA n, batch : n + OpsOf(batch), 0, SubSeq(ptBatches, 1, b - 1))

\* The hashes of operations first .. first + n - 1.
OpHashes(first, n) == [i \in 1 .. n |-> <<first + i>>]

BlockCount(bs) == FoldLeft(LAMBDA n, batch : n + Len(batch), 0, bs)
LastBlock(b) == BlockCount(SubSeq(ptBatches, 1, b))

\* L1 transactions of blocks 1 .. k of the chain.
OpsUpToBlock(k) ==
  LET blocks == FlattenSeq(ptBatches)
  IN FoldLeft(Plus, 0, SubSeq(blocks, 1, k))

\* PriorityTreeDB::init_tree, then init: the blocks executed since are added.
LoadedTree(db, exec) ==
  LET base == IF db.block = 0 THEN FromHashes(<<>>, 0) ELSE InitCached(db.start, db.cache)
      first == OpsUpToBlock(db.block)
      last == OpsUpToBlock(LastBlock(exec))
  IN PushHashes(base, OpHashes(first, last - first))

PriorityInit ==
  /\ ptMain \in BOOLEAN
  /\ ptBatches = <<>>
  /\ ptExec = 0 /\ ptFinal = 0 /\ ptProven = 1
  /\ ptTree = FromHashes(<<>>, 0)
  /\ ptInit = 0 /\ ptLast = 0 /\ ptQueue = <<>>
  /\ ptDb = [block |-> 0, start |-> 0, cache |-> <<>>]
  /\ ptSent = <<>>
  /\ ptCrashes = 0

SealBatch ==
  /\ Len(ptBatches) < PtMaxBatches
  /\ \E batch \in PtBlocks : ptBatches' = Append(ptBatches, batch)
  /\ UNCHANGED <<ptMain, ptExec, ptFinal, ptProven, ptTree, ptInit, ptLast, ptQueue, ptDb, ptSent, ptCrashes>>

\* The settlement layer executes a batch whose command a main node has sent;
\* the main node of an external node did so out of sight.
ExecuteOnL1 ==
  /\ ptExec < Len(ptBatches)
  /\ ptMain => ptExec + 1 <= Len(ptSent)
  /\ ptExec' = ptExec + 1
  /\ UNCHANGED <<ptMain, ptBatches, ptFinal, ptProven, ptTree, ptInit, ptLast, ptQueue, ptDb, ptSent, ptCrashes>>

FinalizeOnL1 ==
  /\ ptFinal < ptExec
  /\ ptFinal' = ptFinal + 1
  /\ UNCHANGED <<ptMain, ptBatches, ptExec, ptProven, ptTree, ptInit, ptLast, ptQueue, ptDb, ptSent, ptCrashes>>

\* Passthrough of a batch executed before the node started.
PassThrough ==
  /\ ptMain
  /\ ptProven <= Len(ptBatches)
  /\ ptProven <= ptInit
  /\ ptProven' = ptProven + 1
  /\ UNCHANGED <<ptMain, ptBatches, ptExec, ptFinal, ptTree, ptInit, ptLast, ptQueue, ptDb, ptSent, ptCrashes>>

\* The proof of the batch's range in a tree whose last leaves are the batch's.
ProofOf(tree, b) ==
  LET n == OpsOf(ptBatches[b])
      first == OpsBefore(b) - tree.start
      paths == PathsForRange(tree, first, first + n - 1)
  IN IF n = 0 THEN [items |-> <<>>, left |-> <<>>, right |-> <<>>]
     ELSE [items |-> SubSeq(tree.hashes, first + 1, first + n), left |-> paths.left, right |-> paths.right]

\* prepare_execute_commands: add the next batch's operations, prove them, and
\* tell the other task; the two wait for each other when the queue is full.
ProcessBatch ==
  LET b == ptLast + 1
      tree == PushHashes(ptTree, OpHashes(OpsBefore(b), OpsOf(ptBatches[b])))
  IN /\ b <= Len(ptBatches)
     /\ IF ptMain THEN ptProven > ptInit /\ ptProven = b ELSE b <= ptExec
     /\ Len(ptQueue) < PtChannel
     /\ ptTree' = tree
     /\ ptQueue' = Append(ptQueue, b)
     /\ ptLast' = b
     /\ IF ptMain
          THEN /\ ptProven' = ptProven + 1
               /\ ptSent' = IF b <= Len(ptSent) THEN [ptSent EXCEPT ![b] = ProofOf(tree, b)]
                            ELSE Append(ptSent, ProofOf(tree, b))
          ELSE UNCHANGED <<ptProven, ptSent>>
     /\ UNCHANGED <<ptMain, ptBatches, ptExec, ptFinal, ptInit, ptDb, ptCrashes>>

\* keep_caching: wait for the batch's execution to be final, trim up to its last
\* operation, persist.
MutKeepCaching ==
  /\ ptQueue # <<>>
  /\ Head(ptQueue) <= ptFinal
  /\ ptQueue' = Tail(ptQueue)
  /\ LET b == Head(ptQueue)
         tree == TrimStart(ptTree, OpsBefore(b + 1) - ptTree.start)
     IN IF OpsOf(ptBatches[b]) = 0 THEN UNCHANGED <<ptTree, ptDb>>
        ELSE /\ ptTree' = tree
             /\ ptDb' = [block |-> LastBlock(ptLast), start |-> tree.start, cache |-> tree.cache]
  /\ UNCHANGED <<ptMain, ptBatches, ptExec, ptFinal, ptProven, ptInit, ptLast, ptSent, ptCrashes>>

KeepCaching ==
  /\ ptQueue # <<>>
  /\ Head(ptQueue) <= ptFinal
  /\ ptQueue' = Tail(ptQueue)
  /\ LET b == Head(ptQueue)
         tree == TrimStart(ptTree, OpsBefore(b + 1) - ptTree.start)
     IN IF OpsOf(ptBatches[b]) = 0 THEN UNCHANGED <<ptTree, ptDb>>
        ELSE /\ ptTree' = tree
             /\ ptDb' = [block |-> LastBlock(b), start |-> tree.start, cache |-> tree.cache]
  /\ UNCHANGED <<ptMain, ptBatches, ptExec, ptFinal, ptProven, ptInit, ptLast, ptSent, ptCrashes>>

\* A restart: the tree is loaded and completed up to the executed blocks, and
\* the pipeline delivers batches again from some point it has not executed.
Restart ==
  /\ ptCrashes < PtMaxCrashes
  /\ ptCrashes' = ptCrashes + 1
  /\ ptTree' = LoadedTree(ptDb, ptExec)
  /\ ptInit' = ptExec /\ ptLast' = ptExec
  /\ ptQueue' = <<>>
  /\ \E p \in 1 .. ptExec + 1 : ptProven' = p
  /\ UNCHANGED <<ptMain, ptBatches, ptExec, ptFinal, ptDb, ptSent>>

PriorityNext ==
  \/ SealBatch \/ ExecuteOnL1 \/ FinalizeOnL1
  \/ PassThrough \/ ProcessBatch \/ KeepCaching \/ Restart

PrioritySpec ==
  PriorityInit /\ [][PriorityNext]_ptVars /\ WF_ptVars(SealBatch) /\ WF_ptVars(ExecuteOnL1) /\ WF_ptVars(PassThrough) /\ WF_ptVars(ProcessBatch)

-----------------------------------------------------------------------------
(* Properties.                                                             *)

\* Every execute command carries the batch's own operations, and the root the
\* contract computes from its two paths is the root of the settlement layer's
\* priority tree right after the batch's last operation, however often the tree
\* was trimmed, persisted and reloaded in between.
CommandsVerify ==
  \A b \in 1 .. Len(ptSent) :
    LET n == OpsOf(ptBatches[b])
        first == OpsBefore(b)
        p == ptSent[b]
        all == OpHashes(0, first + n)
    IN n > 0 =>
         /\ p.items = OpHashes(first, n)
         /\ RootOfRange(p.items, first, p.left, p.right) = ReferenceRoot(all, DepthOf(first + n))

\* What keep_caching persisted can always be loaded by init_cached, whose
\* assertions hold, and gives the root of the same operations; the tree in
\* memory never loses a leaf a later range needs.
PersistedTreeLoads ==
  /\ ptDb.block > 0 => /\ CacheFits(ptDb.start, ptDb.cache)
                       /\ ptDb.start = OpsUpToBlock(ptDb.block)
  /\ LET all == OpHashes(0, OpsBefore(ptLast + 1))
     IN /\ MerkleRoot(ptTree) = ReferenceRoot(all, ptTree.depth)
        /\ ptTree.start + Len(ptTree.hashes) = Len(all)

\* Both: the execute commands the priority tree manager produces can be verified,
\* and the tree it keeps for the next ones is whole.
PriorityProofsVerify == PersistedTreeLoads /\ CommandsVerify

=============================================================================
