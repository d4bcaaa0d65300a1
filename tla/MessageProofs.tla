--------------------------- MODULE MessageProofs ---------------------------
(***************************************************************************)
(* The proofs the RPC server puts together for messages: zks_getL2ToL1Log- *)
(* Proof (a path in the tree of a batch's logs, and, when the target is    *)
(* the settlement layer's MessageRoot, a path in the tree of the chain's   *)
(* batch roots, lib/rpc/src/log_proof_utils.rs), and the proofs of the     *)
(* indexed Merkle tree of interop commitments (lib/rpc/src/imt.rs).  The   *)
(* contracts that own the trees are external: they only append.            *)
(***************************************************************************)
EXTENDS MiniMerkleTree, FiniteSets

CONSTANTS
  MpMaxBatches,  \* batches executed on the settlement layer
  MpPerBlock,    \* batches executed in one of its blocks
  MpLogDepth,    \* depth of the log tree, log2 of L2_TO_L1_TREE_SIZE
  MpMaxLogs,     \* logs of a batch
  MpValues,      \* values of commitments, positive
  MpMaxCommits

VARIABLES
  mpBlocks,  \* settlement blocks: how many batches each executed
  mpLeaves,  \* commitment tree: index-ordered leaves [value, nextIndex, nextValue]
  mpAnswer   \* last answer: [kind, ok]

mpVars == <<mpBlocks, mpLeaves, mpAnswer>>

-----------------------------------------------------------------------------
(* The contract's incremental tree of batch roots (external data layout:   *)
(* _nextLeafIndex, _zeros, _sides), as push_to_tree replays it.            *)

EmptyPushTree == [next |-> 0, zeros |-> <<EmptyLeaf>>, sides |-> <<NoHash>>]

\* One level of push_to_tree.
PushLevel(acc, i) ==
  LET left == acc.index % 2 = 0
      sides == IF left /\ ~acc.updated THEN [acc.sides EXCEPT ![i] = acc.hash] ELSE acc.sides
  IN [sides |-> sides, updated |-> acc.updated \/ left, index |-> acc.index \div 2,
      zeros |-> acc.zeros,
      hash |-> IF left THEN Compress(acc.hash, acc.zeros[i]) ELSE Compress(sides[i], acc.hash)]

PushToTree(tree, leaf) ==
  LET grows == tree.next = 2 ^ (Len(tree.zeros) - 1)
      zeros == IF grows THEN Append(tree.zeros, Compress(Last(tree.zeros), Last(tree.zeros))) ELSE tree.zeros
      sides == IF grows THEN Append(tree.sides, NoHash) ELSE tree.sides
      levels == Len(zeros) - 1
      top == FoldLeft(PushLevel,
                      [sides |-> sides, updated |-> FALSE, index |-> tree.next, zeros |-> zeros, hash |-> leaf],
                      [i \in 1 .. levels |-> i])
  IN [next |-> tree.next + 1, zeros |-> zeros, sides |-> [top.sides EXCEPT ![levels + 1] = top.hash]]

\* NodeHashCalculator: the hashes right of the proven leaf, zero beyond the last.
CalcNodeHash(leaves, first, zeros) ==
  LET node[l \in 0 .. MmMaxDepth, i \in 0 .. 2 ^ MmMaxDepth] ==
        IF i > (first + Len(leaves) - 1) \div 2 ^ l THEN zeros[l + 1]
        ELSE IF l = 0 THEN leaves[i - first + 1]
        ELSE Compress(node[l - 1, 2 * i], node[l - 1, 2 * i + 1])
  IN node

\* Levels that hold all leaves, the ones pushed after the proven one included.
MutLevelsWithAllLeaves(tree, newCount, index) ==
  IF tree.next - 1 = 0 THEN 0 ELSE DepthOf(tree.next)

LevelsWithAllLeaves(tree, newCount, index) ==
  LET lastIndex == tree.next + newCount - index - 2
  IN IF lastIndex = 0 THEN 0 ELSE DepthOf(lastIndex + 1)

GrowZeros(zeros, levels) ==
  [i \in 1 .. (IF Len(zeros) > levels THEN Len(zeros) ELSE levels + 1) |->
     IF i <= Len(zeros) THEN zeros[i] ELSE EmptySubtree[i - 1]]

\* calculate_batch_tree_proof, index from 0.
BatchTreeProof(before, new, index) ==
  LET tree == FoldLeft(PushToTree, before, SubSeq(new, 1, index + 1))
      zeros == GrowZeros(tree.zeros, LevelsWithAllLeaves(tree, Len(new), index))
      current == tree.next - 1
      rest == SubSeq(new, index + 2, Len(new))
  IN [l \in 1 .. Len(zeros) - 1 |->
        LET at == current \div 2 ^ (l - 1)
        IN IF at % 2 = 0 THEN CalcNodeHash(rest, current + 1, zeros)[l - 1, at + 1]
           ELSE tree.sides[l]]

-----------------------------------------------------------------------------
(* The indexed Merkle tree, replayed level by level: nodes[l] holds the    *)
(* hashes of level l - 1 that are populated.                               *)

LeafHash(leaf) == <<1 + leaf.value + 20 * leaf.nextIndex + 400 * leaf.nextValue>>
Sentinel == [value |-> 0, nextIndex |-> 0, nextValue |-> 0]

\* zeros[0] is the hash of the pristine sentinel, not the empty leaf.
ImtZero[l \in 0 .. MmMaxDepth] ==
  IF l = 0 THEN LeafHash(Sentinel) ELSE Compress(ImtZero[l - 1], ImtZero[l - 1])

\* FullMerkle.updateLeaf.
UpdateLeaf(tree, start, hash) ==
  LET step(acc, l) ==
        LET right == IF acc.max = acc.index THEN ImtZero[l - 1] ELSE acc.nodes[l][acc.index + 2]
            h == IF acc.index % 2 = 0 THEN Compress(acc.hash, right)
                 ELSE Compress(acc.nodes[l][acc.index], acc.hash)
            up == acc.index \div 2
        IN [nodes |-> [acc.nodes EXCEPT ![l + 1][up + 1] = h],
            index |-> up, max |-> acc.max \div 2, hash |-> h]
      begin == [nodes |-> [tree.nodes EXCEPT ![1][start + 1] = hash],
                index |-> start, max |-> tree.count - 1, hash |-> hash]
  IN [tree EXCEPT !.nodes = FoldLeft(step, begin, [l \in 1 .. tree.height |-> l]).nodes]

\* FullMerkle.pushNewLeaf: grow the height, then a zero on every level that has
\* a new rightmost node.
PushNewLeaf(tree, hash) ==
  LET index == tree.count
      grows == index = 2 ^ tree.height
      height == IF grows THEN tree.height + 1 ELSE tree.height
      nodes == IF grows THEN Append(tree.nodes, <<ImtZero[height]>>) ELSE tree.nodes
      widens(l) == /\ index # 0 /\ l <= height
                   /\ \A k \in 1 .. l : index \div 2 ^ (k - 1) # (index - 1) \div 2 ^ (k - 1)
      wider == FoldLeft(LAMBDA out, l : Append(out, IF widens(l) THEN Append(nodes[l], ImtZero[l - 1])
                                                    ELSE nodes[l]),
                        <<>>, [l \in 1 .. Len(nodes) |-> l])
  IN UpdateLeaf([nodes |-> wider, height |-> height, count |-> index + 1], index, hash)

\* IndexedMerkleTree::new.
ImtNew(leaves) ==
  LET setup == PushNewLeaf([nodes |-> <<<<ImtZero[0]>>>>, height |-> 0, count |-> 0], ImtZero[0])
      head == UpdateLeaf(setup, 0, LeafHash(leaves[1]))
  IN FoldLeft(LAMBDA tree, leaf : PushNewLeaf(tree, LeafHash(leaf)), head, Tail(leaves))

ImtRoot(tree) == tree.nodes[tree.height + 1][1]

\* merkle_path.
MutImtPath(tree, start) ==
  [l \in 1 .. tree.height |->
     LET index == start \div 2 ^ (l - 1)
     IN IF index % 2 = 1 THEN tree.nodes[l][index]
        ELSE IF tree.count - 1 = index THEN ImtZero[l - 1]
        ELSE IF index + 2 > Len(tree.nodes[l]) THEN NoHash
        ELSE tree.nodes[l][index + 2]]

ImtPath(tree, start) ==
  [l \in 1 .. tree.height |->
     LET index == start \div 2 ^ (l - 1)
         max == (tree.count - 1) \div 2 ^ (l - 1)
     IN IF index % 2 = 1 THEN tree.nodes[l][index]
        ELSE IF max = index THEN ImtZero[l - 1] ELSE tree.nodes[l][index + 2]]

FirstIndex(leaves, Test(_)) ==
  IF \E i \in 1 .. Len(leaves) : Test(leaves[i])
    THEN (CHOOSE i \in 1 .. Len(leaves) :
            Test(leaves[i]) /\ \A j \in 1 .. i - 1 : ~Test(leaves[j])) - 1
    ELSE -1

FindValueIndex(leaves, value) == FirstIndex(leaves, LAMBDA l : l.value = value)

FindLowNullifierIndex(leaves, value) ==
  FirstIndex(leaves, LAMBDA l : l.value < value /\ (l.nextValue = 0 \/ value < l.nextValue))

-----------------------------------------------------------------------------
(* Actions.                                                                *)

MessagesInit ==
  /\ mpBlocks = <<>>
  /\ mpLeaves = <<Sentinel>>
  /\ mpAnswer = [kind |-> "none", ok |-> TRUE]

TotalBatches == FoldLeft(LAMBDA n, k : n + k, 0, mpBlocks)

\* The settlement layer executes some batches in one block (external).
SettleBlock ==
  /\ \E n \in 1 .. MpPerBlock :
       /\ TotalBatches + n <= MpMaxBatches
       /\ mpBlocks' = Append(mpBlocks, n)
  /\ UNCHANGED <<mpLeaves, mpAnswer>>

\* L2InteropCommitmentTree inserts a new value behind its low nullifier, whose
\* index it is told; contracts get it from the RPC (external).
Commit ==
  /\ Len(mpLeaves) <= MpMaxCommits
  /\ \E v \in MpValues :
       /\ FindValueIndex(mpLeaves, v) = -1
       /\ LET low == FindLowNullifierIndex(mpLeaves, v) + 1
          IN mpLeaves' = Append([mpLeaves EXCEPT ![low].nextIndex = Len(mpLeaves), ![low].nextValue = v],
                                [value |-> v, nextIndex |-> mpLeaves[low].nextIndex,
                                 nextValue |-> mpLeaves[low].nextValue])
  /\ UNCHANGED <<mpBlocks, mpAnswer>>

BatchHash(b) == <<b>>
OpLeaves(n) == [i \in 1 .. n |-> <<i>>]
Batches(first, last) == [i \in 1 .. last - first + 1 |-> BatchHash(first + i - 1)]

\* get_l2_to_l1_log_proof with the MessageRoot target, for the batch at an index
\* of a settlement block: the tree is read before the block, the leaves from its
\* events; the verifier has the root after the block.
LogProof ==
  /\ \E k \in 1 .. Len(mpBlocks), index \in 0 .. MpPerBlock - 1, logs \in 1 .. MpMaxLogs :
       /\ index < mpBlocks[k]
       /\ LET seen == FoldLeft(LAMBDA n, m : n + m, 0, SubSeq(mpBlocks, 1, k - 1))
              before == FoldLeft(PushToTree, EmptyPushTree, Batches(1, seen))
              new == Batches(seen + 1, seen + mpBlocks[k])
              path == BatchTreeProof(before, new, index)
              all == Batches(1, seen + mpBlocks[k])
              logTree == FromHashes(OpLeaves(logs), MpLogDepth)
          IN \E i \in 0 .. logs - 1 :
               mpAnswer' =
                 [kind |-> "log",
                  ok |-> /\ RootOfPath(BatchHash(seen + index + 1), seen + index, path)
                              = ReferenceRoot(all, Len(path))
                         /\ Len(path) = DepthOf(Len(all))
                         /\ RootOfPath(OpLeaves(logs)[i + 1], i, RootAndPath(logTree, i, "none").path)
                              = MerkleRoot(logTree)
                         /\ MerkleRoot(logTree) = ReferenceRoot(OpLeaves(logs), MpLogDepth)]
  /\ UNCHANGED <<mpBlocks, mpLeaves>>

\* The root of the commitment tree, from its leaves padded with zero leaves.
ImtReference(height) ==
  ReferenceRoot([i \in 1 .. 2 ^ height |-> LeafHash(IF i <= Len(mpLeaves) THEN mpLeaves[i] ELSE Sentinel)], height)

\* get_imt_inclusion_proof and get_imt_low_nullifier_index.
ImtProof ==
  /\ \E v \in MpValues :
       LET tree == ImtNew(mpLeaves)
           at == FindValueIndex(mpLeaves, v)
           low == FindLowNullifierIndex(mpLeaves, v)
           index == IF at >= 0 THEN at ELSE low
       IN mpAnswer' =
            [kind |-> "imt",
             ok |-> /\ RootOfPath(LeafHash(mpLeaves[index + 1]), index, ImtPath(tree, index)) = ImtRoot(tree)
                    /\ ImtRoot(tree) = ImtReference(tree.height)
                    /\ at = -1 => /\ low >= 0
                                  /\ ~ \E l \in Range(mpLeaves) :
                                       mpLeaves[low + 1].value < l.value /\ l.value < v]
  /\ UNCHANGED <<mpBlocks, mpLeaves>>

\* The two trees share nothing: a behaviour grows one of them and asks about it.
MessagesNext ==
  \/ mpAnswer.kind = "none" /\ Len(mpLeaves) = 1 /\ SettleBlock
  \/ mpAnswer.kind = "none" /\ Len(mpLeaves) = 1 /\ LogProof
  \/ mpAnswer.kind = "none" /\ mpBlocks = <<>> /\ Commit
  \/ mpAnswer.kind = "none" /\ mpBlocks = <<>> /\ ImtProof

-----------------------------------------------------------------------------
(* Property.                                                               *)

\* Every proof the RPC server assembles verifies: the path of a log in its
\* batch's tree; the path of the batch in the settlement layer's tree as it is
\* after the block that executed it, wherever in that block the batch was and
\* however the tree grew inside it; and the path of a commitment, or of the leaf
\* that brackets a missing one, under the root of the padded tree.
MessageProofsVerify == mpAnswer.ok

=============================================================================
