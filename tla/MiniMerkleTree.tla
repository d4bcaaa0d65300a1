--------------------------- MODULE MiniMerkleTree ---------------------------
(***************************************************************************)
(* lib/mini_merkle_tree: a binary Merkle tree of dynamic size whose left   *)
(* part can be trimmed, keeping the left siblings of the path to the first *)
(* leaf that is left.  Hashes are symbolic: a leaf is <<n>> with n > 0, an *)
(* inner node the pair of its children, the empty leaf <<0>>.              *)
(***************************************************************************)
EXTENDS Integers, Sequences, SequencesExt

CONSTANT MmMaxDepth   \* bound on the depth of the trees

NoHash == <<>>
EmptyLeaf == <<0>>
Compress(l, r) == <<l, r>>

EmptySubtree[d \in 0 .. MmMaxDepth] ==
  IF d = 0 THEN EmptyLeaf ELSE Compress(EmptySubtree[d - 1], EmptySubtree[d - 1])

Depths == [i \in 1 .. MmMaxDepth |-> i - 1]

\* usize::next_power_of_two and its logarithm, tree_depth_by_size.
DepthOf(n) == CHOOSE d \in 0 .. MmMaxDepth : 2 ^ d >= n /\ (d = 0 \/ 2 ^ (d - 1) < n)

\* from_hashes; the size is kept as its logarithm.
FromHashes(hashes, minDepth) ==
  LET depth == DepthOf(Len(hashes))
  IN LET d == IF depth < minDepth THEN minDepth ELSE depth
     IN [hashes |-> hashes, depth |-> d, start |-> 0, cache |-> [i \in 1 .. d |-> NoHash]]

\* The assertions of init_cached.
CacheFits(start, cache) ==
  LET depth == DepthOf(start)
      len == IF start < 2 ^ depth THEN depth ELSE depth + 1
  IN /\ Len(cache) >= len
     /\ \A i \in 1 .. len : (cache[i] # NoHash) <=> ((start \div 2 ^ (i - 1)) % 2 = 1)

InitCached(start, cache) ==
  LET depth == DepthOf(start)
      len == IF start < 2 ^ depth THEN depth ELSE depth + 1
  IN [hashes |-> <<>>, depth |-> depth, start |-> start, cache |-> SubSeq(cache, 1, len)]

PushHash(tree, hash) ==
  LET grows == tree.start + Len(tree.hashes) + 1 > 2 ^ tree.depth
      depth == IF grows THEN tree.depth + 1 ELSE tree.depth
  IN [tree EXCEPT !.hashes = Append(@, hash), !.depth = depth,
                  !.cache = IF grows /\ Len(@) < depth THEN Append(@, NoHash) ELSE @]

PushHashes(tree, hashes) == FoldLeft(PushHash, tree, hashes)

\* One level of compute_merkle_root_and_path: complete the level on both sides,
\* take the sibling, compress the pairs.
NextLevel(tree, side, acc, level) ==
  LET odd == acc.start % 2 = 1
      left == IF odd THEN <<tree.cache[level + 1]>> \o acc.hashes ELSE acc.hashes
      index == IF odd THEN acc.index + 1 ELSE acc.index
      full == IF Len(left) % 2 = 1 THEN Append(left, EmptySubtree[level]) ELSE left
      sibling == IF index % 2 = 0 THEN index + 1 ELSE index - 1
      hash == IF \/ side = "left" /\ index % 2 = 0
                 \/ side = "right" /\ index % 2 = 1
                 \/ sibling >= Len(full)
                THEN NoHash ELSE full[sibling + 1]
  IN [hashes |-> [i \in 1 .. Len(full) \div 2 |-> Compress(full[2 * i - 1], full[2 * i])],
      index |-> index \div 2, start |-> acc.start \div 2, path |-> Append(acc.path, hash)]

RootAndPath(tree, index, side) ==
  LET top == FoldLeft(LAMBDA acc, level : NextLevel(tree, side, acc, level),
                      [hashes |-> tree.hashes, index |-> index, start |-> tree.start, path |-> <<>>],
                      SubSeq(Depths, 1, tree.depth))
  IN [root |-> top.hashes[1], path |-> top.path]

\* merkle_root's special cases: nothing was pushed since the tree was filled and
\* trimmed, or ever.
MerkleRoot(tree) ==
  IF tree.hashes = <<>> /\ tree.start = 0 THEN EmptySubtree[tree.depth]
  ELSE IF tree.hashes = <<>> /\ tree.start = 2 ^ tree.depth THEN tree.cache[tree.depth + 1]
  ELSE RootAndPath(tree, 0, "none").root

\* merkle_root_and_paths_for_range, of a range first .. last of local indices.
PathsForRange(tree, first, last) ==
  [root |-> RootAndPath(tree, last, "right").root,
   right |-> RootAndPath(tree, last, "right").path,
   left |-> RootAndPath(tree, first, "left").path]

MutTrimStart(tree, count) ==
  LET path == RootAndPath(tree, count, "left")
  IN [tree EXCEPT !.hashes = SubSeq(@, count + 1, Len(@)), !.start = @ + count, !.cache = path.path]

TrimStart(tree, count) ==
  LET path == RootAndPath(tree, count, "left")
      start == tree.start + count
  IN [tree EXCEPT !.hashes = SubSeq(@, count + 1, Len(@)), !.start = start,
                  !.cache = IF start = 2 ^ tree.depth THEN Append(path.path, path.root)
                            ELSE path.path]

-----------------------------------------------------------------------------
(* References.                                                             *)

\* The root of the tree of a depth with these leaves, by definition.
ReferenceRoot(leaves, depth) ==
  LET node[l \in 0 .. MmMaxDepth, i \in 0 .. 2 ^ MmMaxDepth] ==
        IF i * 2 ^ l >= Len(leaves) THEN EmptySubtree[l]
        ELSE IF l = 0 THEN leaves[i + 1]
        ELSE Compress(node[l - 1, 2 * i], node[l - 1, 2 * i + 1])
  IN node[depth, 0]

\* The root a verifier computes from a leaf and its path.
RootOfPath(leaf, index, path) ==
  FoldLeft(LAMBDA acc, sibling :
             [hash |-> IF acc.index % 2 = 0 THEN Compress(acc.hash, sibling)
                       ELSE Compress(sibling, acc.hash),
              index |-> acc.index \div 2],
           [hash |-> leaf, index |-> index], path).hash

\* The root the settlement layer's contract computes from the items of a range
\* and its two outer paths.
RootOfRange(items, first, left, right) ==
  LET step(acc, level) ==
        LET l == IF acc.first % 2 = 1 THEN <<left[level]>> \o acc.hashes ELSE acc.hashes
            f == Len(l) % 2
            full == IF f = 1 THEN Append(l, right[level]) ELSE l
        IN [hashes |-> [i \in 1 .. Len(full) \div 2 |-> Compress(full[2 * i - 1], full[2 * i])],
            first |-> acc.first \div 2]
  IN FoldLeft(step, [hashes |-> items, first |-> first], [i \in 1 .. Len(left) |-> i]).hashes[1]

=============================================================================
