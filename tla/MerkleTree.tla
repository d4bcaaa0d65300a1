----------------------------- MODULE MerkleTree -----------------------------
(***************************************************************************)
(* The state tree of the node (lib/merkle_tree, lib/merkle_tree_api and    *)
(* the tree manager's use of it).  Leaves are kept in insertion order and  *)
(* linked by key: a leaf names the index of the leaf with the next larger  *)
(* key, between a minimum guard (index 0) and a maximum guard (index 1).   *)
(* Every block makes a version.  A version stores only the leaves it       *)
(* touches and the nodes above them; a node refers to its children by      *)
(* version, so that versions share what they do not change.                *)
(*                                                                         *)
(* treeDb is the RocksDB: the manifest's version count, the nodes under    *)
(* <<version, level, index on level>>, and the key index.  treePatch is    *)
(* the in-memory patch in front of it, which is flushed after a range of   *)
(* blocks.  Hashes are terms, so that equal hashes mean equal subtrees.    *)
(* The model has binary internal nodes (INTERNAL_NODE_DEPTH = 1).          *)
(***************************************************************************)
EXTENDS Integers, Sequences, FiniteSets, SequencesExt

CONSTANTS
    TreeDepth,        \* P::TREE_DEPTH; leaves stay below half of its capacity
    TreeKeys,         \* the keys a block may write or read, naturals above 0
    MaxTreeVersions,  \* bound on the versions of the tree
    MaxTruncations,   \* bound on truncations
    MaxEntries,       \* bound on the writes of a block
    MaxReads,         \* bound on its reads
    GenesisKeys       \* the sequence of keys the genesis writes

VARIABLES
    treeDb,           \* [count, nodes, keys]
    treePatch,        \* the same of the versions not flushed, or NoPatch
    treeTruncations,  \* truncations made so far
    treeLog,          \* history: the key-value map of every version
    treeProof         \* history: did the last block's proof verify?

treeVars == <<treeDb, treePatch, treeTruncations, treeLog, treeProof>>

Empty == << >>
NoPatch == [count |-> 0, nodes |-> Empty, keys |-> Empty]
Patched == treePatch.count # 0

MinKey == 0
MaxKey == Max(TreeKeys) + 1

-----------------------------------------------------------------------------
(* Hashing. *)

HashLeaf(leaf) == <<leaf>>
HashBranch(lhs, rhs) == <<lhs, rhs>>

EmptySubtreeHash[depth \in 0..TreeDepth] ==
    IF depth = 0
    THEN HashLeaf([key |-> 0, value |-> 0, next |-> 0])
    ELSE HashBranch(EmptySubtreeHash[depth - 1], EmptySubtreeHash[depth - 1])

\* InternalNode::hash, with the empty subtree for a missing right child.
NodeHash(level, node) ==
    IF level = TreeDepth
    THEN HashLeaf(node)
    ELSE HashBranch(node.children[1].hash,
                    IF Len(node.children) = 2
                    THEN node.children[2].hash
                    ELSE EmptySubtreeHash[TreeDepth - level - 1])

-----------------------------------------------------------------------------
(* Reading: the RocksDB, and the patch in front of it. *)

IsNewVersion(version) ==
    \/ version >= treePatch.count
    \/ <<version, 0, 0>> \in DOMAIN treePatch.nodes

FromPatch(version) == Patched /\ IsNewVersion(version)

VersionCount == IF Patched THEN treePatch.count ELSE treeDb.count

NodesOf(version) == IF FromPatch(version) THEN treePatch.nodes ELSE treeDb.nodes

TryNode(nodeKey) ==
    LET nodes == NodesOf(nodeKey[1]) IN
    IF nodeKey \in DOMAIN nodes THEN nodes[nodeKey] ELSE Empty

TryRoot(version) == TryNode(<<version, 0, 0>>)

\* load_nodes: the version of the node at index i of a level, found along the
\* references from the root of the tree version.
NodeVersion(version, level, i) ==
    LET f[m \in 0..level] ==
          IF m = 0 THEN version
          ELSE LET parent == TryNode(<<f[m - 1], m - 1, i \div 2 ^ (level - m + 1)>>)
               IN  parent.children[((i \div 2 ^ (level - m)) % 2) + 1].ver
    IN  f[level]

NodeAt(version, level, i) == TryNode(<<NodeVersion(version, level, i), level, i>>)
LeafAt(version, i) == NodeAt(version, TreeDepth, i)
HashAt(version, level, i) ==
    NodeAt(version, level - 1, i \div 2).children[(i % 2) + 1].hash

\* The key index at a version: an exact get, else the neighbours in key order.
Neighbours(keys, key, known, above, below) ==
    [found |-> key \in known,
     index |-> IF key \in known THEN keys[key].index ELSE 0,
     prev  |-> IF below = {} THEN <<MinKey, 0>> ELSE <<Max(below), keys[Max(below)].index>>,
     next  |-> IF above = {} THEN <<MaxKey, 1>> ELSE <<Min(above), keys[Min(above)].index>>]

LookupKey(keys, version, key) ==
    LET known == {k \in DOMAIN keys : keys[k].at <= version} IN
    Neighbours(keys, key, known, {k \in known : k >= key}, {k \in known : k < key})

Closest(inDb, inPatch) ==
    IF ~inPatch.found /\ inDb.found THEN inDb
    ELSE [inPatch EXCEPT
            !.prev = IF inDb.prev[1] > @[1] THEN inDb.prev ELSE @,
            !.next = IF inDb.next[1] < @[1] THEN inDb.next ELSE @]

Indices(version, key) ==
    IF FromPatch(version)
    THEN Closest(LookupKey(treeDb.keys, version, key), LookupKey(treePatch.keys, version, key))
    ELSE LookupKey(treeDb.keys, version, key)

-----------------------------------------------------------------------------
(* A block's update of the tree. *)

\* TreeUpdate::for_empty_tree: the guards, then the entries in their order.
ForEmptyTree(entries) ==
    LET all == <<[key |-> MinKey, value |-> 0], [key |-> MaxKey, value |-> 0]>> \o entries
        index(key) == (CHOOSE i \in DOMAIN all : all[i].key = key) - 1
        above(key) == {all[i].key : i \in DOMAIN all} \cap (key + 1 .. MaxKey)
    IN  [version |-> 0,
         keys    |-> [k \in {all[i].key : i \in DOMAIN all} |-> [index |-> index(k), at |-> 0]],
         leaves  |-> [i \in 0..(Len(all) - 1) |->
                        [key |-> all[i + 1].key, value |-> all[i + 1].value,
                         next |-> IF above(all[i + 1].key) = {} THEN 1
                                  ELSE index(Min(above(all[i + 1].key)))]],
         count   |-> Len(all)]

Op(lookup) == IF lookup.found THEN [hit |-> TRUE, index |-> lookup.index]
              ELSE [hit |-> FALSE, index |-> lookup.prev[2]]

\* Mutant: the right neighbour of a missing key is not loaded.
MutLeavesOfLookup(lookup) == {IF lookup.found THEN lookup.index ELSE lookup.prev[2]}
LeavesOfLookup(lookup) ==
    IF lookup.found THEN {lookup.index} ELSE {lookup.prev[2], lookup.next[2]}

\* create_patch and update: the leaves the block touches after its writes.
\* Leaves loaded only for reads are proven but not part of the version.
PatchFor(version, entries, lookup, readLookup, count, missing) ==
    LET newIndex(i) == count + Cardinality({j \in missing : j < i})
        newKeys == {entries[i].key : i \in missing}
        indexOf(key) == newIndex(CHOOSE i \in missing : entries[i].key = key)
        touched == UNION {LeavesOfLookup(lookup[i]) : i \in DOMAIN entries}
                   \cup (IF missing = {} THEN {} ELSE {count - 1})
        read == UNION {LeavesOfLookup(readLookup[i]) : i \in DOMAIN readLookup}
        between(low, high) == newKeys \cap (low + 1 .. high - 1)
        \* Inserted leaves that are linked from a leaf of the old version.
        linkedFrom(idx) == {i \in missing : /\ lookup[i].prev[2] = idx
                                            /\ between(lookup[i].prev[1], entries[i].key) = {}}
        written(idx) == {i \in DOMAIN entries : lookup[i].found /\ lookup[i].index = idx}
        oldLeaf(idx) == LET leaf == LeafAt(version, idx) IN
            [leaf EXCEPT
               !.value = IF written(idx) = {} THEN @ ELSE entries[CHOOSE i \in written(idx) : TRUE].value,
               !.next = IF linkedFrom(idx) = {} THEN @ ELSE newIndex(CHOOSE i \in linkedFrom(idx) : TRUE)]
        newLeaf(i) == LET local == between(entries[i].key, lookup[i].next[1]) IN
            [key |-> entries[i].key, value |-> entries[i].value,
             next |-> IF local = {} THEN lookup[i].next[2] ELSE indexOf(Min(local))]
        inserted == {newIndex(i) : i \in missing}
    IN  [version |-> version + 1,
         keys    |-> [k \in newKeys |-> [index |-> indexOf(k), at |-> version + 1]],
         leaves  |-> [idx \in touched \cup inserted |->
                        IF idx \in inserted
                        THEN newLeaf(CHOOSE i \in missing : newIndex(i) = idx)
                        ELSE oldLeaf(idx)],
         count   |-> count + Cardinality(missing),
         loaded  |-> touched \cup read,
         ops     |-> [i \in DOMAIN entries |-> Op(lookup[i])],
         readOps |-> [i \in DOMAIN readLookup |-> Op(readLookup[i])]]

PatchFrom(version, entries, lookup, readLookup) ==
    PatchFor(version, entries, lookup, readLookup, TryRoot(version).count,
             {i \in DOMAIN entries : ~lookup[i].found})

CreatePatch(version, entries, reads) ==
    PatchFrom(version, entries, [i \in DOMAIN entries |-> Indices(version, entries[i].key)],
              [i \in DOMAIN reads |-> Indices(version, reads[i])])

\* update_ancestor_versions and finalize: the nodes above the touched leaves,
\* with their references and hashes; untouched children keep theirs.
Finalize(update) ==
    LET v == update.version
        touched(level) == {i \div 2 ^ (TreeDepth - level) : i \in DOMAIN update.leaves}
                          \cup (IF level = 0 THEN {0} ELSE {})
        level[down \in 0..TreeDepth] ==
          LET l == TreeDepth - down IN
          IF down = 0 THEN update.leaves
          ELSE LET below == level[down - 1]
                   lastChild == (update.count - 1) \div 2 ^ (down - 1)
                   ref(c) == IF c \in DOMAIN below
                             THEN [ver |-> v, hash |-> NodeHash(l + 1, below[c])]
                             ELSE NodeAt(v - 1, l, c \div 2).children[(c % 2) + 1]
                   children(p) == IF 2 * p + 1 <= lastChild
                                  THEN <<ref(2 * p), ref(2 * p + 1)>> ELSE <<ref(2 * p)>>
               IN  [p \in touched(l) |->
                      IF l = 0 THEN [children |-> children(p), count |-> update.count]
                      ELSE [children |-> children(p)]]
        keysOf(l) == {<<v, l, i>> : i \in DOMAIN level[TreeDepth - l]}
    IN  [count |-> v + 1,
         nodes |-> [k \in UNION {keysOf(l) : l \in 0..TreeDepth} |-> level[TreeDepth - k[2]][k[3]]],
         keys  |-> update.keys]

Overwrite(f, g) == [x \in DOMAIN f \cup DOMAIN g |-> IF x \in DOMAIN g THEN g[x] ELSE f[x]]

\* RocksDBWrapper::apply_patch: one write; the versions of the patch replace
\* whatever a truncation left of them.
ApplyToDb(db, patch) ==
    LET versions == {k[1] : k \in DOMAIN patch.nodes}
        kept == [k \in {n \in DOMAIN db.nodes : n[1] \notin versions} |-> db.nodes[k]]
    IN  [count |-> patch.count,
         nodes |-> Overwrite(kept, patch.nodes),
         keys  |-> Overwrite(db.keys, patch.keys)]

\* PatchSet::apply_patch, and the first patch of a Patched database.
ApplyToPatch(patch) ==
    IF ~Patched THEN patch
    ELSE [count |-> patch.count,
          nodes |-> Overwrite(treePatch.nodes, patch.nodes),
          keys  |-> Overwrite(treePatch.keys, patch.keys)]

\* Mutant: new leaves are searched from the leaf count of the version itself.
MutTruncateDb(db, retained) ==
    LET countOf(v) == db.nodes[<<v, 0, 0>>].count
        newLeaves(v) == {k \in DOMAIN db.nodes : k[1] = v /\ k[2] = TreeDepth /\ k[3] >= countOf(v)}
        dropped == UNION {{db.nodes[k].key : k \in newLeaves(v)} : v \in retained..(db.count - 1)}
    IN  [count |-> retained,
         nodes |-> db.nodes,
         keys  |-> [k \in DOMAIN db.keys \ dropped |-> db.keys[k]]]

\* RocksDBWrapper::truncate: the manifest and the key index go back to the
\* retained versions; the nodes of the others stay until overwritten.
TruncateDb(db, retained) ==
    LET countOf(v) == db.nodes[<<v, 0, 0>>].count
        newLeaves(v) == {k \in DOMAIN db.nodes : k[1] = v /\ k[2] = TreeDepth /\ k[3] >= countOf(v - 1)}
        dropped == UNION {{db.nodes[k].key : k \in newLeaves(v)} : v \in retained..(db.count - 1)}
    IN  [count |-> retained,
         nodes |-> db.nodes,
         keys  |-> [k \in DOMAIN db.keys \ dropped |-> db.keys[k]]]

-----------------------------------------------------------------------------
(* Proofs: made from the nodes loaded for a block, checked without the tree. *)

Ascending(S) == SetToSortSeq(S, <)
Parents(S) == {i \div 2 : i \in S}
LastOn(count, depth) == (count - 1) \div 2 ^ depth

\* Among the indices S of a level, the siblings a verifier cannot compute.
MissingSiblings(S, last) ==
    {i - 1 : i \in {j \in S : j % 2 = 1 /\ j - 1 \notin S}}
    \cup {i + 1 : i \in {j \in S : j % 2 = 0 /\ j + 1 \notin S /\ j < last}}

OnLevel(S, depth) == {i \div 2 ^ depth : i \in S}

\* collect_hashes: bottom-up, on each level in ascending order.
CollectHashes(version, count, loaded) ==
    LET onDepth(d) ==
          LET level == TreeDepth - d
              missing == Ascending(MissingSiblings(OnLevel(loaded, d), LastOn(count, d)))
          IN  [i \in DOMAIN missing |-> HashAt(version, level, missing[i])]
    IN  IF loaded = {} THEN << >>
        ELSE FlattenSeq([d \in 1..TreeDepth |-> onDepth(d - 1)])

CreateBatchProof(version, update) ==
    [ops |-> update.ops, readOps |-> update.readOps,
     leaves |-> [i \in update.loaded |-> LeafAt(version, i)],
     hashes |-> CollectHashes(version, TryRoot(version).count, update.loaded)]

\* The parents on a level that need a hash of the proof.
NeedHash(nodes, last) ==
    {p \in Parents(nodes) : 2 * p \notin nodes \/ (2 * p + 1 \notin nodes /\ 2 * p # last)}

\* The siblings met below the parent p: of the two children, the ones some leaf
\* of the other's subtree needs.
Met(s, d, p, given) ==
    IF 2 * p \notin DOMAIN s.nodes THEN <<[loc |-> <<d, 2 * p>>, hash |-> given[p]]>>
    ELSE IF 2 * p + 1 \in DOMAIN s.nodes
    THEN <<[loc |-> <<d, 2 * p + 1>>, hash |-> s.nodes[2 * p + 1]],
           [loc |-> <<d, 2 * p>>, hash |-> s.nodes[2 * p]]>>
    ELSE IF p \in DOMAIN given THEN <<[loc |-> <<d, 2 * p + 1>>, hash |-> given[p]]>>
    ELSE << >>

Child(s, d, i, given) ==
    IF i \in DOMAIN s.nodes THEN s.nodes[i]
    ELSE IF i \div 2 \in DOMAIN given THEN given[i \div 2] ELSE EmptySubtreeHash[d]

\* One level up: `given` are the next hashes of the proof, by the parent they
\* are for, and `ps` the parents in ascending order.
ZipWith(s, d, given, ps) ==
    [nodes |-> [p \in ToSet(ps) |->
                  HashBranch(Child(s, d, 2 * p, given), Child(s, d, 2 * p + 1, given))],
     rest |-> SubSeq(s.rest, Cardinality(DOMAIN given) + 1, Len(s.rest)),
     sibs |-> s.sibs \o FlattenSeq([i \in DOMAIN ps |-> Met(s, d, ps[i], given)]),
     ok |-> TRUE]

GivenTo(need, rest) == [p \in need |-> rest[Cardinality({q \in need : q <= p})]]

ZipNeeding(s, d, need) ==
    IF ~s.ok \/ Cardinality(need) > Len(s.rest) THEN [s EXCEPT !.ok = FALSE]
    ELSE ZipWith(s, d, GivenTo(need, s.rest), Ascending(Parents(DOMAIN s.nodes)))

ZipLevel(s, count, d) == ZipNeeding(s, d, NeedHash(DOMAIN s.nodes, LastOn(count, d)))

Zipped(end) ==
    IF end.ok /\ end.rest = << >>
    THEN [ok |-> TRUE, root |-> end.nodes[0], sibs |-> end.sibs]
    ELSE [ok |-> FALSE, root |-> Empty, sibs |-> << >>]

\* zip_leaves: folds leaves and proof hashes into the root hash.  `nodes` are
\* the hashes known on a level, `rest` the hashes not used yet, and `sibs` the
\* siblings met, in order.  "error" when the hashes do not fit the leaves.
ZipLeaves(count, leaves, hashes) ==
    LET fold[d \in 0..TreeDepth] ==
          IF d = 0
          THEN [nodes |-> [i \in DOMAIN leaves |-> HashLeaf(leaves[i])],
                rest |-> hashes, sibs |-> << >>, ok |-> DOMAIN leaves # {}]
          ELSE ZipLevel(fold[d - 1], count, d - 1)
    IN  Zipped(fold[TreeDepth])

\* verify_operation: the proven leaves show that the key is there, or absent.
VerifyOperation(leaves, count, op, key) ==
    IF op.hit
    THEN op.index < count /\ op.index \in DOMAIN leaves /\ leaves[op.index].key = key
    ELSE /\ op.index \in DOMAIN leaves
         /\ leaves[op.index].key < key
         /\ leaves[op.index].next \in DOMAIN leaves
         /\ key < leaves[leaves[op.index].next].key

\* The indices of the proven and of the inserted leaves, by key.
Keyed(proof, entries, missing, newIndex) ==
    Overwrite([k \in {proof.leaves[i].key : i \in DOMAIN proof.leaves} |->
                 CHOOSE i \in DOMAIN proof.leaves : proof.leaves[i].key = k],
              [k \in {entries[i].key : i \in missing} |->
                 newIndex[CHOOSE i \in missing : entries[i].key = k]])

\* The proven leaves after one entry: a new value, or a leaf linked in.
ApplyEntry(leaves, op, entry, index, keyed) ==
    IF op.hit THEN [leaves EXCEPT ![op.index].value = entry.value]
    ELSE LET prev == keyed[Max({k \in DOMAIN keyed : k < entry.key})]
             new == [key |-> entry.key, value |-> entry.value,
                     next |-> keyed[Min({k \in DOMAIN keyed : k > entry.key})]]
         IN  [i \in DOMAIN leaves \cup {index} |->
                IF i = index THEN new
                ELSE IF i = prev THEN [leaves[i] EXCEPT !.next = index] ELSE leaves[i]]

LeavesAfter(proof, entries, newIndex, keyed) ==
    FoldLeft(LAMBDA leaves, i : ApplyEntry(leaves, proof.ops[i], entries[i], newIndex[i], keyed),
             proof.leaves, [i \in DOMAIN entries |-> i])

Verified(proof, prevCount, prevRoot, entries, reads, before, result) ==
    [ok |-> /\ \A i \in DOMAIN proof.leaves : i < prevCount
            /\ \A i \in DOMAIN reads : VerifyOperation(proof.leaves, prevCount, proof.readOps[i], reads[i])
            /\ \A i \in DOMAIN entries : VerifyOperation(proof.leaves, prevCount, proof.ops[i], entries[i].key)
            /\ before.ok /\ before.root = prevRoot /\ result.ok,
     root |-> result.root]

\* BatchTreeProof::verify for a tree with leaves: the root after the entries,
\* if the proof fits the root before them and every operation.
VerifyProof(proof, prevCount, prevRoot, entries, reads) ==
    LET missing == {i \in DOMAIN entries : ~proof.ops[i].hit}
        newIndex == [i \in DOMAIN entries |-> prevCount + Cardinality({j \in missing : j < i})]
    IN  IF entries = << >> /\ reads = << >> THEN [ok |-> TRUE, root |-> prevRoot]
        ELSE Verified(proof, prevCount, prevRoot, entries, reads,
                 ZipLeaves(prevCount, proof.leaves, proof.hashes),
                 ZipLeaves(prevCount + Cardinality(missing),
                           LeavesAfter(proof, entries, newIndex, Keyed(proof, entries, missing, newIndex)),
                           proof.hashes))

Sibling(i, d) == LET at == i \div 2 ^ d IN IF at % 2 = 1 THEN at - 1 ELSE at + 1
EmptySibling(i, d, count) == LET at == i \div 2 ^ d IN at % 2 = 0 /\ at = LastOn(count, d)

\* The siblings to_flat asks for, in its order.
Asked(leaves, count, depths) ==
    FlattenSeq([d \in 1..depths |->
        SelectSeq([n \in DOMAIN leaves |-> <<d - 1, Sibling(leaves[n], d - 1)>>],
                  LAMBDA loc : loc[2] <= LastOn(count, loc[1]))])

\* The cursor's position after every sibling asked for, 0 once one is not there.
Cursor(asked, sibs) ==
    FoldLeft(LAMBDA at, loc : IF at = 0 THEN 0
                              ELSE IF at <= Len(sibs) /\ sibs[at].loc = loc THEN at
                              ELSE IF at + 1 <= Len(sibs) /\ sibs[at + 1].loc = loc THEN at + 1
                              ELSE 0,
             1, asked)

FlatWith(proof, count, sibs, depths, asked) ==
    [ok |-> Cursor(asked, sibs) # 0,
     siblings |-> [i \in DOMAIN proof.leaves |-> [d \in 1..depths |->
                     IF EmptySibling(i, d - 1, count) THEN EmptySubtreeHash[d - 1]
                     ELSE sibs[CHOOSE n \in DOMAIN sibs :
                                 sibs[n].loc = <<d - 1, Sibling(i, d - 1)>>].hash]]]

\* to_flat: one list of siblings per proven leaf.  The siblings met by
\* zip_leaves are read with a cursor that only moves forward; `ok` says that
\* every sibling asked for was found under the cursor.
ToFlat(proof, count) ==
    LET sibs == ZipLeaves(count, proof.leaves, proof.hashes).sibs
        depths == 1 + Max({d \in 0..(TreeDepth - 1) : d = 0 \/ LastOn(count, d) # 0})
    IN  FlatWith(proof, count, sibs, depths, Asked(Ascending(DOMAIN proof.leaves), count, depths))

\* StorageSlotProofEntry::hash.
FlatHash(leaf, index, siblings) ==
    LET sibling(d) == IF d <= Len(siblings) THEN siblings[d] ELSE EmptySubtreeHash[d - 1]
        up[d \in 0..TreeDepth] ==
          IF d = 0 THEN HashLeaf(leaf)
          ELSE IF (index \div 2 ^ (d - 1)) % 2 = 0
               THEN HashBranch(up[d - 1], sibling(d)) ELSE HashBranch(sibling(d), up[d - 1])
    IN  up[TreeDepth]

FlatVerified(root, reads, ops, leaves, flat) ==
    LET fits(n, op, leaf) ==
            /\ Len(flat.siblings[op.index]) < TreeDepth
            /\ FlatHash(leaf, op.index, flat.siblings[op.index]) = root
            /\ op.hit => leaf.key = reads[n]
            /\ ~op.hit => /\ leaf.next \in DOMAIN leaves
                          /\ leaf.key < reads[n] /\ reads[n] < leaves[leaf.next].key
                          /\ FlatHash(leaves[leaf.next], leaf.next, flat.siblings[leaf.next]) = root
    IN  [ok |-> flat.ok /\ \A n \in DOMAIN reads : fits(n, ops[n], leaves[ops[n].index]),
         values |-> [n \in DOMAIN reads |-> IF ops[n].hit THEN leaves[ops[n].index].value ELSE 0]]

\* prove_flat for one version, and InnerStorageSlotProof::verify of each proof.
ProveFlat(version, reads) ==
    LET update == CreatePatch(version, << >>, reads)
        proof == CreateBatchProof(version, update)
    IN  FlatVerified(NodeHash(0, TryRoot(version)), reads, update.readOps, proof.leaves,
                     ToFlat(proof, TryRoot(version).count))

-----------------------------------------------------------------------------
(* The tree manager. *)

ValueIn(content, key) == IF key \in DOMAIN content THEN content[key] ELSE 0
EntriesAsMap(entries) ==
    [k \in {entries[i].key : i \in DOMAIN entries} |->
       entries[CHOOSE i \in DOMAIN entries : entries[i].key = k].value]

KeySeqs(max) ==
    UNION {{s \in [1..n -> TreeKeys] : \A i, j \in 1..n : s[i] = s[j] => i = j} : n \in 0..max}
ReadSeqs(max) == {ks \in KeySeqs(max) : \A i \in 1..(Len(ks) - 1) : ks[i] < ks[i + 1]}

\* The storage writes of a block: its keys, with a value no other block writes.
Writes(keys, version) ==
    [i \in DOMAIN keys |-> [key |-> keys[i], value |-> version + 1]]

TreeInit ==
    /\ treeDb = NoPatch
    /\ treePatch = NoPatch
    /\ treeTruncations = 0
    /\ treeLog = << >>
    /\ treeProof = TRUE

\* load_or_initialize_tree: the first version holds the genesis state.
InitializeTree ==
    /\ treeDb.count = 0
    /\ treeDb' = ApplyToDb(treeDb, Finalize(ForEmptyTree(Writes(GenesisKeys, 0))))
    /\ treeLog' = <<EntriesAsMap(Writes(GenesisKeys, 0))>>
    /\ UNCHANGED <<treePatch, treeTruncations, treeProof>>

\* update_tree of one block, on the patched tree.
Extend(version, entries, patch, checked) ==
    /\ treePatch' = ApplyToPatch(patch)
    /\ treeProof' = (checked.ok /\ checked.root = NodeHash(0, patch.nodes[<<version + 1, 0, 0>>]))
    /\ treeLog' = Append(treeLog, Overwrite(treeLog[version + 1], EntriesAsMap(entries)))
    /\ UNCHANGED <<treeDb, treeTruncations>>

ExtendBy(version, entries, reads, update) ==
    Extend(version, entries, Finalize(update),
           VerifyProof(CreateBatchProof(version, update), TryRoot(version).count,
                       NodeHash(0, TryRoot(version)), entries, reads))

UpdateTree(keys, reads) ==
    LET version == VersionCount - 1
        entries == Writes(keys, version + 1)
    IN  /\ version >= 0 /\ version + 1 < MaxTreeVersions
        /\ ExtendBy(version, entries, reads, CreatePatch(version, entries, reads))

\* The single write at the end of a range of blocks.
FlushTree ==
    /\ Patched
    /\ treeDb' = ApplyToDb(treeDb, treePatch)
    /\ treePatch' = NoPatch
    /\ UNCHANGED <<treeTruncations, treeLog, treeProof>>

\* A range that starts at or below the last processed block truncates first.
TruncateTree(retained) ==
    /\ ~Patched /\ treeTruncations < MaxTruncations
    /\ retained \in 1..(treeDb.count - 1)
    /\ treeDb' = TruncateDb(treeDb, retained)
    /\ treeTruncations' = treeTruncations + 1
    /\ treeLog' = SubSeq(treeLog, 1, retained)
    /\ UNCHANGED <<treePatch, treeProof>>

\* The process stops before the write: the patch is lost.
CrashTree ==
    /\ Patched
    /\ treePatch' = NoPatch
    /\ treeLog' = SubSeq(treeLog, 1, treeDb.count)
    /\ UNCHANGED <<treeDb, treeTruncations, treeProof>>

TreeNext ==
    \/ InitializeTree
    \/ \E keys \in KeySeqs(MaxEntries), reads \in ReadSeqs(MaxReads) : UpdateTree(keys, reads)
    \/ FlushTree
    \/ \E retained \in 1..MaxTreeVersions : TruncateTree(retained)
    \/ CrashTree

-----------------------------------------------------------------------------
(* MerkleTree::verify_consistency: a version's nodes, links and key index. *)

ChildrenFit(version, count, level, i) ==
    LET node == NodeAt(version, level, i)
        lastChild == LastOn(count, TreeDepth - level - 1)
        vers == {node.children[c].ver : c \in DOMAIN node.children}
    IN  /\ Len(node.children) = IF 2 * i + 1 <= lastChild THEN 2 ELSE 1
        /\ IF level = 0 THEN Max(vers) <= version ELSE Max(vers) = NodeVersion(version, level, i)
        /\ \A c \in DOMAIN node.children :
             LET child == NodeAt(version, level + 1, 2 * i + c - 1) IN
             child # Empty /\ node.children[c].hash = NodeHash(level + 1, child)

ValidateLeaf(version, count, i) ==
    LET leaf == LeafAt(version, i)
        this == Indices(NodeVersion(version, TreeDepth, i), leaf.key)
        above == Indices(NodeVersion(version, TreeDepth, i), leaf.key + 1)
    IN  /\ i = 0 => leaf.key = MinKey
        /\ i = 1 => leaf.key = MaxKey /\ leaf.next = 1
        /\ this.found /\ this.index = i
        /\ i # 1 => /\ leaf.next \in 1..(count - 1)
                    /\ leaf.next = IF above.found THEN above.index ELSE above.next[2]

VerifyConsistency(version) ==
    LET count == TryRoot(version).count IN
    /\ version < VersionCount /\ TryRoot(version) # Empty /\ count >= 2
    /\ \A level \in 0..(TreeDepth - 1) : \A i \in 0..LastOn(count, TreeDepth - level) :
          ChildrenFit(version, count, level, i)
    /\ \A i \in 0..(count - 1) : ValidateLeaf(version, count, i)
    /\ \A i, j \in (0..(count - 1)) \ {1} : LeafAt(version, i).next = LeafAt(version, j).next => i = j

-----------------------------------------------------------------------------
(* Properties. *)

\* Every version up to the latest is a consistent tree that holds exactly the
\* writes of the blocks up to it, through the patch and from the RocksDB, and
\* stays so when later versions share its nodes, when versions after it are
\* truncated and written again, and when a crash drops the patch
\* (extend_inner, Patched, RocksDBWrapper::apply_patch and truncate).
TreeHoldsHistory ==
    /\ Len(treeLog) = VersionCount
    /\ \A v \in 0..(VersionCount - 1) :
         /\ VerifyConsistency(v)
         /\ \A key \in TreeKeys :
              LET lookup == Indices(v, key) IN
              IF lookup.found
              THEN /\ lookup.index < TryRoot(v).count
                   /\ LeafAt(v, lookup.index).value = ValueIn(treeLog[v + 1], key)
              ELSE key \notin DOMAIN treeLog[v + 1]

\* The proof a block's update produces leads a verifier from the root before
\* the block to the root the tree then has (create_batch_proof against
\* BatchTreeProof::verify), and a flat proof of any keys at any version of the
\* RocksDB leads to that version's root and shows the value the key had
\* (to_flat against InnerStorageSlotProof::verify).
ProofsVerify ==
    /\ treeProof
    /\ ~Patched => \A v \in 0..(VersionCount - 1), reads \in ReadSeqs(2) \ {<< >>} :
         LET flat == ProveFlat(v, reads) IN
         /\ flat.ok
         /\ \A n \in DOMAIN reads : flat.values[n] = ValueIn(treeLog[v + 1], reads[n])

\* "Returns `Ok(None)` iff the version doesn't exist in the tree" (prove and
\* prove_flat; lib/merkle_tree_api/src/lib.rs): no root is found for a version
\* past the latest.
ProveOnlyExisting ==
    \A v \in VersionCount..MaxTreeVersions : TryRoot(v) = Empty

=============================================================================
