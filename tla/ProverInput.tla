---------------------------- MODULE ProverInput -----------------------------
(* From the tree manager to prover inputs (tree_manager.rs, the prover input *)
(* generator and the tree adapters of native_pig/src/tree.rs).  The manager  *)
(* updates the tree with a range of blocks, flushes once and then sends the  *)
(* blocks with the proof of their update.  The generator runs one            *)
(* computation per block, several at a time, and sends the results in block  *)
(* order.  A computation replays its block on the state before it: it asks   *)
(* for values, leaf indices, left neighbours and Merkle paths.  The proof of *)
(* the update answers what it covers; the tree at the version before the     *)
(* block, with three caches in front, answers the rest, while the manager    *)
(* goes on writing later versions.                                           *)
EXTENDS MerkleTree

CONSTANTS
    PgInFlight,   \* maximum_in_flight_blocks
    PgMaxQueries, \* bound on the queries of a computation
    PgRange,      \* MAX_BLOCKS_PER_ITERATION of the tree manager
    PgV8From      \* the first block of proving version 8

VARIABLES
    pgDisabled, \* the generator is disabled (both provers are fake)
    pgRange,    \* blocks of the range the manager is processing
    pgInput,    \* blocks sent to the generator
    pgPending,  \* computations in block order
    pgFirst,    \* no result was sent yet
    pgOut,      \* results sent
    pgExact     \* every answer so far was right (history variable)
pgVars == <<treeVars, pgDisabled, pgRange, pgInput, pgPending, pgFirst, pgOut, pgExact>>
generatorVars == <<pgDisabled, pgInput, pgPending, pgFirst, pgOut, pgExact>>

None == -1

-----------------------------------------------------------------------------
(* The tree manager. *)

RootInfo(version) == [root |-> NodeHash(0, TryRoot(version)), count |-> TryRoot(version).count]
\* BlockMerkleTreeData: the operations are paired with the keys they are for.
KeysAndOps(entries, reads, proof) ==
    Overwrite([k \in {entries[i].key : i \in DOMAIN entries} |-> proof.ops[CHOOSE i \in DOMAIN entries : entries[i].key = k]],
              [k \in ToSet(reads) |-> proof.readOps[CHOOSE i \in DOMAIN reads : reads[i] = k]])
DataOf(version, entries, reads, proof, sibs) ==
    [block |-> version + 1, input |-> RootInfo(version), leaves |-> proof.leaves,
     ops |-> KeysAndOps(entries, reads, proof),
     siblings |-> IF DOMAIN proof.leaves = {} THEN Empty
                  ELSE [loc \in {sibs[n].loc : n \in DOMAIN sibs} |-> sibs[CHOOSE n \in DOMAIN sibs : sibs[n].loc = loc].hash]]
DataWith(version, entries, reads, proof) ==
    DataOf(version, entries, reads, proof, ZipLeaves(TryRoot(version).count, proof.leaves, proof.hashes).sibs)
TreeData(keys, reads) ==
    LET version == VersionCount - 1
        entries == Writes(keys, version + 1)
    IN  DataWith(version, entries, reads, CreateBatchProof(version, CreatePatch(version, entries, reads)))

\* Reads are the keys the block reads and does not write.
ManagerUpdates(keys, reads) ==
    /\ Len(pgRange) < PgRange
    /\ ToSet(keys) \cap ToSet(reads) = {}
    /\ UpdateTree(keys, reads)
    /\ pgRange' = Append(pgRange, TreeData(keys, reads))
    /\ UNCHANGED generatorVars
ManagerSends ==
    /\ pgRange # <<>>
    /\ FlushTree
    /\ pgInput' = pgInput \o pgRange /\ pgRange' = <<>>
    /\ UNCHANGED <<pgDisabled, pgPending, pgFirst, pgOut, pgExact>>

-----------------------------------------------------------------------------
(* TreeOutputAdapter: answers from the proof of the update, or no data. *)

NoData == [known |-> FALSE, index |-> None, value |-> None]
MainRead(data, key) ==
    IF key \notin DOMAIN data.ops THEN NoData
    ELSE IF ~data.ops[key].hit THEN [NoData EXCEPT !.known = TRUE]
    ELSE IF data.ops[key].index \notin DOMAIN data.leaves THEN NoData
    ELSE [NoData EXCEPT !.known = TRUE, !.value = data.leaves[data.ops[key].index].value]
MainIndex(data, key) ==
    IF key \notin DOMAIN data.ops THEN NoData
    ELSE [NoData EXCEPT !.known = TRUE, !.index = IF data.ops[key].hit THEN data.ops[key].index ELSE None]
MainPrevIndex(data, key) ==
    IF key \in DOMAIN data.ops /\ ~data.ops[key].hit
    THEN [NoData EXCEPT !.known = TRUE, !.index = data.ops[key].index] ELSE NoData
\* A sibling that the proof does not know is an empty subtree; one inside the
\* tree would fail the assertion.
MerklePath(data, index) ==
    [ok |-> \A d \in 0..(TreeDepth - 1) :
              <<d, Sibling(index, d)>> \in DOMAIN data.siblings \/ Sibling(index, d) > LastOn(data.input.count, d),
     path |-> [d \in 1..TreeDepth |->
                 IF <<d - 1, Sibling(index, d - 1)>> \in DOMAIN data.siblings
                 THEN data.siblings[<<d - 1, Sibling(index, d - 1)>>] ELSE EmptySubtreeHash[d - 1]]]

-----------------------------------------------------------------------------
(* VersionedMerkleTree: answers from the tree at a version, cached. *)

NoCache == [index |-> Empty, prev |-> Empty, proofs |-> Empty]
InsertProof(cache, key, entry) ==
    [cache EXCEPT !.index = Overwrite(@, [k \in {key} |-> entry.index]),
                  !.proofs = Overwrite(@, [i \in {entry.index} |-> entry])]
FlatEntry(leaves, flat, i) == [index |-> i, leaf |-> leaves[i], siblings |-> flat.siblings[i]]
MutCacheMissing(cache, key, index, left, leaves, flat) ==
    InsertProof(InsertProof([cache EXCEPT !.prev = Overwrite(@, [k \in {key} |-> index])],
                            key, FlatEntry(leaves, flat, index)),
                leaves[left.next].key, FlatEntry(leaves, flat, left.next))
CacheMissing(cache, key, index, left, leaves, flat) ==
    InsertProof(InsertProof([cache EXCEPT !.index = Overwrite(@, [k \in {key} |-> None]),
                                          !.prev = Overwrite(@, [k \in {key} |-> index])],
                            left.key, FlatEntry(leaves, flat, index)),
                leaves[left.next].key, FlatEntry(leaves, flat, left.next))
CacheFlat(cache, key, op, leaves, flat) ==
    IF op.hit THEN InsertProof(cache, key, FlatEntry(leaves, flat, op.index))
    ELSE CacheMissing(cache, key, op.index, leaves[op.index], leaves, flat)
CacheUpdate(cache, version, key, op, proof) ==
    CacheFlat(cache, key, op, proof.leaves, ToFlat(proof, TryRoot(version).count))
CacheProof(cache, version, key) ==
    LET update == CreatePatch(version, <<>>, <<key>>)
    IN  CacheUpdate(cache, version, key, update.readOps[1], CreateBatchProof(version, update))

ReadAt(version, op) == IF op.hit THEN LeafAt(version, op.index).value ELSE None
FallbackRead(version, key) == ReadAt(version, CreatePatch(version, <<>>, <<key>>).readOps[1])
FallbackIndexCache(cache, version, key) ==
    IF key \in DOMAIN cache.index THEN cache ELSE CacheProof(cache, version, key)
FallbackPrevCache(cache, version, key) ==
    IF key \in DOMAIN cache.prev THEN cache ELSE CacheProof(cache, version, key)
ProveIndexFlat(version, i) ==
    LET proof == [leaves |-> [j \in {i} |-> LeafAt(version, j)], hashes |-> CollectHashes(version, TryRoot(version).count, {i})]
    IN  FlatEntry(proof.leaves, ToFlat(proof, TryRoot(version).count), i)
FallbackProofCache(cache, version, i) ==
    IF i \in DOMAIN cache.proofs THEN cache
    ELSE [cache EXCEPT !.proofs = Overwrite(@, [j \in {i} |-> ProveIndexFlat(version, i)])]

-----------------------------------------------------------------------------
(* The generator. *)

Real(data) == ~pgDisabled /\ data.block < PgV8From
SpawnComputation(data) == [data |-> data, cache |-> NoCache, queries |-> 0, done |-> ~Real(data)]
TakeBlock ==
    /\ pgInput # <<>>
    /\ Len(pgPending) < (IF pgFirst \/ pgDisabled THEN 1 ELSE PgInFlight)
    /\ pgPending' = Append(pgPending, SpawnComputation(Head(pgInput)))
    /\ pgInput' = Tail(pgInput)
    /\ UNCHANGED <<treeVars, pgDisabled, pgRange, pgFirst, pgOut, pgExact>>

Answered(i, cache, right) ==
    /\ ~pgPending[i].done /\ pgPending[i].queries < PgMaxQueries
    /\ pgPending' = [pgPending EXCEPT ![i].cache = cache, ![i].queries = @ + 1]
    /\ pgExact' = (pgExact /\ right)
    /\ UNCHANGED <<treeVars, pgDisabled, pgRange, pgInput, pgFirst, pgOut>>
Before(i) == pgPending[i].data.block - 1
Missing(i, key) == key \notin DOMAIN treeLog[Before(i) + 1]

AskValue(i, key) ==
    LET main == MainRead(pgPending[i].data, key)
        value == IF main.known THEN main.value ELSE FallbackRead(Before(i), key)
    IN  Answered(i, IF main.known THEN pgPending[i].cache ELSE CacheProof(pgPending[i].cache, Before(i), key),
                 value = IF Missing(i, key) THEN None ELSE treeLog[Before(i) + 1][key])
\* The cache after a question that the proof of the update answers or not.
CacheIf(known, i, cache) == IF known THEN pgPending[i].cache ELSE cache
IndexAnswered(i, key, cache, index) ==
    Answered(i, cache, IF Missing(i, key) THEN index = None
                       ELSE index # None /\ LeafAt(Before(i), index).key = key)
IndexFrom(i, key, main, cache) ==
    IndexAnswered(i, key, cache, IF main.known THEN main.index ELSE cache.index[key])
AskIndex(i, key) ==
    LET main == MainIndex(pgPending[i].data, key) IN
    IndexFrom(i, key, main, CacheIf(main.known, i, FallbackIndexCache(pgPending[i].cache, Before(i), key)))
PrevAnswered(i, key, cache, leaf) ==
    Answered(i, cache, leaf.key < key /\ key < LeafAt(Before(i), leaf.next).key)
PrevFrom(i, key, main, cache) ==
    PrevAnswered(i, key, cache, LeafAt(Before(i), IF main.known THEN main.index ELSE cache.prev[key]))
\* Asked of missing keys only.
AskPrevIndex(i, key) ==
    LET main == MainPrevIndex(pgPending[i].data, key) IN
    /\ Missing(i, key)
    /\ PrevFrom(i, key, main, CacheIf(main.known, i, FallbackPrevCache(pgPending[i].cache, Before(i), key)))
ProofFrom(i, index, data, known, cache) ==
    LET path == IF known THEN MerklePath(data, index) ELSE [ok |-> TRUE, path |-> cache.proofs[index].siblings]
        leaf == IF known THEN data.leaves[index] ELSE cache.proofs[index].leaf
    IN  Answered(i, cache, path.ok /\ FlatHash(leaf, index, path.path) = data.input.root)
AskProof(i, index) ==
    LET data == pgPending[i].data
        known == index \in DOMAIN data.leaves
    IN  /\ index < data.input.count
        /\ ProofFrom(i, index, data, known, CacheIf(known, i, FallbackProofCache(pgPending[i].cache, Before(i), index)))

FinishComputation(i) ==
    /\ ~pgPending[i].done
    /\ pgPending' = [pgPending EXCEPT ![i].done = TRUE]
    /\ UNCHANGED <<treeVars, pgDisabled, pgRange, pgInput, pgFirst, pgOut, pgExact>>

\* FuturesOrdered gives the results in the order the computations were started.
SendResult ==
    /\ pgPending # <<>> /\ Head(pgPending).done
    /\ LET data == Head(pgPending).data IN
       pgOut' = Append(pgOut, [block |-> data.block, real |-> Real(data), treeData |-> data.block >= PgV8From])
    /\ pgPending' = Tail(pgPending) /\ pgFirst' = FALSE
    /\ UNCHANGED <<treeVars, pgDisabled, pgRange, pgInput, pgExact>>

InputsInit ==
    /\ TreeInit
    /\ pgDisabled \in BOOLEAN
    /\ pgRange = <<>> /\ pgInput = <<>> /\ pgPending = <<>> /\ pgFirst = TRUE /\ pgOut = <<>> /\ pgExact = TRUE
Genesis == InitializeTree /\ UNCHANGED <<pgRange, generatorVars>>
InputsNext ==
    \/ Genesis \/ ManagerSends \/ TakeBlock \/ SendResult
    \/ \E keys \in KeySeqs(MaxEntries), reads \in ReadSeqs(MaxReads) : ManagerUpdates(keys, reads)
    \/ \E i \in 1..Len(pgPending) :
         \/ FinishComputation(i)
         \/ \E key \in TreeKeys : AskValue(i, key) \/ AskIndex(i, key) \/ AskPrevIndex(i, key)
         \/ \E index \in 0..(2 + Len(GenesisKeys) + MaxTreeVersions * MaxEntries) : AskProof(i, index)

\* Every answer a computation gets, from the proof of the block's update or
\* from the tree and its caches, is about the state before the block: values and
\* indices are those of that version and every path leads to its root, while
\* later blocks are written (EfficientTreeAdapter, VersionedMerkleTree).  The
\* results leave in block order without a gap, with an input computed before
\* proving version 8 and with the tree data from there on.
ProverInputsExact ==
    /\ pgExact
    /\ \A n \in 1..Len(pgOut) :
         pgOut[n] = [block |-> n, real |-> ~pgDisabled /\ n < PgV8From, treeData |-> n >= PgV8From]
=============================================================================
