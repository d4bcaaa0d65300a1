---------------------------- MODULE NodeStorage ----------------------------
(***************************************************************************)
(* The four stores of one node and how a restart puts them together again: *)
(* the replay log (WAL), the full-diff state, the block repository (memory *)
(* and database) and the state tree.  The executor re-executes a block,    *)
(* the applier writes it to the stores one after another, a persist loop   *)
(* moves repository blocks from memory to the database and the tree        *)
(* manager follows on a channel of its own, so a crash leaves the stores   *)
(* at different heights.  At startup the node picks the block to replay    *)
(* from.  A main node replays its WAL, rebuilds blocks if the operator     *)
(* configured it, then produces; an external node re-executes the records  *)
(* of the main node and may overwrite its own.                             *)
(*                                                                         *)
(* A block hash is the sequence of the contents of the chain up to the     *)
(* block: two hashes are equal exactly when the blocks and all their       *)
(* ancestors are.  The diff of a block is its content.  The block-output   *)
(* hash of a replay record covers the header, so it is the hash.           *)
(***************************************************************************)
EXTENDS Integers, Sequences, SequencesExt, FiniteSetsExt

CONSTANTS
    Roles,            \* roles to check, a subset of {"main", "external"}
    MaxBlock,         \* bound: highest block number
    MinBlocksToReplay,\* general_config.min_blocks_to_replay
    Retain,           \* general_config.blocks_to_retain_in_memory
    MaxReorgs,        \* bound: rebuilds configured, or main-node rebuilds seen
    MaxFaults,        \* bound: crashes of the process and such rebuilds together
    Dbs,           \* databases of the node
    DbMaxHandles,  \* strong handles of an instance at a time
    DbMaxOpens,    \* instances opened in a behaviour
    DbTimeout,     \* stalled_writes_retries.timeout, in ticks
    DbMaxWrites    \* writes in a behaviour

VARIABLES
    role,
    \* disk
    wal,          \* sequence of hashes: canonical replay record of each block
    archived,     \* hashes of records kept under their hash after an override
    diffs,        \* block -> content written to the state, 0 if none
    stateLatest,  \* StorageCF::Meta latest_block
    repoDb,       \* sequence of hashes in the repository database
    tree,         \* sequence of contents; version n is its prefix of length n
    \* process
    up, next, job, applied, mem, memLatest, dbReady, removing,
    treeIn, treeDone, reader, rebuilding, skipped,
    \* environment
    chain,        \* the main node's chain, seen by an external node
    committed, executed,   \* last block committed and executed on L1
    rebuildCfg, crashes, reorgs, fault,
    \* RocksDB instances
    dbInst,        \* per database: closed, starting (waiting for writes to resume),
                   \* open, or the steps of its drop: canceled, released
    dbHandles,     \* strong handles of the instance
    dbCount,       \* ROCKSDB_INSTANCE_COUNTER
    dbAwait,       \* await_rocksdb_termination: idle, waiting (on the condition), woken, done
    dbStalled,     \* RocksDB refuses writes of the database
    dbWrite,       \* the write in progress, of one writer per database
    dbOpens, dbWrites

diskVars == <<wal, archived, diffs, stateLatest, repoDb, tree>>
procVars == <<up, next, job, applied, mem, memLatest, dbReady, removing,
              treeIn, treeDone, reader, rebuilding, skipped>>
envVars == <<chain, committed, executed, rebuildCfg, crashes, reorgs>>
storageVars == <<role, diskVars, procVars, envVars, fault>>

Contents == {1, 2}      \* 1: first version of a block, 2: a rebuilt one
Missing == 0            \* no diff stored
Garbled == 3            \* output of an execution on the wrong state
NoJob == [pc |-> "idle"]
NoReader == [pc |-> "idle"]
NoRebuild == [from |-> 0]

\* Hash of the parent of block n, from the hashes s of the canonical blocks.
Parent(s, n) == IF n = 1 THEN <<>> ELSE s[n - 1]
Max2(a, b) == IF a > b THEN a ELSE b

----------------------------------------------------------------------------
(* Startup *)

\* Whether block `from` still has the configured hash.  A block that is not
\* in the repository also drops the rebuild.
FromBlockHashMatches(cfg) ==
    cfg.from <= Len(repoDb) /\ repoDb[cfg.from] = cfg.hash

\* Binary search for the last block whose hash the main node also has.
FindLastMatchingMainNodeBlock ==
    LET Check(n) == n = 0 \/ (n <= Len(chain) /\ repoDb[n] = SubSeq(chain, 1, n))
        search[left, right \in 0..Len(repoDb)] ==
            IF left >= right THEN left
            ELSE LET mid == (left + right + 1) \div 2
                 IN  IF Check(mid) THEN search[mid, right] ELSE search[left, mid - 1]
    IN  IF Check(Len(repoDb)) THEN Len(repoDb) ELSE search[0, Len(repoDb)]

\* Mutant: startup forgets that the tree may have fallen behind.
MutDetermineStartingBlock(rebuildFrom) ==
    Min({Max2(Len(wal) - MinBlocksToReplay, 0), executed, Len(repoDb), stateLatest})

DetermineStartingBlock(rebuildFrom) ==
    LET saturating == Max2(Len(wal) - MinBlocksToReplay, 0)
        wants == {saturating, executed, Len(repoDb), Len(tree), stateLatest}
                 \cup (IF rebuildFrom = 0 THEN {} ELSE {rebuildFrom})
        matching == IF role = "external" THEN FindLastMatchingMainNodeBlock
                    ELSE Len(repoDb)
    IN  Min(wants \cup {matching})

\* Rebuild with an L1 revert keeps the L1 batches below the rebuilt block
\* (a batch of this model is one block).  There must be something to revert,
\* and nothing executed may be: a startup that finds otherwise is refused.
WithL1Revert(cfg) == cfg.from # 0 /\ cfg.l1
RevertPossible(cfg) == executed < cfg.from /\ cfg.from <= committed
RevertedL1(cfg) == IF WithL1Revert(cfg) THEN cfg.from - 1 ELSE committed

\* The rebuild startup goes on with: none if the guard drops it.
Dropped == rebuildCfg.from # 0 /\ ~FromBlockHashMatches(rebuildCfg)
EffectiveRebuild == IF Dropped THEN NoRebuild ELSE rebuildCfg

\* What startup asserts of the stores, the L1 state and the rebuild options.
AssertConsistency(l1) ==
    /\ l1 >= executed
    /\ role = "main" => Len(wal) >= l1
RebuildAsserts(start, cfg, l1) ==
    cfg.from # 0 => cfg.from > l1 /\ cfg.from >= start /\ cfg.from <= Len(wal)
FirstRecordExists(start) == start <= Len(wal) \/ start = 1

Down ==
    /\ up' = FALSE
    /\ next' = 0 /\ job' = NoJob /\ applied' = 0
    /\ mem' = <<>> /\ memLatest' = 0 /\ dbReady' = FALSE /\ removing' = 0
    /\ treeIn' = <<>> /\ treeDone' = 0 /\ reader' = NoReader
    /\ rebuilding' = 0

Startup ==
    /\ ~up
    /\ LET cfg == EffectiveRebuild
           l1 == RevertedL1(cfg)
           start == IF l1 = 0 THEN 0 ELSE DetermineStartingBlock(cfg.from)
       IN  IF WithL1Revert(cfg) /\ ~RevertPossible(cfg)
           THEN fault' = "revert" /\ UNCHANGED <<procVars, committed>>
           ELSE
           /\ committed' = l1
           /\ IF AssertConsistency(l1) /\ RebuildAsserts(start, cfg, l1) /\ FirstRecordExists(start)
              THEN /\ up' = TRUE
                   /\ next' = Max2(start, 1)   \* genesis is not executed
                   /\ rebuilding' = cfg.from
                   /\ skipped' = IF ~Dropped THEN "no"
                                 ELSE IF rebuildCfg.from <= Len(repoDb) THEN "changed"
                                 ELSE "missing"
                   /\ UNCHANGED <<job, applied, mem, memLatest, dbReady,
                                  removing, treeIn, treeDone, reader, fault>>
              ELSE fault' = "startup" /\ UNCHANGED procVars
    /\ UNCHANGED <<role, diskVars, chain, executed, rebuildCfg, crashes, reorgs>>

Crash ==
    /\ up
    /\ crashes + reorgs < MaxFaults
    /\ crashes' = crashes + 1
    /\ Down
    /\ UNCHANGED <<role, diskVars, chain, committed, executed, rebuildCfg, reorgs,
                   skipped, fault>>

\* A component returned an error or panicked: the process exits.
Fail(cause) ==
    /\ Down
    /\ fault' = cause
    /\ UNCHANGED <<role, diskVars, envVars, skipped>>

----------------------------------------------------------------------------
(* Executor and applier *)

\* State after block n: the diffs up to it.  The executor waits for the
\* applier, so its overlays are empty and it reads the state after n - 1.
ReadAt(n) == [k \in 1..n |-> diffs[k]]
ViewForBlock(n) == ReadAt(n - 1)
ExecuteBlock(n, parent, content) ==
    Append(parent, IF ViewForBlock(n) = parent THEN content ELSE Garbled)

\* A rebuilt block gets new content at `from`; later blocks keep theirs.
RebuiltContent(n) == IF n = rebuilding THEN 2 ELSE Last(wal[n])

Executed(n, hash, over) ==
    /\ job' = [pc |-> "wal", n |-> n, hash |-> hash, over |-> over]
    /\ next' = n + 1
    /\ UNCHANGED <<role, diskVars, envVars, fault, up, applied, mem, memLatest, dbReady,
                   removing, treeIn, treeDone, reader, rebuilding, skipped>>

\* The canonical record of a block.
GetReplayRecord(n) == wal[n]

\* Replay: the output must have the hash of the record.
Replay(n, parent, record, over) ==
    /\ n - 1 <= stateLatest
    /\ LET hash == ExecuteBlock(n, parent, Last(record))
       IN  IF hash = record THEN Executed(n, hash, over) ELSE Fail("mismatch")

ReplayWal ==
    /\ up /\ role = "main" /\ job.pc = "idle"
    /\ next <= Len(wal) /\ (rebuilding = 0 \/ next < rebuilding)
    /\ Replay(next, Parent(wal, next), GetReplayRecord(next), FALSE)

ReplayFromMainNode ==
    /\ up /\ role = "external" /\ job.pc = "idle"
    /\ next <= Len(chain)
    /\ Replay(next, SubSeq(chain, 1, next - 1), SubSeq(chain, 1, next), TRUE)

Rebuild ==
    /\ up /\ role = "main" /\ job.pc = "idle"
    /\ rebuilding # 0 /\ next >= rebuilding /\ next <= Len(wal)
    /\ Executed(next, ExecuteBlock(next, Parent(wal, next), RebuiltContent(next)), TRUE)

Produce ==
    /\ up /\ role = "main" /\ job.pc = "idle"
    /\ next = Len(wal) + 1 /\ next <= MaxBlock
    /\ Executed(next, ExecuteBlock(next, Parent(wal, next), 1), FALSE)

JobStep(pc) ==
    /\ job' = [job EXCEPT !.pc = pc]
    /\ UNCHANGED <<role, envVars, fault, up, next, removing, treeDone, reader,
                   rebuilding, skipped>>
RepoUnchanged == UNCHANGED <<repoDb, mem, memLatest, dbReady, applied, treeIn, tree>>

\* The record becomes the canonical one of its block, in one write.
PutCanonical(n, hash) ==
    IF n <= Len(wal) THEN [wal EXCEPT ![n] = hash] ELSE Append(wal, hash)

\* An override of a different record first stores the old one under its hash.
ArchiveOldRecord ==
    /\ job.pc = "wal" /\ job.over
    /\ job.n <= Len(wal) /\ wal[job.n] # job.hash /\ wal[job.n] \notin archived
    /\ archived' = archived \cup {wal[job.n]}
    /\ JobStep("wal") /\ RepoUnchanged
    /\ UNCHANGED <<wal, diffs, stateLatest>>

WriteReplay ==
    /\ job.pc = "wal"
    /\ ~(job.over /\ job.n <= Len(wal) /\ wal[job.n] # job.hash /\ wal[job.n] \notin archived)
    /\ job.n <= Len(wal) + 1
    /\ wal' = IF job.n <= Len(wal) /\ ~job.over THEN wal ELSE PutCanonical(job.n, job.hash)
    /\ JobStep(IF job.over /\ job.n <= stateLatest THEN "drop" ELSE "state")
    /\ RepoUnchanged
    /\ UNCHANGED <<archived, diffs, stateLatest>>

\* First batch of an override: the data of the block and of all later ones
\* goes, the recorded latest block stays.
DropDiffs ==
    /\ job.pc = "drop"
    /\ diffs' = [k \in DOMAIN diffs |-> IF k >= job.n THEN Missing ELSE diffs[k]]
    /\ JobStep("state") /\ RepoUnchanged
    /\ UNCHANGED <<wal, archived, stateLatest>>

AddDiff ==
    /\ job.pc = "state"
    /\ job.over \/ job.n = stateLatest + 1
    /\ diffs' = [diffs EXCEPT ![job.n] = Last(job.hash)]
    /\ stateLatest' = job.n
    /\ JobStep("repo") /\ RepoUnchanged
    /\ UNCHANGED <<wal, archived>>

\* Replaying a block the state already has only compares the values.
CheckDiff ==
    /\ job.pc = "state" /\ ~job.over /\ job.n # stateLatest + 1
    /\ IF job.n <= stateLatest /\ diffs[job.n] = Last(job.hash)
       THEN JobStep("repo") /\ RepoUnchanged /\ UNCHANGED <<wal, archived, diffs, stateLatest>>
       ELSE Fail("discrepancy")

\* The repository in memory: blocks by number.
InsertBlock(n, hash) ==
    [k \in DOMAIN mem \cup {n} |-> IF k = n THEN hash ELSE mem[k]]
RemoveBlock(n) == [k \in DOMAIN mem \ {n} |-> mem[k]]

\* Mutant: the blocks above the first one of the session stay.
MutRollbackDb(lastToKeep) == repoDb

\* The database keeps the blocks up to the given one, in one write.
RollbackDb(lastToKeep) == SubSeq(repoDb, 1, Min({lastToKeep, Len(repoDb)}))
WriteBlock(hash) == Append(repoDb, hash)

\* The first block of a session rolls the repository back to its parent.
RollbackRepository ==
    /\ job.pc = "repo" /\ ~dbReady
    /\ repoDb' = RollbackDb(job.n - 1)
    /\ dbReady' = TRUE
    /\ JobStep("repo")
    /\ UNCHANGED <<wal, archived, diffs, stateLatest, tree, mem, memLatest, applied, treeIn>>

PopulateInMemory ==
    /\ job.pc = "repo" /\ dbReady
    /\ Len(repoDb) >= Max2(memLatest - Retain, 0)
    /\ mem' = InsertBlock(job.n, job.hash)
    /\ memLatest' = job.n
    /\ applied' = job.n
    /\ treeIn' = Append(treeIn, job.hash)
    /\ JobStep("idle")
    /\ UNCHANGED <<diskVars, dbReady>>

----------------------------------------------------------------------------
(* Persist loop of the repository *)

PersistUnchanged == UNCHANGED <<role, wal, archived, diffs, stateLatest, tree, envVars,
    up, next, job, applied, memLatest, dbReady, treeIn, treeDone, reader, rebuilding, skipped>>

\* Mutant: the block leaves memory before it is in the database.
MutPersistBlock ==
    /\ up /\ dbReady /\ removing = 0
    /\ memLatest >= Len(repoDb) + 1
    /\ mem' = RemoveBlock(Len(repoDb) + 1)
    /\ UNCHANGED <<repoDb, fault, removing>> /\ PersistUnchanged

PersistBlock ==
    /\ up /\ dbReady /\ removing = 0
    /\ memLatest >= Len(repoDb) + 1
    /\ LET n == Len(repoDb) + 1
       IN  IF n \in DOMAIN mem
           THEN /\ repoDb' = WriteBlock(mem[n])
                /\ removing' = n
                /\ UNCHANGED <<mem, fault>> /\ PersistUnchanged
           ELSE Fail("persist")

RemoveFromMemory ==
    /\ up /\ removing # 0
    /\ mem' = RemoveBlock(removing)
    /\ removing' = 0
    /\ UNCHANGED <<repoDb, fault>> /\ PersistUnchanged

----------------------------------------------------------------------------
(* An RPC read by number: memory first, then the database *)

ReaderUnchanged == UNCHANGED <<role, diskVars, envVars, fault, up, next, job, applied, mem,
    memLatest, dbReady, removing, treeIn, treeDone, rebuilding, skipped>>
GetLatestBlock == Max2(memLatest, Len(repoDb))

ReadMemory ==
    /\ up /\ dbReady /\ reader.pc # "db"
    /\ \E n \in 1..GetLatestBlock :
           reader' = IF n \in DOMAIN mem THEN [pc |-> "found", hash |-> mem[n], n |-> n]
                     ELSE [pc |-> "db", n |-> n]
    /\ ReaderUnchanged

ReadDb ==
    /\ up /\ reader.pc = "db"
    /\ reader' = IF reader.n <= Len(repoDb)
                 THEN [pc |-> "found", hash |-> repoDb[reader.n], n |-> reader.n]
                 ELSE [pc |-> "missed", n |-> reader.n]
    /\ ReaderUnchanged

----------------------------------------------------------------------------
(* Tree manager *)

TreeUnchanged == UNCHANGED <<role, wal, archived, diffs, stateLatest, repoDb, envVars,
    up, next, job, applied, mem, memLatest, dbReady, removing, reader, rebuilding, skipped>>

TruncateTree ==
    /\ up /\ treeIn # <<>>
    /\ LET first == Len(Head(treeIn))
       IN  first <= Len(tree) /\ tree' = SubSeq(tree, 1, first - 1)
    /\ UNCHANGED <<treeIn, treeDone, fault>> /\ TreeUnchanged

\* One new version per block, on top of the version of its parent.
ExtendTree(blocks) == tree \o [i \in DOMAIN blocks |-> Last(blocks[i])]

\* Takes the blocks that are waiting and flushes their versions in one write.
UpdateTree ==
    /\ up /\ treeIn # <<>>
    /\ LET first == Len(Head(treeIn))
       IN  /\ first > Len(tree)
           /\ IF first = Len(tree) + 1
              THEN \E k \in 1..Len(treeIn) :
                   /\ tree' = ExtendTree(SubSeq(treeIn, 1, k))
                   /\ treeDone' = Len(treeIn[k])
                   /\ treeIn' = SubSeq(treeIn, k + 1, Len(treeIn))
                   /\ UNCHANGED fault /\ TreeUnchanged
              ELSE Fail("tree")

----------------------------------------------------------------------------
(* L1, the operator and the main node of an external node *)

EnvUnchanged == UNCHANGED <<role, diskVars, procVars, fault, crashes>>

CommitOnL1 ==
    /\ \E n \in (committed + 1)..MaxBlock :
           /\ IF role = "main" THEN up /\ n <= treeDone /\ n <= applied ELSE n <= Len(chain)
           /\ committed' = n
    /\ UNCHANGED <<chain, executed, rebuildCfg, reorgs>> /\ EnvUnchanged

ExecuteOnL1 ==
    /\ executed < committed
    /\ executed' = committed
    /\ UNCHANGED <<chain, committed, rebuildCfg, reorgs>> /\ EnvUnchanged

ConfigureRebuild ==
    /\ ~up /\ role = "main" /\ reorgs < MaxReorgs /\ crashes + reorgs < MaxFaults
    /\ reorgs' = reorgs + 1
    /\ \E from \in (executed + 1)..Len(repoDb) :
           rebuildCfg' = [from |-> from, hash |-> repoDb[from], l1 |-> from <= committed]
    /\ UNCHANGED <<chain, committed, executed>> /\ EnvUnchanged

MainNodeProduces ==
    /\ role = "external" /\ Len(chain) < MaxBlock
    /\ chain' = Append(chain, 1)
    /\ UNCHANGED <<committed, executed, rebuildCfg, reorgs>> /\ EnvUnchanged

MainNodeRebuilds ==
    /\ role = "external" /\ reorgs < MaxReorgs /\ crashes + reorgs < MaxFaults
    /\ reorgs' = reorgs + 1
    /\ \E from \in (executed + 1)..Len(chain) :
           /\ chain' = Append(SubSeq(chain, 1, from - 1), 2)
           /\ committed' = Min({committed, from - 1})
    /\ UNCHANGED <<executed, rebuildCfg>> /\ EnvUnchanged

----------------------------------------------------------------------------
\* Each store starts with the genesis block, which is block 0.
WalInit == wal = <<>> /\ archived = {}
StateInit == diffs = [n \in 1..MaxBlock |-> Missing] /\ stateLatest = 0
RepositoryInit == repoDb = <<>>
TreeInit == tree = <<>>
StorageInit ==
    /\ role \in Roles
    /\ WalInit /\ StateInit /\ RepositoryInit /\ TreeInit
    /\ up = FALSE /\ next = 0 /\ job = NoJob /\ applied = 0
    /\ mem = <<>> /\ memLatest = 0 /\ dbReady = FALSE /\ removing = 0
    /\ treeIn = <<>> /\ treeDone = 0 /\ reader = NoReader
    /\ rebuilding = 0 /\ skipped = "no"
    /\ chain = <<>> /\ committed = 0 /\ executed = 0
    /\ rebuildCfg = NoRebuild /\ crashes = 0 /\ reorgs = 0 /\ fault = "none"

Apply == ArchiveOldRecord \/ WriteReplay \/ DropDiffs \/ AddDiff \/ CheckDiff
         \/ RollbackRepository \/ PopulateInMemory
StorageNext ==
    \/ Startup \/ Crash
    \/ ReplayWal \/ ReplayFromMainNode \/ Rebuild \/ Produce
    \/ Apply
    \/ PersistBlock \/ RemoveFromMemory \/ ReadMemory \/ ReadDb
    \/ TruncateTree \/ UpdateTree
    \/ CommitOnL1 \/ ExecuteOnL1 \/ ConfigureRebuild
    \/ MainNodeProduces \/ MainNodeRebuilds
StorageSpec == StorageInit /\ [][StorageNext]_storageVars

----------------------------------------------------------------------------
(* Properties *)

\* Once the first block of a session is in, every store holds the block the
\* replay log holds: the repository database and memory, the diffs of applied
\* blocks and the tree versions handed on; and no block was ever executed on
\* a state other than its parent's (BlockApplier::run, add_block,
\* RepositoryManager::populate, TreeManager::run after any crash).  The tree
\* of an external node that follows a main-node rebuild is excepted: startup
\* compares the height of the tree only, so a crash before the tree manager
\* truncated the abandoned versions can leave some of them below the new
\* starting block.
StoresAgree ==
    dbReady =>
        /\ \A n \in 1..Len(repoDb) : repoDb[n] = wal[n]
        /\ \A n \in DOMAIN mem : mem[n] = wal[n]
        /\ \A n \in 1..applied : diffs[n] \in {Missing, Last(wal[n])}
        /\ role = "main" \/ reorgs = 0 =>
               \A n \in 1..treeDone : tree[n] = Last(wal[n])
        /\ \A n \in 1..Len(wal) : Garbled \notin Range(wal[n])

\* A reader that asks for a block at or below the latest one finds it, while
\* the persist loop moves it from memory to the database
\* (run_persist_loop against get_block_by_number).
ReadsFindBlock == reader.pc # "missed"

\* A main node never fails to come back: whatever step a crash interrupts,
\* startup's assertions hold, replaying the WAL reproduces every record and
\* every store accepts it.  Two exceptions need the operator: an L1 revert
\* that finds nothing left to revert, and a rebuild that startup dropped (see
\* RebuildRan).
MainNodeRecovers == role = "main" /\ skipped = "no" => fault \in {"none", "revert"}

\* What the doc comment of from_block_hash_matches says of a changed hash:
\* "the rebuild/revert already ran on a previous startup".  Then every record
\* of the WAL extends the record before it.
RebuildRan ==
    up /\ skipped = "changed" => \A n \in 2..Len(wal) : SubSeq(wal[n], 1, n - 1) = wal[n - 1]

\* What ReadStateHistory says of block_range_available: "Block numbers whose
\* state diffs are available in state."  Asked between two blocks.
RangeAvailable ==
    job.pc = "idle" => \A n \in 1..stateLatest : diffs[n] # Missing

-----------------------------------------------------------------------------
(***************************************************************************)
(* The RocksDB wrapper every store is written through (lib/rocksdb/src/    *)
(* db.rs): strong and weak handles of an instance, the count of instances  *)
(* that await_rocksdb_termination waits on, and writes that are retried    *)
(* while RocksDB has stalled writes.  It shares no state with the stores.  *)
(***************************************************************************)

dbVars == <<dbInst, dbHandles, dbCount, dbAwait, dbStalled, dbWrite, dbOpens, dbWrites>>

\* A write: where it is, the ticks since it began, whether a stall was reported.
NoWrite == [at |-> "none", elapsed |-> 0, reported |-> FALSE, big |-> FALSE]

DbInit ==
    /\ dbInst = [d \in Dbs |-> "closed"] /\ dbHandles = [d \in Dbs |-> 0]
    /\ dbCount = 0 /\ dbAwait = "idle"
    /\ dbStalled = [d \in Dbs |-> FALSE] /\ dbWrite = [d \in Dbs |-> NoWrite]
    /\ dbOpens = 0 /\ dbWrites = 0

\* notify_all after every change of the count.
Notified == IF dbAwait = "waiting" THEN "woken" ELSE dbAwait

\* with_options: the instance is counted once it is open.  A directory is
\* opened by one instance at a time.
WithOptions(d) ==
    /\ dbInst[d] = "closed" /\ dbOpens < DbMaxOpens
    /\ dbInst' = [dbInst EXCEPT ![d] = "starting"]
    /\ dbHandles' = [dbHandles EXCEPT ![d] = 1]
    /\ dbCount' = dbCount + 1 /\ dbAwait' = Notified
    /\ dbOpens' = dbOpens + 1
    /\ UNCHANGED <<dbStalled, dbWrite, dbWrites>>

\* wait_for_writes_to_resume: until no column family is stopped, or the retries
\* are used up and the node proceeds with stopped writes.
WaitForWritesToResume(d) ==
    /\ dbInst[d] = "starting"
    /\ ~dbStalled[d] \/ dbWrite[d].elapsed > DbTimeout
    /\ dbInst' = [dbInst EXCEPT ![d] = "open"]
    /\ dbWrite' = [dbWrite EXCEPT ![d] = NoWrite]
    /\ UNCHANGED <<dbHandles, dbCount, dbAwait, dbStalled, dbOpens, dbWrites>>

\* Clone, and WeakRocksDB::upgrade, which succeeds while a strong handle is left.
CloneHandle(d) ==
    /\ dbInst[d] = "open" /\ dbHandles[d] \in 1..DbMaxHandles - 1
    /\ dbHandles' = [dbHandles EXCEPT ![d] = @ + 1]
    /\ UNCHANGED <<dbInst, dbCount, dbAwait, dbStalled, dbWrite, dbOpens, dbWrites>>

\* The last handle drops the inner instance: Drop cancels background work, then
\* the fields go in the order of their declaration, the database before the entry.
DropHandle(d) ==
    /\ dbInst[d] = "open" /\ dbHandles[d] > 0
    /\ dbHandles[d] = 1 => dbWrite[d].at = "none"
    /\ dbHandles' = [dbHandles EXCEPT ![d] = @ - 1]
    /\ dbInst' = [dbInst EXCEPT ![d] = IF dbHandles[d] = 1 THEN "canceled" ELSE @]
    /\ UNCHANGED <<dbCount, dbAwait, dbStalled, dbWrite, dbOpens, dbWrites>>

MutDropOrder == <<"entry", "db">>
DropOrder == <<"db", "entry">>

Release(d, field) ==
    /\ dbInst' = [dbInst EXCEPT ![d] =
           IF field = "db" THEN (IF dbInst[d] = "canceled" THEN "released" ELSE "closed")
                           ELSE (IF dbInst[d] = "canceled" THEN "uncounted" ELSE "closed")]
    /\ dbCount' = IF field = "entry" THEN dbCount - 1 ELSE dbCount
    /\ dbAwait' = IF field = "entry" THEN Notified ELSE dbAwait
    /\ UNCHANGED <<dbHandles, dbStalled, dbWrite, dbOpens, dbWrites>>

DropField(d) ==
    \/ dbInst[d] = "canceled" /\ Release(d, DropOrder[1])
    \/ dbInst[d] \in {"released", "uncounted"} /\ Release(d, DropOrder[2])

\* await_rocksdb_termination checks the count under the lock and waits on it.
AwaitRocksdbTermination ==
    /\ dbAwait \in {"idle", "woken", "done"}
    /\ dbAwait' = IF dbCount = 0 THEN "done" ELSE "waiting"
    /\ UNCHANGED <<dbInst, dbHandles, dbCount, dbStalled, dbWrite, dbOpens, dbWrites>>

-----------------------------------------------------------------------------
(* Writes. *)

\* RocksDB stalls the writes of a database, and resumes them after compaction.
Stall(d) ==
    /\ dbInst[d] \in {"starting", "open"}
    /\ dbStalled' = [dbStalled EXCEPT ![d] = ~@]
    /\ UNCHANGED <<dbInst, dbHandles, dbCount, dbAwait, dbWrite, dbOpens, dbWrites>>

Write(d, big) ==
    /\ dbInst[d] = "open" /\ dbWrite[d].at = "none" /\ dbWrites < DbMaxWrites
    /\ dbWrite' = [dbWrite EXCEPT ![d] = [NoWrite EXCEPT !.at = "try", !.big = big]]
    /\ dbWrites' = dbWrites + 1
    /\ UNCHANGED <<dbInst, dbHandles, dbCount, dbAwait, dbStalled, dbOpens>>

\* The iterator of intervals is at its end once the timeout has passed.
RetriesLeft(w) == w.elapsed <= DbTimeout

\* What the loop makes of a stall: a batch too large to be kept is not retried;
\* a stall after the first reported one is returned.
AfterStall(w) ==
    IF w.big \/ w.reported \/ ~RetriesLeft(w) THEN [w EXCEPT !.at = "stall_error"]
    ELSE [w EXCEPT !.at = "sleep", !.reported = TRUE]

WriteInner(d) ==
    /\ dbWrite[d].at = "try"
    /\ \/ dbWrite' = [dbWrite EXCEPT ![d] = IF dbStalled[d] THEN AfterStall(dbWrite[d])
                                            ELSE [@ EXCEPT !.at = "ok"]]
       \/ dbWrite' = [dbWrite EXCEPT ![d].at = "other_error"]
    /\ UNCHANGED <<dbInst, dbHandles, dbCount, dbAwait, dbStalled, dbOpens, dbWrites>>

WakeUp(d) ==
    /\ dbWrite[d].at = "sleep"
    /\ dbWrite' = [dbWrite EXCEPT ![d].at = "try"]
    /\ UNCHANGED <<dbInst, dbHandles, dbCount, dbAwait, dbStalled, dbOpens, dbWrites>>

\* Time passes for a sleeping writer, or for an instance that waits to start.
PassTime(d) ==
    /\ dbWrite[d].at = "sleep" \/ dbInst[d] = "starting"
    /\ dbWrite[d].elapsed <= DbTimeout
    /\ dbWrite' = [dbWrite EXCEPT ![d].elapsed = @ + 1]
    /\ UNCHANGED <<dbInst, dbHandles, dbCount, dbAwait, dbStalled, dbOpens, dbWrites>>

WriteReturns(d) ==
    /\ dbWrite[d].at \in {"ok", "stall_error", "other_error"}
    /\ dbWrite' = [dbWrite EXCEPT ![d] = NoWrite]
    /\ UNCHANGED <<dbInst, dbHandles, dbCount, dbAwait, dbStalled, dbOpens, dbWrites>>

DbNext ==
    \/ \E d \in Dbs :
         \/ WithOptions(d) \/ WaitForWritesToResume(d) \/ CloneHandle(d) \/ DropHandle(d)
         \/ DropField(d) \/ Stall(d) \/ WriteInner(d) \/ WakeUp(d) \/ PassTime(d)
         \/ WriteReturns(d) \/ \E big \in BOOLEAN : Write(d, big)
    \/ AwaitRocksdbTermination

-----------------------------------------------------------------------------
(* Properties. *)

\* await_rocksdb_termination returns only when every database is closed and can
\* be opened again by a new node, and no waiter sleeps on a count that is zero.
TerminationMeansClosed ==
    /\ dbCount = 0 => \A d \in Dbs : dbInst[d] = "closed"
    /\ dbAwait = "waiting" => dbCount > 0

\* "Timeout to wait for the database to run compaction on stalled writes during
\* startup or when the corresponding RocksDB error is encountered"
\* (lib/rocksdb/src/db.rs:343): a write that can be retried fails with a stall
\* only when the timeout is over.
StallsWaitedOut ==
    \A d \in Dbs : dbWrite[d].at = "stall_error" /\ ~dbWrite[d].big => ~RetriesLeft(dbWrite[d])
=============================================================================
