---------------------------- MODULE ReplayArchive ----------------------------
(***************************************************************************)
(* The cold copy of the replay records (lib/replay_archive): the write     *)
(* path of a node (WAL write, bounded queue, concurrent conditional        *)
(* creates), the gate that holds a batch back from L1 until its blocks are *)
(* archived, and the recovery tool that downloads the objects and rebuilds *)
(* a WAL from an anchor block.                                             *)
(*                                                                         *)
(* A block hash is the path from genesis to the block, one version per     *)
(* height, so the height of a block is the length of its hash and its      *)
(* parent is the hash without its last version.  A rebuilt block has a     *)
(* version of its own.                                                     *)
(***************************************************************************)
EXTENDS Integers, Sequences, FiniteSets, SequencesExt

CONSTANTS
    ArcBackends,      \* the storage kinds to check: subset of {"fs", "s3", "gcs"}
    ArcMaxBlock,      \* bound on the height of the chain
    ArcQueueSize,     \* REPLAY_ARCHIVE_QUEUE_SIZE
    ArcMaxPuts,       \* MAX_PARALLEL_OBJECT_PUTS
    ArcBatchSize,     \* bound on the blocks of a batch
    ArcMaxCrashes,    \* bound on stops of the node
    ArcMaxForks       \* bound on rebuilds

VARIABLES
    arcBackend,       \* the configured storage
    arcPhase,         \* "down", "opened" (WAL opened) or "running"
    arcGenesisNew,    \* this start inserted the genesis record into the WAL
    arcWal,           \* set of the records of the WAL's canonical chain
    arcNext,          \* height of the next block to write, 0 before the pipeline runs
    arcPending,       \* a written record that waits for a place in the queue
    arcQueue,         \* the channel to the archive component
    arcPuts,          \* the archive operations in progress: record -> stage
    arcTemps,         \* temporary files on disk (filesystem only)
    arcObjects,       \* the objects of the archive
    arcCommitted,     \* the last block that passed the gate
    arcDisk,          \* the recovery layout: objects downloaded so far
    arcPage,          \* the keys listed and still to be fetched
    arcCrashes, arcForks

arcVars == <<arcBackend, arcPhase, arcGenesisNew, arcWal, arcNext, arcPending, arcQueue, arcPuts,
             arcTemps, arcObjects, arcCommitted, arcDisk, arcPage, arcCrashes, arcForks>>

toolVars == <<arcDisk, arcPage>>

Genesis == << >>
NoPending == <<-1>>
Number(hash) == Len(hash)
Parent(hash) == Front(hash)
Block(n) == CHOOSE hash \in arcWal : Number(hash) = n
Tip == Cardinality(arcWal) - 1

Running == arcPhase = "running"

-----------------------------------------------------------------------------
(* The node: WAL, queue, start and stop. *)

ArchiveInit ==
    /\ arcBackend \in ArcBackends
    /\ arcPhase = "down" /\ arcGenesisNew = FALSE
    /\ arcWal = {} /\ arcNext = 0 /\ arcPending = NoPending
    /\ arcQueue = << >> /\ arcPuts = << >> /\ arcTemps = {} /\ arcObjects = {}
    /\ arcCommitted = 0 /\ arcDisk = {} /\ arcPage = {}
    /\ arcCrashes = 0 /\ arcForks = 0

\* BlockReplayStorage::new: an empty WAL gets the genesis record, and only
\* then is the record handed to the caller.
OpenWal ==
    /\ arcPhase = "down" /\ arcPage = {} /\ arcDisk = {}
    /\ arcPhase' = "opened"
    /\ arcGenesisNew' = (arcWal = {})
    /\ arcWal' = arcWal \cup {Genesis}
    /\ UNCHANGED <<arcBackend, arcNext, arcPending, arcQueue, arcPuts, arcTemps, arcObjects,
                   arcCommitted, arcCrashes, arcForks, toolVars>>

\* A rebuild on startup replaces the blocks from a height above the last
\* committed one: the old records leave the canonical chain.
RebuildFrom(n) == {hash \in arcWal : Number(hash) < n}

\* init_replay_archive and the start of the pipeline.  The first replayed block
\* is not above the last executed, hence not above the last committed one.
StartArchive(start, rebuild) ==
    /\ arcPhase = "opened"
    /\ arcPhase' = "running"
    /\ arcQueue' = IF arcGenesisNew THEN <<Genesis>> ELSE << >>
    /\ start \in 1..(arcCommitted + 1)
    /\ arcNext' = start
    /\ \/ rebuild = 0 /\ UNCHANGED <<arcWal, arcForks>>
       \/ /\ rebuild \in (arcCommitted + 1)..Tip /\ rebuild >= start /\ arcForks < ArcMaxForks
          /\ arcWal' = RebuildFrom(rebuild)
          /\ arcForks' = arcForks + 1
    /\ UNCHANGED <<arcBackend, arcGenesisNew, arcPending, arcPuts, arcTemps, arcObjects,
                   arcCommitted, arcCrashes, toolVars>>

\* ReplayArchivingWriteReplay::write, its first half: the WAL write, which
\* leaves an existing record as it is.
WriteReplay ==
    /\ Running /\ arcPending = NoPending /\ arcNext <= ArcMaxBlock
    /\ LET new == IF arcNext <= Tip THEN Block(arcNext) ELSE Append(Block(Tip), arcForks) IN
       /\ arcWal' = arcWal \cup {new}
       /\ arcPending' = new
    /\ arcNext' = arcNext + 1
    /\ UNCHANGED <<arcBackend, arcPhase, arcGenesisNew, arcQueue, arcPuts, arcTemps, arcObjects,
                   arcCommitted, arcCrashes, arcForks, toolVars>>

\* Its second half: the record, new or not, is sent once the queue has room.
Enqueue ==
    /\ arcPending # NoPending /\ Len(arcQueue) < ArcQueueSize
    /\ arcQueue' = Append(arcQueue, arcPending)
    /\ arcPending' = NoPending
    /\ UNCHANGED <<arcBackend, arcPhase, arcGenesisNew, arcWal, arcNext, arcPuts, arcTemps,
                   arcObjects, arcCommitted, arcCrashes, arcForks, toolVars>>

\* The process stops, at any point or because the archive component failed.
StopNode ==
    /\ arcPhase # "down" /\ arcCrashes < ArcMaxCrashes
    /\ arcPhase' = "down" /\ arcCrashes' = arcCrashes + 1
    /\ arcGenesisNew' = FALSE /\ arcNext' = 0 /\ arcPending' = NoPending
    /\ arcQueue' = << >> /\ arcPuts' = << >>
    /\ UNCHANGED <<arcBackend, arcWal, arcTemps, arcObjects, arcCommitted, arcForks, toolVars>>

-----------------------------------------------------------------------------
(* ReplayArchiveComponent: up to ArcMaxPuts records at a time. *)

nodeVars == <<arcBackend, arcPhase, arcGenesisNew, arcWal, arcNext, arcPending, arcCommitted,
              arcCrashes, arcForks>>

SetStage(hash, stage) ==
    arcPuts' = [h \in DOMAIN arcPuts \cup {hash} |-> IF h = hash THEN stage ELSE arcPuts[h]]
Finish(hash) == arcPuts' = [h \in DOMAIN arcPuts \ {hash} |-> arcPuts[h]]

TakeRecord ==
    /\ Running /\ arcQueue # << >> /\ Cardinality(DOMAIN arcPuts) < ArcMaxPuts
    /\ Head(arcQueue) \notin DOMAIN arcPuts
    /\ SetStage(Head(arcQueue), "check")
    /\ arcQueue' = Tail(arcQueue)
    /\ UNCHANGED <<nodeVars, arcTemps, arcObjects, toolVars>>

\* contains_object of each storage: temporary files are no objects.
ContainsFs(hash) == hash \in arcObjects
ContainsS3(hash) == hash \in arcObjects
ContainsGcs(hash) == hash \in arcObjects
ContainsObject(hash) ==
    CASE arcBackend = "fs" -> ContainsFs(hash)
      [] arcBackend = "s3" -> ContainsS3(hash)
      [] arcBackend = "gcs" -> ContainsGcs(hash)

\* ensure_object_archived: an object that is there is left alone, else the
\* record is encoded (and encrypted) and put.
EnsureObjectArchived(hash) ==
    /\ hash \in DOMAIN arcPuts /\ arcPuts[hash] = "check"
    /\ IF ContainsObject(hash) THEN Finish(hash) ELSE SetStage(hash, "put")
    /\ UNCHANGED <<nodeVars, arcQueue, arcTemps, arcObjects, toolVars>>

\* put_object_file_if_absent: a temporary file, then a hard link to the final
\* name, which fails if that exists; then the temporary file is removed.
WriteTempFile(hash) ==
    /\ arcBackend = "fs" /\ hash \in DOMAIN arcPuts /\ arcPuts[hash] = "put"
    /\ arcTemps' = arcTemps \cup {hash}
    /\ SetStage(hash, "link")
    /\ UNCHANGED <<nodeVars, arcQueue, arcObjects, toolVars>>

LinkTempFile(hash) ==
    /\ hash \in DOMAIN arcPuts /\ arcPuts[hash] = "link"
    /\ arcObjects' = arcObjects \cup {hash}
    /\ arcTemps' = arcTemps \ {hash}
    /\ Finish(hash)
    /\ UNCHANGED <<nodeVars, arcQueue, toolVars>>

\* The conditional creates of S3 and GCS: created, or there already.  An error
\* of the request, even after it took effect, fails the component: StopNode.
PutS3(hash) ==
    /\ arcBackend = "s3" /\ hash \in DOMAIN arcPuts /\ arcPuts[hash] = "put"
    /\ arcObjects' = arcObjects \cup {hash}
    /\ \/ Finish(hash)
       \/ SetStage(hash, "failed")
    /\ UNCHANGED <<nodeVars, arcQueue, arcTemps, toolVars>>

PutGcs(hash) ==
    /\ arcBackend = "gcs" /\ hash \in DOMAIN arcPuts /\ arcPuts[hash] = "put"
    /\ arcObjects' = arcObjects \cup {hash}
    /\ \/ Finish(hash)
       \/ SetStage(hash, "failed")
    /\ UNCHANGED <<nodeVars, arcQueue, arcTemps, toolVars>>

ComponentFails ==
    /\ \E hash \in DOMAIN arcPuts : arcPuts[hash] = "failed"
    /\ arcPhase' = "down"
    /\ arcGenesisNew' = FALSE /\ arcNext' = 0 /\ arcPending' = NoPending
    /\ arcQueue' = << >> /\ arcPuts' = << >>
    /\ UNCHANGED <<arcBackend, arcWal, arcTemps, arcObjects, arcCommitted, arcCrashes, arcForks, toolVars>>

\* Another node of the network archives a block of this chain.
OtherNodePuts(hash) ==
    /\ hash \in arcWal
    /\ arcObjects' = arcObjects \cup {hash}
    /\ UNCHANGED <<nodeVars, arcQueue, arcPuts, arcTemps, toolVars>>

-----------------------------------------------------------------------------
(* ReplayArchiveGateComponent *)

\* The hashes of a batch, from the last block back: a block's parent hash is
\* read from its replay record in the WAL.
BatchHashes(last, first) ==
    LET walk[n \in first..last] == IF n = last THEN Block(last) ELSE Parent(walk[n + 1])
    IN  {walk[n] : n \in first..last}

\* Mutant: only the last block of the batch is looked up.
MutGatePass(last) ==
    /\ Running /\ last \in (arcCommitted + 1)..(arcCommitted + ArcBatchSize)
    /\ last < arcNext /\ last <= Tip
    /\ ContainsObject(Block(last))
    /\ arcCommitted' = last
    /\ UNCHANGED <<arcBackend, arcPhase, arcGenesisNew, arcWal, arcNext, arcPending, arcQueue,
                   arcPuts, arcTemps, arcObjects, arcCrashes, arcForks, toolVars>>

\* A batch of blocks that passed the block applier is sent on to the L1 sender
\* when the archive has all of its blocks.
GatePass(last) ==
    /\ Running /\ last \in (arcCommitted + 1)..(arcCommitted + ArcBatchSize)
    /\ last < arcNext /\ last <= Tip
    /\ \A hash \in BatchHashes(last, arcCommitted + 1) : ContainsObject(hash)
    /\ arcCommitted' = last
    /\ UNCHANGED <<arcBackend, arcPhase, arcGenesisNew, arcWal, arcNext, arcPending, arcQueue,
                   arcPuts, arcTemps, arcObjects, arcCrashes, arcForks, toolVars>>

-----------------------------------------------------------------------------
(* The recovery tool, run when the node is lost. *)

\* list_keys_page: keys that parse, of any part of the archive.  A page is
\* listed again only after the one before it was fetched.
ListKeysPage(keys) ==
    /\ arcPhase = "down" /\ arcPage = {}
    /\ keys # {} /\ keys \subseteq arcObjects \ arcDisk
    /\ arcPage' = keys
    /\ UNCHANGED <<nodeVars, arcQueue, arcPuts, arcTemps, arcObjects, arcDisk>>

\* fetch_object and write_downloaded_object: a partial file is renamed, so the
\* layout has whole objects only.
FetchObject(hash) ==
    /\ arcPhase = "down" /\ hash \in arcPage
    /\ arcDisk' = arcDisk \cup {hash}
    /\ arcPage' = arcPage \ {hash}
    /\ UNCHANGED <<nodeVars, arcQueue, arcPuts, arcTemps, arcObjects>>

\* The download stops and starts again: scan_existing_downloaded_objects finds
\* what is there, the rest is listed anew.
RestartDownload ==
    /\ arcPhase = "down" /\ arcPage # {}
    /\ arcPage' = {}
    /\ UNCHANGED <<nodeVars, arcQueue, arcPuts, arcTemps, arcObjects, arcDisk>>

Candidates(objects, n) == {hash \in objects : Number(hash) = n}

\* The windows of recover_replay_records_to_rocksdb_with_optional_decryption:
\* <<start, top>> pairs from the anchor's height down to 0.
BlockWindows(top, size) ==
    LET start(t) == IF t + 1 >= size THEN t + 1 - size ELSE 0
        more[t \in 0..top] == IF start(t) = 0 THEN <<<<0, t>>>>
                              ELSE <<<<start(t), t>>>> \o more[start(t) - 1]
    IN  more[top]

\* The walk: in each window the candidates of every height are read, and the
\* one with the expected hash gives the parent.  Empty if one is absent.
RecoverChain(objects, anchor, size) ==
    LET windows == BlockWindows(Number(anchor), size)
        heights == FlattenSeq([w \in DOMAIN windows |->
                     [i \in 1..(windows[w][2] - windows[w][1] + 1) |-> windows[w][2] + 1 - i]])
        readable == \A n \in 0..Number(anchor) : Candidates(objects, n) # {}
        expected[i \in 1..Len(heights)] == IF i = 1 THEN anchor ELSE Parent(expected[i - 1])
        found(i) == expected[i] \in Candidates(objects, heights[i])
    IN  IF readable /\ \A i \in 1..Len(heights) : found(i)
        THEN Reverse(expected) ELSE << >>

-----------------------------------------------------------------------------
ArchiveNext ==
    \/ OpenWal
    \/ \E start \in 1..(ArcMaxBlock + 1), rebuild \in 0..ArcMaxBlock : StartArchive(start, rebuild)
    \/ WriteReplay \/ Enqueue \/ StopNode
    \/ TakeRecord \/ ComponentFails
    \/ \E hash \in DOMAIN arcPuts :
         \/ EnsureObjectArchived(hash) \/ WriteTempFile(hash) \/ LinkTempFile(hash)
         \/ PutS3(hash) \/ PutGcs(hash)
    \/ \E hash \in arcWal : OtherNodePuts(hash)
    \/ \E last \in 1..ArcMaxBlock : GatePass(last)
    \/ \E keys \in SUBSET arcObjects : ListKeysPage(keys)
    \/ \E hash \in arcPage : FetchObject(hash)
    \/ RestartDownload

-----------------------------------------------------------------------------
(* Properties. *)

\* The chain that L1 has accepted batches of, from block 1 on.
CommittedHashes == {hash \in arcWal : Number(hash) \in 1..arcCommitted}

\* What passed the gate can be rebuilt: every block of a committed batch is in
\* the archive, with its own parent, whatever crashes, rebuilds and races came
\* before; and once the download is complete the recovery walk from the last
\* committed block returns exactly the WAL's chain, for every window size
\* (ReplayArchiveGateComponent::run, ReplayArchivingWriteReplay::write and
\* recover_replay_records_to_rocksdb).  The genesis record is excepted.
CommittedIsArchived ==
    /\ CommittedHashes \subseteq arcObjects
    /\ arcCommitted > 0 /\ arcDisk = arcObjects => \A size \in {1, 2, 4} :
         RecoverChain(arcDisk \cup {Genesis}, Block(arcCommitted), size)
           = [i \in 1..(arcCommitted + 1) |-> Block(i - 1)]

\* "can later be used to rebuild the node replay WAL ... walks backward until
\* block `0`" (lib/replay_archive/README.md): recovery from the last committed
\* block finds every record it needs, the genesis record included.
CommittedRecoverable ==
    arcCommitted > 0 /\ arcDisk = arcObjects =>
      RecoverChain(arcDisk, Block(arcCommitted), 1) # << >>

\* The node is restarted after a stop, and its tasks are scheduled.
ArchiveFairness ==
    /\ WF_arcVars(OpenWal)
    /\ WF_arcVars(\E start \in 1..(ArcMaxBlock + 1) : StartArchive(start, 0))
    /\ WF_arcVars(WriteReplay) /\ WF_arcVars(Enqueue) /\ WF_arcVars(TakeRecord)
    /\ WF_arcVars(\E hash \in DOMAIN arcPuts :
                    EnsureObjectArchived(hash) \/ WriteTempFile(hash) \/ LinkTempFile(hash))
    /\ WF_arcVars(\E last \in 1..ArcMaxBlock : GatePass(last))

ArchiveSpec == ArchiveInit /\ [][ArchiveNext]_arcVars /\ ArchiveFairness

\* Every batch gets through the gate unless the node is lost: no block the gate
\* waits for is left out of the archive, since write sends replayed records too.
GateOpens == <>(arcCommitted = ArcMaxBlock \/ arcPage # {})

=============================================================================
