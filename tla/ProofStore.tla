----------------------------- MODULE ProofStore -----------------------------
(* The bounded directories that hold FRI proofs (proof_storage.rs) and the   *)
(* requests that read them (prover_server/v1/handlers.rs).  psKind picks the *)
(* directory of a behaviour: "batches", filled in batch order by             *)
(* GaplessCommitter, for which a failing save ends the process, or "failed", *)
(* filled by rejected submissions, whose failing saves are only logged.      *)
(*                                                                           *)
(* A save holds the mutex from its first step to its last, so that only a    *)
(* crash comes between them; a request over a range takes it once per batch. *)
EXTENDS Integers, Sequences, FiniteSets, SequencesExt, Functions

CONSTANTS
    PsKinds,     \* the directories considered
    PsKeys,      \* batch numbers, 1..n
    PsSizes,     \* sizes of a serialized value
    PsCapacity,  \* capacity_bytes
    PsBurst,     \* bound on saves within one second of the clock
    PsMaxTime,   \* bound on the seconds that pass
    PsMaxCrashes \* bound on crashes

VARIABLES
    psKind,
    psFiles,     \* file name -> [value, size, mtime]; a name is <<key, 0>> or <<key, second of the overwrite>>
    psQueue,     \* remove_queue: [name, size]
    psOutdated,  \* outdated_count
    psSize,      \* current_size
    psNow, psInSecond, psWrites,
    psOp,        \* the save that holds the mutex
    psNext,      \* the batch GaplessCommitter saves next
    psUp, psCrashes,
    psLast,      \* last value saved under a key, 0 when none (history variable)
    psKept,      \* overwritten values that were not evicted since (history variable)
    psErrors,    \* saves that failed (history variable)
    psPeek       \* a range request: [from, next, to, proofs, status]
psVars == <<psKind, psFiles, psQueue, psOutdated, psSize, psNow, psInSecond, psWrites, psOp, psNext, psUp, psCrashes,
            psLast, psKept, psErrors, psPeek>>

NoOp == [phase |-> "idle", key |-> 0, value |-> 0, size |-> 0]
NoPeek == [from |-> 0, next |-> 0, to |-> 0, proofs |-> <<>>, status |-> "none"]
Torn == -1
Live(k) == <<k, 0>>
Total(files) == FoldLeft(LAMBDA acc, e : acc + e.size, 0, files)

Init ==
    /\ psKind \in PsKinds
    /\ psFiles = <<>> /\ psQueue = <<>> /\ psOutdated = [k \in PsKeys |-> 0] /\ psSize = 0
    /\ psNow = 1 /\ psInSecond = 0 /\ psWrites = 0
    /\ psOp = NoOp /\ psNext = 1 /\ psUp = TRUE /\ psCrashes = 0
    /\ psLast = [k \in PsKeys |-> 0] /\ psKept = {} /\ psErrors = 0 /\ psPeek = NoPeek

SecondPasses ==
    /\ psNow < PsMaxTime /\ psOp = NoOp
    /\ psNow' = psNow + 1 /\ psInSecond' = 0
    /\ UNCHANGED <<psKind, psFiles, psQueue, psOutdated, psSize, psWrites, psOp, psNext, psUp, psCrashes, psLast, psKept, psErrors, psPeek>>

\* A save starts.  In "batches" it is the next batch in order.
BeginSave(k, size) ==
    /\ psUp /\ psOp = NoOp
    /\ psInSecond < PsBurst
    /\ psKind = "batches" => k = psNext
    /\ psInSecond' = psInSecond + 1
    /\ psWrites' = psWrites + 1
    /\ psOp' = [phase |-> "duplicate", key |-> k, value |-> psWrites + 1, size |-> size]
    /\ UNCHANGED <<psKind, psFiles, psQueue, psOutdated, psSize, psNow, psNext, psUp, psCrashes, psLast, psKept, psErrors, psPeek>>

\* The file of an earlier save moves to a name with the current second.
HandleDuplicate ==
    LET k == psOp.key
        new == <<k, psNow>>
        others == Restrict(psFiles, DOMAIN psFiles \ {Live(k), new})
    IN  /\ psOp.phase = "duplicate"
        /\ psOp' = [psOp EXCEPT !.phase = "evict"]
        /\ IF Live(k) \in DOMAIN psFiles
           THEN /\ psFiles' = [n \in DOMAIN others \cup {new} |-> IF n = new THEN psFiles[Live(k)] ELSE others[n]]
                /\ psOutdated' = [psOutdated EXCEPT ![k] = @ + 1]
                /\ psQueue' = Append(psQueue, [name |-> new, size |-> psFiles[Live(k)].size])
                /\ psKept' = psKept \cup {psFiles[Live(k)].value}
           ELSE UNCHANGED <<psFiles, psOutdated, psQueue, psKept>>
        /\ UNCHANGED <<psKind, psSize, psNow, psInSecond, psWrites, psNext, psUp, psCrashes, psLast, psErrors, psPeek>>

\* The save returns an error.
SaveFails ==
    /\ psErrors' = psErrors + 1
    /\ psOp' = NoOp
    /\ psUp' = (psKind = "failed")

MutIsOutdated(name, outdated) == FALSE
IsOutdated(name, outdated) == name[2] = 0 /\ outdated[name[1]] > 0
OverCapacity == psSize + psOp.size > PsCapacity /\ psQueue # <<>>
EnforceCapacity ==
    LET e == Head(psQueue)
    IN  /\ psOp.phase = "evict" /\ OverCapacity
        /\ psQueue' = Tail(psQueue)
        /\ IF IsOutdated(e.name, psOutdated)
           THEN psOutdated' = [psOutdated EXCEPT ![e.name[1]] = @ - 1] /\ UNCHANGED <<psFiles, psSize, psKept, psErrors, psOp, psUp>>
           ELSE IF e.name \notin DOMAIN psFiles
           THEN SaveFails /\ UNCHANGED <<psFiles, psSize, psKept, psOutdated>>
           ELSE /\ psFiles' = Restrict(psFiles, DOMAIN psFiles \ {e.name})
                /\ psSize' = psSize - e.size
                /\ psKept' = psKept \ {psFiles[e.name].value}
                /\ UNCHANGED <<psOutdated, psErrors, psOp, psUp>>
        /\ UNCHANGED <<psKind, psNow, psInSecond, psWrites, psNext, psCrashes, psLast, psPeek>>

\* A value larger than the capacity is not saved.
WriteFile ==
    LET k == psOp.key
    IN  /\ psOp.phase = "evict" /\ ~OverCapacity
        /\ psOp' = NoOp
        /\ psNext' = IF psKind = "batches" THEN psNext + 1 ELSE psNext
        /\ psLast' = [psLast EXCEPT ![k] = psOp.value]
        /\ IF psOp.size <= PsCapacity
           THEN /\ psFiles' = [n \in DOMAIN psFiles \cup {Live(k)} |->
                                 IF n = Live(k) THEN [value |-> psOp.value, size |-> psOp.size, mtime |-> psWrites] ELSE psFiles[n]]
                /\ psSize' = psSize + psOp.size
                /\ psQueue' = Append(psQueue, [name |-> Live(k), size |-> psOp.size])
           ELSE UNCHANGED <<psFiles, psSize, psQueue>>
        /\ UNCHANGED <<psKind, psOutdated, psNow, psInSecond, psWrites, psUp, psCrashes, psKept, psErrors, psPeek>>

\* A crash may cut the write of the file short.
Crash ==
    /\ psUp /\ psCrashes < PsMaxCrashes
    /\ psCrashes' = psCrashes + 1
    /\ psUp' = FALSE /\ psOp' = NoOp /\ psPeek' = NoPeek
    /\ IF psOp.phase = "evict" /\ ~OverCapacity /\ psOp.size <= PsCapacity
       THEN \/ UNCHANGED psFiles
            \/ psFiles' = [n \in DOMAIN psFiles \cup {Live(psOp.key)} |->
                             IF n = Live(psOp.key) THEN [value |-> Torn, size |-> psOp.size - 1, mtime |-> psWrites] ELSE psFiles[n]]
       ELSE UNCHANGED psFiles
    /\ UNCHANGED <<psKind, psQueue, psOutdated, psSize, psNow, psInSecond, psWrites, psNext, psLast, psKept, psErrors>>

\* BoundedFileStorage::new lists the files by modification time and evicts at
\* once when the directory is over the capacity.
Listed(files) ==
    LET names == SetToSortSeq(DOMAIN files, LAMBDA a, b : files[a].mtime < files[b].mtime)
    IN  FoldLeft(LAMBDA acc, n : Append(acc, [name |-> n, size |-> files[n].size]), <<>>, names)
Start ==
    /\ ~psUp
    /\ psUp' = TRUE
    /\ LET listed == Listed(psFiles)
           drop == CHOOSE n \in 0..Len(listed) :
                      /\ Total(SubSeq(listed, n + 1, Len(listed))) <= PsCapacity
                      /\ n > 0 => Total(SubSeq(listed, n, Len(listed))) > PsCapacity
           gone == {listed[i].name : i \in 1..drop}
       IN  /\ psQueue' = SubSeq(listed, drop + 1, Len(listed))
           /\ psSize' = Total(SubSeq(listed, drop + 1, Len(listed)))
           /\ psFiles' = Restrict(psFiles, DOMAIN psFiles \ gone)
           /\ psKept' = psKept \ {psFiles[n].value : n \in gone}
    /\ psOutdated' = [k \in PsKeys |-> 0]
    /\ psNext' \in 1..psNext
    /\ psPeek' = NoPeek
    /\ UNCHANGED <<psKind, psNow, psInSecond, psWrites, psOp, psCrashes, psLast, psErrors>>

\* ProofStorage::load.
Load(k) ==
    IF Live(k) \notin DOMAIN psFiles THEN [status |-> "none", value |-> 0]
    ELSE IF psFiles[Live(k)].value = Torn THEN [status |-> "error", value |-> 0]
    ELSE [status |-> "some", value |-> psFiles[Live(k)].value]

\* peek_snark_job reads the batches of its range one lock at a time;
\* get_failed_fri_proof reads one.
BeginPeek(from, to) ==
    /\ psUp /\ psPeek = NoPeek /\ from <= to
    /\ psKind = "failed" => from = to
    /\ psPeek' = [from |-> from, next |-> from, to |-> to, proofs |-> <<>>, status |-> "reading"]
    /\ UNCHANGED <<psKind, psFiles, psQueue, psOutdated, psSize, psNow, psInSecond, psWrites, psOp, psNext, psUp, psCrashes, psLast, psKept, psErrors>>
MutPeekBatch(r) == IF r.status = "some" THEN "reading" ELSE "skip"
PeekBatch(r) == CASE r.status = "some" -> "reading" [] r.status = "none" -> "not found" [] r.status = "error" -> "failure"
ContinuePeek ==
    LET r == Load(psPeek.next)
        status == PeekBatch(r)
    IN  /\ psUp /\ psOp = NoOp /\ psPeek.status = "reading"
        /\ psPeek' = [psPeek EXCEPT !.next = @ + 1,
                                    !.proofs = IF status = "reading" THEN Append(@, r.value) ELSE @,
                                    !.status = IF status \in {"reading", "skip"}
                                               THEN (IF psPeek.next = psPeek.to THEN "ok" ELSE "reading") ELSE status]
        /\ UNCHANGED <<psKind, psFiles, psQueue, psOutdated, psSize, psNow, psInSecond, psWrites, psOp, psNext, psUp, psCrashes, psLast, psKept, psErrors>>
EndPeek ==
    /\ psPeek.status \notin {"none", "reading"}
    /\ psPeek' = NoPeek
    /\ UNCHANGED <<psKind, psFiles, psQueue, psOutdated, psSize, psNow, psInSecond, psWrites, psOp, psNext, psUp, psCrashes, psLast, psKept, psErrors>>

Next ==
    \/ SecondPasses \/ HandleDuplicate \/ EnforceCapacity \/ WriteFile \/ Crash \/ Start \/ ContinuePeek \/ EndPeek
    \/ \E k \in PsKeys, size \in PsSizes : BeginSave(k, size)
    \/ \E from, to \in PsKeys : BeginPeek(from, to)

\* Between saves the queue knows exactly the files on disk: without its
\* outdated entries (the first ones of each key) it names each file once and in
\* the order of eviction, and current_size is their total, within the capacity
\* (BoundedFileStorage::enforce_capacity and handle_duplicate keep three counts
\* in step by hand).  No save fails, and the file of a key is absent, cut short
\* by a crash, or the last value saved.
CurrentEntries ==
    LET step(acc, e) == IF e.name[2] = 0 /\ acc.skip[e.name[1]] > 0
                        THEN [acc EXCEPT !.skip[e.name[1]] = @ - 1] ELSE [acc EXCEPT !.kept = Append(@, e)]
    IN  FoldLeft(step, [skip |-> psOutdated, kept |-> <<>>], psQueue).kept
DirectoryTracked ==
    /\ psErrors = 0
    /\ psUp /\ psOp = NoOp =>
         LET entries == CurrentEntries IN
         /\ {entries[i].name : i \in 1..Len(entries)} = DOMAIN psFiles
         /\ Len(entries) = Cardinality(DOMAIN psFiles)
         /\ psSize = Total(entries) /\ psSize <= PsCapacity
    /\ psOp = NoOp => \A k \in PsKeys : Live(k) \in DOMAIN psFiles => psFiles[Live(k)].value \in {Torn, psLast[k]}

\* A range request that succeeds has a proof for each batch of the range, in
\* order, although saves and evictions run between its reads (peek_snark_job
\* stops at the first batch it does not find).
PeeksComplete ==
    psPeek.status = "ok" =>
        /\ Len(psPeek.proofs) = psPeek.to - psPeek.from + 1
        /\ \A i \in 1..Len(psPeek.proofs) : psPeek.proofs[i] <= psLast[psPeek.from + i - 1]

\* An overwritten value stays on disk under another name until it is evicted
\* ("In case of overwrite old value will be preserved under a different name",
\* proof_storage.rs:135).
OverwrittenPreserved == psKept \subseteq {psFiles[n].value : n \in DOMAIN psFiles}
=============================================================================
