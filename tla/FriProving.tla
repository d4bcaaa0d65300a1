----------------------------- MODULE FriProving -----------------------------
(***************************************************************************)
(* The FRI stage of the proving pipeline, from the moment batches leave    *)
(* batch verification until they are handed to the L1 commit sender:       *)
(*                                                                         *)
(*   FriProvingPipelineStep -> ProverJobMap -> provers -> FriJobManager    *)
(*      -> FriProvingPipelineStep -> GaplessCommitter                      *)
(*                                                                         *)
(* A behaviour is one run of the node's process: nothing of this stage is  *)
(* read back from disk, a restart begins again behind the last executed    *)
(* batch that L1 reports.                                                  *)
(***************************************************************************)
EXTENDS ProverJobMap, Sequences, FiniteSets

CONSTANTS
    MaxBatch,        \* bound: number of the last batch
    Provers,         \* real provers
    FakeWorkers,     \* tasks of FakeFriProversPool
    Versions,        \* proving versions
    MaxRange,        \* max_assigned_batch_range
    ProofsCapacity,  \* capacity of the channel of finished proofs
    NoProver,        \* assigned_to_prover_id = None
    NoBatch          \* no batch

ASSUME MaxBatchAssumption == MaxBatch \in Nat
ASSUME MaxRangeAssumption == MaxRange \in Nat
ASSUME ProofsCapacityAssumption == ProofsCapacity \in Nat \ {0}
ASSUME NoBatchAssumption == NoBatch \notin Nat
ASSUME NoProverAssumption == NoProver \notin Provers \cup {"fake_prover"}
ASSUME ProversAssumption ==
    Provers \cap FakeWorkers = {} /\ "fake_prover" \notin Provers

VARIABLES
    \* fixed at startup
    last_executed, last_proved, last_committed,  \* L1 state
    version,      \* proving version of every batch
    \* FriProvingPipelineStep
    next_batch,   \* next batch of the pipeline's input
    adding,       \* batch inside add_job
    waiting,      \* add_job awaits space_available
    \* ProverJobMap
    jobs,         \* batch numbers in the map
    assigned_to,  \* assigned_to_prover_id of each batch
    timed_out,    \* batches whose assignment is older than assignment_timeout
    aged,         \* batches that fake provers may take (min_inbound_age)
    \* provers, and the requests FriJobManager is serving
    held,         \* batches a real prover has been given
    stage, batch, \* progress and batch of each request
    \* results
    proof,        \* proof that a batch's envelope carries
    proofs,       \* channel of finished proofs
    output,       \* channel to the committer
    \* GaplessCommitter
    buffer, next_expected,
    commands      \* commands sent to the L1 commit sender

startVars == <<last_executed, last_proved, last_committed, version>>
stepVars == <<next_batch, adding, waiting>>
jobVars == <<jobs, assigned_to, timed_out, aged>>
requestVars == <<held, stage, batch>>
committerVars == <<buffer, next_expected, commands>>
vars == <<startVars, stepVars, jobVars, requestVars, proof, proofs, output,
          committerVars>>

-----------------------------------------------------------------------------

Batches == 1 .. MaxBatch

\* Everybody who submits proofs.
Clients == Provers \cup FakeWorkers

\* All tasks of the fake pool present themselves under one id.
Id(c) == IF c \in FakeWorkers THEN "fake_prover" ELSE c

Init ==
    /\ last_executed \in 0 .. MaxBatch
    /\ last_proved \in last_executed .. MaxBatch
    /\ last_committed \in last_proved .. MaxBatch
    /\ version \in [Batches -> Versions]
    /\ next_batch = last_executed + 1
    /\ adding = NoBatch
    /\ waiting = FALSE
    /\ jobs = {}
    /\ assigned_to = [b \in Batches |-> NoProver]
    /\ timed_out = {}
    /\ aged = {}
    /\ held = [p \in Provers |-> {}]
    /\ stage = [c \in Clients |-> "idle"]
    /\ batch = [c \in Clients |-> NoBatch]
    /\ proof = [b \in Batches |-> "None"]
    /\ proofs = << >>
    /\ output = << >>
    /\ buffer = {}
    /\ next_expected = last_executed + 1
    /\ commands = << >>

-----------------------------------------------------------------------------
(* FriProvingPipelineStep, input side, and ProverJobMap::add_job *)

\* A batch that L1 has proved already passes with a placeholder proof.
PassProved ==
    /\ adding = NoBatch
    /\ next_batch <= last_proved
    /\ proof' = [proof EXCEPT ![next_batch] = "AlreadySubmittedToL1"]
    /\ output' = Append(output, next_batch)
    /\ next_batch' = next_batch + 1
    /\ UNCHANGED <<startVars, adding, waiting, jobVars, requestVars, proofs,
                   committerVars>>

ReceiveBatch ==
    /\ adding = NoBatch
    /\ next_batch > last_proved
    /\ next_batch <= MaxBatch
    /\ adding' = next_batch
    /\ next_batch' = next_batch + 1
    /\ UNCHANGED <<startVars, waiting, jobVars, requestVars, proof, proofs,
                   output, committerVars>>

\* add_job under the lock, with room in the map.
AddJob ==
    /\ adding # NoBatch
    /\ ~waiting
    /\ ~IsQueueFull(jobs, MaxRange)
    /\ jobs' = jobs \cup {adding}
    /\ adding' = NoBatch
    /\ UNCHANGED <<startVars, next_batch, waiting, assigned_to, timed_out, aged,
                   requestVars, proof, proofs, output, committerVars>>

\* Mutant: the map is looked at, and `notified` created, in two steps: by the
\* time add_job waits the map may have room.
WaitForSpaceLate ==
    /\ adding # NoBatch
    /\ ~waiting
    /\ waiting' = TRUE
    /\ UNCHANGED <<startVars, next_batch, adding, jobVars, requestVars, proof,
                   proofs, output, committerVars>>

\* add_job finds the map full and creates `notified` before it unlocks it.
WaitForSpace ==
    /\ adding # NoBatch
    /\ ~waiting
    /\ IsQueueFull(jobs, MaxRange)
    /\ waiting' = TRUE
    /\ UNCHANGED <<startVars, next_batch, adding, jobVars, requestVars, proof,
                   proofs, output, committerVars>>

-----------------------------------------------------------------------------
(* Time, as the job map sees it *)

AssignmentTimeout(b) ==
    /\ b \in jobs \ timed_out
    /\ assigned_to[b] # NoProver
    /\ timed_out' = timed_out \cup {b}
    /\ UNCHANGED <<startVars, stepVars, jobs, assigned_to, aged, requestVars,
                   proof, proofs, output, committerVars>>

BecomeAged(b) ==
    /\ b \in jobs \ aged
    /\ aged' = aged \cup {b}
    /\ UNCHANGED <<startVars, stepVars, jobs, assigned_to, timed_out,
                   requestVars, proof, proofs, output, committerVars>>

-----------------------------------------------------------------------------
(* FriJobManager::pick_next_job *)

\* Mutant: an assignment never times out.
AssignableJobsUnassigned == {b \in jobs : assigned_to[b] = NoProver}

AssignableJobs ==
    Assignable(jobs, {b \in jobs : assigned_to[b] # NoProver}, timed_out)

\* pick_job assigns the one job that pick_jobs_while_with_limit(1, ..) selects.
AssignTo(id, picked) ==
    /\ assigned_to' = [b \in Batches |-> IF b \in picked THEN id ELSE assigned_to[b]]
    /\ timed_out' = timed_out \ picked

\* A real prover asks for work; it supports some proving versions.
PickJob(p) ==
    \E supported \in {Versions} \cup {{v} : v \in Versions} :
       LET picked == PickWhile({b \in AssignableJobs : version[b] \in supported},
                               version, 1)
       IN  /\ picked # {}
           /\ AssignTo(Id(p), picked)
           /\ held' = [held EXCEPT ![p] = @ \cup picked]
           /\ UNCHANGED <<startVars, stepVars, jobs, aged, stage, batch, proof,
                          proofs, output, committerVars>>

\* A fake prover takes a job that real ones had time to take, and computes.
PickFakeJob(f) ==
    /\ stage[f] = "idle"
    /\ LET picked == PickWhile(AssignableJobs \cap aged, version, 1)
       IN  /\ picked # {}
           /\ AssignTo(Id(f), picked)
           /\ batch' = [batch EXCEPT ![f] = First(picked)]
    /\ stage' = [stage EXCEPT ![f] = "verified"]
    /\ UNCHANGED <<startVars, stepVars, jobs, aged, held, proof, proofs, output,
                   committerVars>>

-----------------------------------------------------------------------------
(* FriJobManager::submit_proof and submit_fake_proof *)

Request(c, s, b) ==
    /\ stage' = [stage EXCEPT ![c] = s]
    /\ batch' = [batch EXCEPT ![c] = b]

\* A real prover submits a proof: the job's metadata is read, then the proof is
\* verified on another thread while the map is unlocked.
SubmitProof(p) ==
    /\ stage[p] = "idle"
    /\ \E b \in held[p] \cap jobs : Request(p, "verifying", b)
    /\ UNCHANGED <<startVars, stepVars, jobVars, held, proof, proofs, output,
                   committerVars>>

VerifyProof(p) ==
    /\ stage[p] = "verifying"
    /\ \E verdict \in {"verified", "rejected"} : Request(p, verdict, batch[p])
    /\ UNCHANGED <<startVars, stepVars, jobVars, held, proof, proofs, output,
                   committerVars>>

\* Mutant: unassign_job does not look at who the job is assigned to.
UnassignAnyJob(p) ==
    /\ stage[p] = "rejected"
    /\ IF batch[p] \in jobs
       THEN assigned_to' = [assigned_to EXCEPT ![batch[p]] = NoProver]
       ELSE UNCHANGED assigned_to
    /\ Request(p, "idle", NoBatch)
    /\ UNCHANGED <<startVars, stepVars, jobs, timed_out, aged, held, proof,
                   proofs, output, committerVars>>

\* A rejected proof releases the assignment, if it is still this prover's.
UnassignJob(p) ==
    /\ stage[p] = "rejected"
    /\ IF batch[p] \in jobs /\ assigned_to[batch[p]] = Id(p)
       THEN assigned_to' = [assigned_to EXCEPT ![batch[p]] = NoProver]
       ELSE UNCHANGED assigned_to
    /\ Request(p, "idle", NoBatch)
    /\ UNCHANGED <<startVars, stepVars, jobs, timed_out, aged, held, proof,
                   proofs, output, committerVars>>

\* An entry leaves the map with all it holds.
RemoveJob(b) ==
    /\ jobs' = jobs \ {b}
    /\ assigned_to' = [assigned_to EXCEPT ![b] = NoProver]
    /\ timed_out' = timed_out \ {b}
    /\ aged' = aged \ {b}

\* Requests that hold a permit for the channel of finished proofs.
Permits == {c \in Clients : stage[c] \in {"reserved", "completed"}}

HasCapacity == Len(proofs) + Cardinality(Permits) < ProofsCapacity

\* try_reserve_permit_downstream.
ReservePermit(c) ==
    /\ stage[c] = "verified"
    /\ HasCapacity
    /\ Request(c, "reserved", batch[c])
    /\ UNCHANGED <<startVars, stepVars, jobVars, held, proof, proofs, output,
                   committerVars>>

\* "downstream backpressure": the request fails, the job stays in the map.
Backpressure(c) ==
    /\ stage[c] = "verified"
    /\ ~HasCapacity
    /\ Request(c, "idle", NoBatch)
    /\ UNCHANGED <<startVars, stepVars, jobVars, held, proof, proofs, output,
                   committerVars>>

\* A fake prover drops its job, to simulate a timeout.
DropFakeJob(f) ==
    /\ stage[f] = "verified"
    /\ Request(f, "idle", NoBatch)
    /\ UNCHANGED <<startVars, stepVars, jobVars, held, proof, proofs, output,
                   committerVars>>

\* Mutant: a job that another submit has removed is completed again.
CompleteJobTwice(c) ==
    /\ stage[c] = "reserved"
    /\ RemoveJob(batch[c])
    /\ proof' = [proof EXCEPT ![batch[c]] = IF c \in FakeWorkers THEN "Fake" ELSE "Real"]
    /\ Request(c, "completed", batch[c])
    /\ UNCHANGED <<startVars, stepVars, held, proofs, output, committerVars>>

\* complete_job removes the job under the lock.
CompleteJob(c) ==
    /\ stage[c] = "reserved"
    /\ CanComplete(jobs, {batch[c]})
    /\ RemoveJob(batch[c])
    /\ proof' = [proof EXCEPT ![batch[c]] = IF c \in FakeWorkers THEN "Fake" ELSE "Real"]
    /\ Request(c, "completed", batch[c])
    /\ UNCHANGED <<startVars, stepVars, held, proofs, output, committerVars>>

\* Another submit won the race: the permit is dropped.
LoseRace(c) ==
    /\ stage[c] = "reserved"
    /\ ~CanComplete(jobs, {batch[c]})
    /\ Request(c, "idle", NoBatch)
    /\ UNCHANGED <<startVars, stepVars, jobVars, held, proof, proofs, output,
                   committerVars>>

\* A prover disconnects: the handler is dropped where it awaits, during the
\* verification or for the lock of the map.
CancelRequest(p) ==
    /\ stage[p] \in {"verifying", "rejected", "reserved"}
    /\ Request(p, "idle", NoBatch)
    /\ UNCHANGED <<startVars, stepVars, jobVars, held, proof, proofs, output,
                   committerVars>>

\* The lock is released: add_job is notified, the envelope goes downstream.
SendProof(c) ==
    /\ stage[c] = "completed"
    /\ waiting' = FALSE
    /\ proofs' = Append(proofs, batch[c])
    /\ Request(c, "idle", NoBatch)
    /\ UNCHANGED <<startVars, next_batch, adding, jobVars, held, proof, output,
                   committerVars>>

-----------------------------------------------------------------------------
(* FriProvingPipelineStep, output side, and GaplessCommitter *)

ForwardProof ==
    /\ proofs # << >>
    /\ output' = Append(output, Head(proofs))
    /\ proofs' = Tail(proofs)
    /\ UNCHANGED <<startVars, stepVars, jobVars, requestVars, proof, committerVars>>

\* Mutant: batches are flushed as they come.
FlushAny(b) == b \in buffer

\* The batch that the committer is waiting for.
CanFlush(b) == b \in buffer /\ b = next_expected

\* The committer receives a batch when nothing it has is ready.
BufferBatch ==
    /\ output # << >>
    /\ ~\E b \in buffer : CanFlush(b)
    /\ buffer' = buffer \cup {Head(output)}
    /\ output' = Tail(output)
    /\ UNCHANGED <<startVars, stepVars, jobVars, requestVars, proof, proofs,
                   next_expected, commands>>

\* Mutant: the boundary is one off.
CommandOffByOne(b) ==
    [batch |-> b, type |-> IF b < last_committed THEN "Passthrough" ELSE "SendToL1"]

Command(b) ==
    [batch |-> b, type |-> IF b <= last_committed THEN "Passthrough" ELSE "SendToL1"]

\* One ready batch is saved to the proof storage and sent on.
CommitBatch ==
    \E b \in buffer :
       /\ CanFlush(b)
       /\ buffer' = buffer \ {b}
       /\ next_expected' = next_expected + 1
       /\ commands' = Append(commands, Command(b))
       /\ UNCHANGED <<startVars, stepVars, jobVars, requestVars, proof, proofs,
                      output>>

-----------------------------------------------------------------------------

PipelineStep == PassProved \/ ReceiveBatch \/ AddJob \/ WaitForSpace

Time == \E b \in Batches : AssignmentTimeout(b) \/ BecomeAged(b)

Prover(p) ==
    \/ PickJob(p)
    \/ SubmitProof(p)
    \/ VerifyProof(p)
    \/ UnassignJob(p)
    \/ CancelRequest(p)

FakeWorker(f) == PickFakeJob(f) \/ DropFakeJob(f)

Serve(c) ==
    \/ ReservePermit(c)
    \/ Backpressure(c)
    \/ CompleteJob(c)
    \/ LoseRace(c)
    \/ SendProof(c)

Committer == BufferBatch \/ CommitBatch

Next ==
    \/ PipelineStep
    \/ Time
    \/ \E p \in Provers : Prover(p)
    \/ \E f \in FakeWorkers : FakeWorker(f)
    \/ \E c \in Clients : Serve(c)
    \/ ForwardProof
    \/ Committer

Spec == Init /\ [][Next]_vars

\* The node's tasks run, time passes, and fake provers that poll for aged jobs
\* get one now and then and do not drop every one of them.  Nothing is assumed
\* of the real provers: they may never submit, or only proofs that fail.
Fairness ==
    /\ WF_vars(PipelineStep)
    /\ \A b \in Batches : WF_vars(AssignmentTimeout(b)) /\ WF_vars(BecomeAged(b))
    /\ WF_vars(ForwardProof)
    /\ WF_vars(Committer)
    /\ \A c \in Clients : WF_vars(CompleteJob(c) \/ LoseRace(c)) /\ WF_vars(SendProof(c))
    /\ \A f \in FakeWorkers :
          /\ SF_vars(PickFakeJob(f))
          /\ SF_vars(ReservePermit(f))

FairSpec == Spec /\ Fairness

-----------------------------------------------------------------------------
(* Properties *)

TypeOK ==
    /\ last_executed \in 0 .. MaxBatch
    /\ last_proved \in last_executed .. MaxBatch
    /\ last_committed \in last_proved .. MaxBatch
    /\ version \in [Batches -> Versions]
    /\ next_batch \in 1 .. MaxBatch + 1
    /\ adding \in Batches \cup {NoBatch}
    /\ waiting \in BOOLEAN
    /\ jobs \subseteq Batches
    /\ assigned_to \in [Batches -> Provers \cup {"fake_prover", NoProver}]
    /\ timed_out \subseteq Batches
    /\ aged \subseteq Batches
    /\ held \in [Provers -> SUBSET Batches]
    /\ stage \in [Clients ->
                    {"idle", "verifying", "verified", "rejected", "reserved", "completed"}]
    /\ batch \in [Clients -> Batches \cup {NoBatch}]
    /\ proof \in [Batches -> {"None", "Real", "Fake", "AlreadySubmittedToL1"}]
    /\ proofs \in Seq(Batches)
    /\ output \in Seq(Batches)
    /\ buffer \subseteq Batches
    /\ next_expected \in 1 .. MaxBatch + 1
    /\ commands \in Seq([batch : Batches, type : {"Passthrough", "SendToL1"}])

Elems(s) == {s[i] : i \in 1 .. Len(s)}

\* The batches at each place of the stage.
InCompletion == {batch[c] : c \in {d \in Clients : stage[d] = "completed"}}

Places == <<next_batch .. MaxBatch, {adding} \ {NoBatch}, jobs, InCompletion,
            Elems(proofs), Elems(output), buffer,
            {c.batch : c \in Elems(commands)}>>

\* Whatever the order in which provers race, time out, are rejected or meet
\* backpressure, every batch is at exactly one place of the stage: none is lost
\* between the job map and the channel, none is proved twice.
EveryBatchInOnePlace ==
    \A b \in last_executed + 1 .. MaxBatch :
       Cardinality({i \in DOMAIN Places : b \in Places[i]}) = 1

\* The committer's output is gapless and starts behind the last executed batch.
CommitsInOrder ==
    \A i \in 1 .. Len(commands) : commands[i].batch = last_executed + i

\* L1 is asked to commit exactly what it has not committed: only with a proof
\* made in this run, and never a batch that it has.
CommitsOnlyUncommitted ==
    \A i \in 1 .. Len(commands) :
       LET c == commands[i] IN
          /\ c.type = "SendToL1" <=> c.batch > last_committed
          /\ c.type = "SendToL1" => proof[c.batch] \in {"Real", "Fake"}

\* The commands are gapless, in order, and for what L1 has not committed.
CommitsExact == CommitsInOrder /\ CommitsOnlyUncommitted

\* add_job never sleeps on a map with room, unless it is about to be woken.
NoLostWakeup ==
    waiting => IsQueueFull(jobs, MaxRange) \/ \E c \in Clients : stage[c] = "completed"

\* An assignment ends only with the job, with a timeout or with a proof of that
\* very prover being rejected: never because of somebody else's stale request.
LeaseKept ==
    [][\A b \in jobs \cap jobs' :
          (assigned_to[b] # NoProver /\ assigned_to'[b] # assigned_to[b])
             => \/ b \in timed_out
                \/ \E p \in Provers : /\ Id(p) = assigned_to[b]
                                      /\ stage[p] = "rejected"
                                      /\ batch[p] = b]_vars

\* Every batch reaches the L1 commit sender, however real provers behave.
AllCommitted == <>(Len(commands) = MaxBatch - last_executed)
=============================================================================
