---------------------------- MODULE SnarkProving ----------------------------
(***************************************************************************)
(* The SNARK stage of the proving pipeline, from the batches that the L1   *)
(* commit sender passes on until proof commands reach the L1 prove sender: *)
(*                                                                         *)
(*   SnarkProvingPipelineStep -> ProverJobMap -> provers ->                *)
(*      SnarkJobManager -> SnarkProvingPipelineStep -> GaplessL1ProofSender*)
(*                                                                         *)
(* One SNARK covers a range of consecutive batches.  The map does not keep *)
(* ranges: after a timeout a different, overlapping one may be assigned.   *)
(***************************************************************************)
EXTENDS ProverJobMap, Sequences, FiniteSets, TLC

CONSTANTS
    MaxBatch,         \* bound: number of the last batch
    Provers,          \* real SNARK provers
    FakeProver,       \* the FakeSnarkProver task
    Versions,         \* proving versions
    MaxFrisPerSnark,  \* max_fris_per_snark
    MaxRanges,        \* values of max_assigned_batch_range
    CommandsCapacity, \* capacity of the channel of proof commands
    NoProver,         \* assigned_to_prover_id = None
    NoBatch           \* no batch

ASSUME SnarkMaxBatchAssumption == MaxBatch \in Nat
ASSUME SnarkMaxRangesAssumption == MaxRanges \subseteq Nat
ASSUME MaxFrisAssumption == MaxFrisPerSnark \in Nat \ {0}
ASSUME SnarkNoBatchAssumption == NoBatch \notin Nat
ASSUME SnarkProversAssumption == FakeProver \notin Provers /\ NoProver \notin Provers \cup {FakeProver}

VARIABLES
    \* fixed at startup
    last_executed, last_proved,  \* L1 state
    fri,          \* FRI proof, real or fake, of every batch
    version,      \* proving version of every batch
    max_assigned_batch_range,
    \* SnarkProvingPipelineStep
    next_batch, adding, waiting,
    \* ProverJobMap
    jobs, assigned_to, timed_out,
    aged,         \* batches older than max_batch_age
    \* provers, and the requests SnarkJobManager is serving
    held,         \* ranges a real prover has been given
    stage, range, \* progress and range of each request
    \* results
    proofs,       \* channel of proof commands
    output,       \* channel to the proof sender
    \* GaplessL1ProofSender
    buffer, next_expected,
    commands      \* commands sent to the L1 prove sender

startVars == <<last_executed, last_proved, fri, version, max_assigned_batch_range>>
stepVars == <<next_batch, adding, waiting>>
jobVars == <<jobs, assigned_to, timed_out, aged>>
requestVars == <<held, stage, range>>
senderVars == <<buffer, next_expected, commands>>
vars == <<startVars, stepVars, jobVars, requestVars, proofs, output, senderVars>>

-----------------------------------------------------------------------------

Batches == 1 .. MaxBatch

Ranges == {lo .. hi : lo \in Batches, hi \in Batches}

Clients == Provers \cup {FakeProver}

Init ==
    /\ last_executed \in 0 .. MaxBatch
    /\ last_proved \in last_executed .. MaxBatch
    /\ fri \in [Batches -> {"Real", "Fake"}]
    /\ version \in [Batches -> Versions]
    /\ max_assigned_batch_range \in MaxRanges
    /\ next_batch = last_executed + 1
    /\ adding = NoBatch
    /\ waiting = FALSE
    /\ jobs = {}
    /\ assigned_to = [b \in Batches |-> NoProver]
    /\ timed_out = {}
    /\ aged = {}
    /\ held = [p \in Provers |-> {}]
    /\ stage = [c \in Clients |-> "idle"]
    /\ range = [c \in Clients |-> {}]
    /\ proofs = << >>
    /\ output = << >>
    /\ buffer = {}
    /\ next_expected = last_executed + 1
    /\ commands = << >>

-----------------------------------------------------------------------------
(* SnarkProvingPipelineStep, input side, and ProverJobMap::add_job *)

Passthrough(b) == [batches |-> {b}, snark |-> "Passthrough"]

PassProved ==
    /\ adding = NoBatch
    /\ next_batch <= last_proved
    /\ output' = Append(output, Passthrough(next_batch))
    /\ next_batch' = next_batch + 1
    /\ UNCHANGED <<startVars, adding, waiting, jobVars, requestVars, proofs, senderVars>>

ReceiveBatch ==
    /\ adding = NoBatch
    /\ next_batch > last_proved
    /\ next_batch <= MaxBatch
    /\ adding' = next_batch
    /\ next_batch' = next_batch + 1
    /\ UNCHANGED <<startVars, waiting, jobVars, requestVars, proofs, output, senderVars>>

AddJob ==
    /\ adding # NoBatch
    /\ ~waiting
    /\ ~IsQueueFull(jobs, max_assigned_batch_range)
    /\ jobs' = jobs \cup {adding}
    /\ adding' = NoBatch
    /\ UNCHANGED <<startVars, next_batch, waiting, assigned_to, timed_out, aged,
                   requestVars, proofs, output, senderVars>>

WaitForSpace ==
    /\ adding # NoBatch
    /\ ~waiting
    /\ IsQueueFull(jobs, max_assigned_batch_range)
    /\ waiting' = TRUE
    /\ UNCHANGED <<startVars, next_batch, adding, jobVars, requestVars, proofs,
                   output, senderVars>>

-----------------------------------------------------------------------------
(* Time, as the job map sees it *)

AssignmentTimeout(b) ==
    /\ b \in jobs \ timed_out
    /\ assigned_to[b] # NoProver
    /\ timed_out' = timed_out \cup {b}
    /\ UNCHANGED <<startVars, stepVars, jobs, assigned_to, aged, requestVars,
                   proofs, output, senderVars>>

BecomeAged(b) ==
    /\ b \in jobs \ aged
    /\ aged' = aged \cup {b}
    /\ UNCHANGED <<startVars, stepVars, jobs, assigned_to, timed_out, requestVars,
                   proofs, output, senderVars>>

-----------------------------------------------------------------------------
(* What requests do to the map and to the channel *)

AssignableJobs ==
    Assignable(jobs, {b \in jobs : assigned_to[b] # NoProver}, timed_out)

AssignTo(c, picked) ==
    /\ assigned_to' = [b \in Batches |-> IF b \in picked THEN c ELSE assigned_to[b]]
    /\ timed_out' = timed_out \ picked

\* Entries leave the map with all they hold.
RemoveJobs(rng) ==
    /\ jobs' = jobs \ rng
    /\ assigned_to' = [b \in Batches |-> IF b \in rng THEN NoProver ELSE assigned_to[b]]
    /\ timed_out' = timed_out \ rng
    /\ aged' = aged \ rng

Request(c, s, rng) ==
    /\ stage' = [stage EXCEPT ![c] = s]
    /\ range' = [range EXCEPT ![c] = rng]

Permits ==
    {c \in Clients : stage[c] \in {"leasing", "completing", "completed",
                                   "completing_fake", "completed_fake"}}

HasCapacity == Len(proofs) + Cardinality(Permits) < CommandsCapacity

\* try_reserve_permit_downstream.
ReservePermit(c, from, to) ==
    /\ stage[c] = from
    /\ HasCapacity
    /\ Request(c, to, range[c])
    /\ UNCHANGED <<startVars, stepVars, jobVars, held, proofs, output, senderVars>>

\* "downstream backpressure" ends the whole request.
Backpressure(c, from) ==
    /\ stage[c] = from
    /\ ~HasCapacity
    /\ Request(c, "idle", {})
    /\ UNCHANGED <<startVars, stepVars, jobVars, held, proofs, output, senderVars>>

-----------------------------------------------------------------------------
(* process_pending_fake_or_timed_out_fri_proofs.  FakeSnarkProver runs it    *)
(* from its poll loop ("idle"), and pick_real_job begins with it             *)
(* ("draining"), without a timeout for real FRI proofs.                      *)

\* Mutant: pick_real_job turns aged real FRI proofs into fake SNARKs, too.
FakeOrTimedOutAlways(c) == {b \in jobs : fri[b] = "Fake" \/ b \in aged}

FakeOrTimedOut(c) == {b \in jobs : fri[b] = "Fake" \/ (c = FakeProver /\ b \in aged)}

LoopTop(c) == IF c = FakeProver THEN "idle" ELSE "draining"

HasFakeJob(c) == AssignableJobs \cap FakeOrTimedOut(c) # {}

\* A prover asks for a job.
BeginPick(p) ==
    /\ stage[p] = "idle"
    /\ Request(p, "draining", {})
    /\ UNCHANGED <<startVars, stepVars, jobVars, held, proofs, output, senderVars>>

\* has_assignable_job.
FindFakeJob(c) ==
    /\ stage[c] = LoopTop(c)
    /\ HasFakeJob(c)
    /\ Request(c, "found", {})
    /\ UNCHANGED <<startVars, stepVars, jobVars, held, proofs, output, senderVars>>

\* pick_jobs_while_with_limit for "fake_prover".
LeaseFake(c) ==
    LET picked == PickWhile(AssignableJobs \cap FakeOrTimedOut(c), version, MaxFrisPerSnark)
    IN  /\ stage[c] = "leasing"
        /\ picked # {}
        /\ AssignTo(FakeProver, picked)
        /\ Request(c, "completing_fake", picked)
        /\ UNCHANGED <<startVars, stepVars, jobs, aged, held, proofs, output, senderVars>>

\* Somebody else took the jobs: the loop ends and the permit is dropped.
NothingToLease(c) ==
    /\ stage[c] = "leasing"
    /\ ~HasFakeJob(c)
    /\ Request(c, IF c = FakeProver THEN "idle" ELSE "picking", {})
    /\ UNCHANGED <<startVars, stepVars, jobVars, held, proofs, output, senderVars>>

\* The head of the queue has no fake job (left).
DrainDone(p) ==
    /\ stage[p] = "draining"
    /\ ~HasFakeJob(p)
    /\ Request(p, "picking", {})
    /\ UNCHANGED <<startVars, stepVars, jobVars, held, proofs, output, senderVars>>

\* Mutant: complete_many_jobs takes what is left of the range.
CompleteRest(c, from, to) ==
    /\ stage[c] = from
    /\ RemoveJobs(range[c])
    /\ Request(c, to, range[c])
    /\ UNCHANGED <<startVars, stepVars, held, proofs, output, senderVars>>

\* complete_many_jobs: all of the range, or nothing.
CompleteMany(c, from, to) ==
    /\ stage[c] = from
    /\ CanComplete(jobs, range[c])
    /\ RemoveJobs(range[c])
    /\ Request(c, to, range[c])
    /\ UNCHANGED <<startVars, stepVars, held, proofs, output, senderVars>>

\* Part of the range is gone: the permit is dropped; the fake loop goes on.
LoseRace(c, from, next) ==
    /\ stage[c] = from
    /\ ~CanComplete(jobs, range[c])
    /\ Request(c, next, {})
    /\ UNCHANGED <<startVars, stepVars, jobVars, held, proofs, output, senderVars>>

\* Mutant: space_available is not notified.
SendSilently(c, from, snark, next) ==
    /\ stage[c] = from
    /\ proofs' = Append(proofs, [batches |-> range[c], snark |-> snark])
    /\ Request(c, next, {})
    /\ UNCHANGED <<startVars, stepVars, jobVars, held, output, senderVars>>

\* The lock is released: add_job is notified, the command goes downstream.
SendCommand(c, from, snark, next) ==
    /\ stage[c] = from
    /\ waiting' = FALSE
    /\ proofs' = Append(proofs, [batches |-> range[c], snark |-> snark])
    /\ Request(c, next, {})
    /\ UNCHANGED <<startVars, next_batch, adding, jobVars, held, output, senderVars>>

-----------------------------------------------------------------------------
(* SnarkJobManager::pick_real_job, second half, and submit_proof *)

\* Mutant: fake FRI proofs are given to real provers.
PickRealJobAny(p) ==
    LET picked == PickWhile(AssignableJobs, version, MaxFrisPerSnark)
    IN  /\ stage[p] = "picking"
        /\ IF picked = {}
           THEN UNCHANGED <<assigned_to, timed_out, held>>
           ELSE AssignTo(p, picked) /\ held' = [held EXCEPT ![p] = @ \cup {picked}]
        /\ Request(p, "idle", {})
        /\ UNCHANGED <<startVars, stepVars, jobs, aged, proofs, output, senderVars>>

\* The prover supports some of the proving versions.
PickRealJob(p) ==
    \E supported \in {Versions} \cup {{v} : v \in Versions} :
       LET picked == PickWhile({b \in AssignableJobs : /\ fri[b] # "Fake"
                                                       /\ version[b] \in supported},
                               version, MaxFrisPerSnark)
       IN  /\ stage[p] = "picking"
           /\ IF picked = {}
              THEN UNCHANGED <<assigned_to, timed_out, held>>
              ELSE AssignTo(p, picked) /\ held' = [held EXCEPT ![p] = @ \cup {picked}]
           /\ Request(p, "idle", {})
           /\ UNCHANGED <<startVars, stepVars, jobs, aged, proofs, output, senderVars>>

\* A prover submits a proof of a range it was given: the first batch is looked up.
SubmitProof(p, rng) ==
    /\ stage[p] = "idle"
    /\ rng \in held[p]
    /\ First(rng) \in jobs
    /\ Request(p, "checked", rng)
    /\ UNCHANGED <<startVars, stepVars, jobVars, held, proofs, output, senderVars>>

\* A prover disconnects: the handler is dropped where it awaits the lock.
CancelRequest(p) ==
    /\ stage[p] \in {"draining", "leasing", "completing_fake", "picking", "completing"}
    /\ Request(p, "idle", {})
    /\ UNCHANGED <<startVars, stepVars, jobVars, held, proofs, output, senderVars>>

-----------------------------------------------------------------------------
(* SnarkProvingPipelineStep, output side, and GaplessL1ProofSender *)

ForwardCommand ==
    /\ proofs # << >>
    /\ output' = Append(output, Head(proofs))
    /\ proofs' = Tail(proofs)
    /\ UNCHANGED <<startVars, stepVars, jobVars, requestVars, senderVars>>

\* Mutant: commands are flushed as they come.
FlushAny(cmd) == cmd \in buffer

\* The command that the sender is waiting for.
CanFlush(cmd) == cmd \in buffer /\ First(cmd.batches) = next_expected

\* The buffer is keyed by the first batch of a command.
BufferCommand ==
    /\ output # << >>
    /\ ~\E cmd \in buffer : CanFlush(cmd)
    /\ LET new == Head(output)
       IN  buffer' = {cmd \in buffer : First(cmd.batches) # First(new.batches)} \cup {new}
    /\ output' = Tail(output)
    /\ UNCHANGED <<startVars, stepVars, jobVars, requestVars, proofs,
                   next_expected, commands>>

BatchCount(cmd) == Cardinality(cmd.batches)

SendInOrder ==
    \E cmd \in buffer :
       /\ CanFlush(cmd)
       /\ buffer' = buffer \ {cmd}
       /\ next_expected' = next_expected + BatchCount(cmd)
       /\ commands' = Append(commands, cmd)
       /\ UNCHANGED <<startVars, stepVars, jobVars, requestVars, proofs, output>>

-----------------------------------------------------------------------------

PipelineStep == PassProved \/ ReceiveBatch \/ AddJob \/ WaitForSpace

Time == \E b \in Batches : AssignmentTimeout(b) \/ BecomeAged(b)

FakeLoop(c) ==
    \/ FindFakeJob(c)
    \/ ReservePermit(c, "found", "leasing")
    \/ Backpressure(c, "found")
    \/ LeaseFake(c)
    \/ NothingToLease(c)
    \/ CompleteMany(c, "completing_fake", "completed_fake")
    \/ LoseRace(c, "completing_fake", LoopTop(c))
    \/ SendCommand(c, "completed_fake", "Fake", LoopTop(c))

RealPick(p) == BeginPick(p) \/ DrainDone(p) \/ PickRealJob(p)

FinishSubmit(p) ==
    \/ ReservePermit(p, "checked", "completing")
    \/ Backpressure(p, "checked")
    \/ CompleteMany(p, "completing", "completed")
    \/ LoseRace(p, "completing", "idle")
    \/ SendCommand(p, "completed", "Real", "idle")

Sender == BufferCommand \/ SendInOrder

Next ==
    \/ PipelineStep
    \/ Time
    \/ \E c \in Clients : FakeLoop(c)
    \/ \E p \in Provers : RealPick(p) \/ FinishSubmit(p) \/ CancelRequest(p)
    \/ \E p \in Provers : \E rng \in held[p] : SubmitProof(p, rng)
    \/ ForwardCommand
    \/ Sender

Spec == Init /\ [][Next]_vars

\* The node's tasks run and time passes; a request that is being served is
\* served to its end; the fake prover, polling, meets an assignable job and free
\* capacity now and then, and is not overtaken at the (FIFO) mutex every time
\* before it leases the job.  A real prover need not ask for jobs, but one that was given a range
\* keeps submitting it, does not meet a full channel every single time, and
\* disconnects only finitely often.
Fairness ==
    /\ WF_vars(PipelineStep)
    /\ \A b \in Batches : WF_vars(AssignmentTimeout(b)) /\ WF_vars(BecomeAged(b))
    /\ WF_vars(ForwardCommand)
    /\ WF_vars(Sender)
    /\ WF_vars(FakeLoop(FakeProver))
    /\ SF_vars(FindFakeJob(FakeProver))
    /\ SF_vars(ReservePermit(FakeProver, "found", "leasing"))
    /\ SF_vars(LeaseFake(FakeProver))
    /\ \A p \in Provers :
          /\ WF_vars(FakeLoop(p) \/ DrainDone(p) \/ PickRealJob(p) \/ FinishSubmit(p))
          /\ SF_vars(ReservePermit(p, "checked", "completing"))
          /\ <>[][~CancelRequest(p)]_vars
          /\ \A rng \in Ranges : SF_vars(HasCapacity /\ SubmitProof(p, rng))

FairSpec == Spec /\ Fairness

-----------------------------------------------------------------------------
(* Properties *)

Commands == [batches : Ranges \ {{}}, snark : {"Passthrough", "Real", "Fake"}]

TypeOK ==
    /\ last_executed \in 0 .. MaxBatch
    /\ last_proved \in last_executed .. MaxBatch
    /\ fri \in [Batches -> {"Real", "Fake"}]
    /\ version \in [Batches -> Versions]
    /\ max_assigned_batch_range \in MaxRanges
    /\ next_batch \in 1 .. MaxBatch + 1
    /\ adding \in Batches \cup {NoBatch}
    /\ waiting \in BOOLEAN
    /\ jobs \subseteq Batches
    /\ assigned_to \in [Batches -> Clients \cup {NoProver}]
    /\ timed_out \subseteq jobs
    /\ aged \subseteq jobs
    /\ held \in [Provers -> SUBSET Ranges]
    /\ stage \in [Clients -> {"idle", "draining", "found", "leasing", "completing_fake",
                              "completed_fake", "picking", "checked", "completing",
                              "completed"}]
    /\ range \in [Clients -> Ranges \cup {{}}]
    /\ proofs \in Seq(Commands)
    /\ output \in Seq(Commands)
    /\ buffer \subseteq Commands
    /\ next_expected \in 1 .. MaxBatch + 1
    /\ commands \in Seq(Commands)

Elems(s) == {s[i] : i \in 1 .. Len(s)}

\* The batches at each place of the stage.
InCompletion ==
    UNION {range[c] : c \in {d \in Clients : stage[d] \in {"completed", "completed_fake"}}}

BatchesOf(cmds) == UNION {cmd.batches : cmd \in cmds}

Places == <<next_batch .. MaxBatch, {adding} \ {NoBatch}, jobs, InCompletion,
            BatchesOf(Elems(proofs)), BatchesOf(Elems(output)), BatchesOf(buffer),
            BatchesOf(Elems(commands))>>

\* Overlapping ranges are raced for by several provers and time out at any point,
\* yet every batch is at exactly one place of the stage: complete_many_jobs takes
\* a range whole or not at all, and nothing is lost when it does not.
EveryBatchInOnePlace ==
    \A b \in last_executed + 1 .. MaxBatch :
       Cardinality({i \in DOMAIN Places : b \in Places[i]}) = 1

\* The proof sender's output covers the batches behind the last executed one, in
\* order, without gap or overlap, whatever ranges the provers completed.
ProvesInOrder ==
    \A i \in 1 .. Len(commands) :
       commands[i].batches =
          LET before == BatchesOf(Elems(SubSeq(commands, 1, i - 1)))
              first  == last_executed + 1 + Cardinality(before)
          IN  first .. first + Cardinality(commands[i].batches) - 1

\* "Fake FRI proofs always result in fake SNARK proofs", one command never mixes
\* proving versions and what L1 has proved is not proved again.
ProofsMatchBatches ==
    \A cmd \in Elems(proofs) \cup Elems(output) \cup buffer \cup Elems(commands) :
       /\ cmd.snark = "Real" => \A b \in cmd.batches : fri[b] = "Real"
       /\ cmd.snark # "Passthrough" =>
             \A b, c \in cmd.batches : version[b] = version[c] /\ b > last_proved

\* pick_real_job, which drains the head of the queue before it looks for work,
\* never turns a real FRI proof into a fake SNARK: only FakeSnarkProver does, and
\* only when the batch is older than max_batch_age.
RealFrisKeptForProvers ==
    \A c \in Clients :
       stage[c] = "completing_fake" =>
          \A b \in range[c] \cap jobs : fri[b] = "Real" => c = FakeProver /\ b \in aged

\* Every batch is passed to the L1 prove sender.
AllProved == <>(next_expected = MaxBatch + 1)

\* The real provers and the proving versions are only compared.
Symmetry == Permutations(Provers) \cup Permutations(Versions)
=============================================================================
