-------------------------- MODULE MCProverProgress --------------------------
(* The two proving stages under the fairness of their specifications.  The   *)
(* stages are alike and share no state: a behaviour runs one of them,        *)
(* active, and both models use the same variables.                           *)
EXTENDS FriProving

CONSTANTS FakeProver, MaxFrisPerSnark, CommandsCapacity

VARIABLES active, fri, range, max_assigned_batch_range

S == INSTANCE SnarkProving WITH MaxRanges <- {MaxRange}
sVars == <<last_executed, last_proved, fri, version, max_assigned_batch_range, next_batch, adding,
           waiting, jobs, assigned_to, timed_out, aged, held, stage, range, proofs, output, buffer, next_expected, commands>>

ProversInit ==
    \/ active = "fri" /\ Init /\ fri = << >> /\ range = << >> /\ max_assigned_batch_range = MaxRange
    \/ active = "snark" /\ S!Init /\ last_committed = 0 /\ batch = << >> /\ proof = << >>

ProversNext ==
    \/ active = "fri" /\ Next /\ UNCHANGED <<active, fri, range, max_assigned_batch_range>>
    \/ active = "snark" /\ S!Next /\ UNCHANGED <<active, last_committed, batch, proof>>

FriFairness ==
    /\ WF_vars(active = "fri" /\ PipelineStep)
    /\ \A b \in Batches : /\ WF_vars(active = "fri" /\ AssignmentTimeout(b))
                          /\ WF_vars(active = "fri" /\ BecomeAged(b))
    /\ WF_vars(active = "fri" /\ ForwardProof)
    /\ WF_vars(active = "fri" /\ Committer)
    /\ \A c \in Clients : /\ WF_vars(active = "fri" /\ (CompleteJob(c) \/ LoseRace(c)))
                          /\ WF_vars(active = "fri" /\ SendProof(c))
    /\ \A f \in FakeWorkers : /\ SF_vars(active = "fri" /\ PickFakeJob(f))
                              /\ SF_vars(active = "fri" /\ ReservePermit(f))

SnarkFairness ==
    /\ WF_sVars(active = "snark" /\ S!PipelineStep)
    /\ \A b \in Batches : /\ WF_sVars(active = "snark" /\ S!AssignmentTimeout(b))
                          /\ WF_sVars(active = "snark" /\ S!BecomeAged(b))
    /\ WF_sVars(active = "snark" /\ S!ForwardCommand)
    /\ WF_sVars(active = "snark" /\ S!Sender)
    /\ WF_sVars(active = "snark" /\ S!FakeLoop(FakeProver))
    /\ SF_sVars(active = "snark" /\ S!FindFakeJob(FakeProver))
    /\ SF_sVars(active = "snark" /\ S!ReservePermit(FakeProver, "found", "leasing"))
    /\ SF_sVars(active = "snark" /\ S!LeaseFake(FakeProver))
    /\ \A p \in Provers :
          /\ WF_sVars(active = "snark"
                 /\ (S!FakeLoop(p) \/ S!DrainDone(p) \/ S!PickRealJob(p) \/ S!FinishSubmit(p)))
          /\ SF_sVars(active = "snark" /\ S!ReservePermit(p, "checked", "completing"))
          /\ <>[][active = "snark" => ~S!CancelRequest(p)]_sVars
          /\ \A rng \in S!Ranges : SF_sVars(active = "snark" /\ S!HasCapacity /\ S!SubmitProof(p, rng))

ProversSpec ==
    /\ ProversInit /\ [][ProversNext]_<<active, vars, fri, range, max_assigned_batch_range>>
    /\ FriFairness /\ SnarkFairness

(* Every batch gets through its stage, however real provers behave: the fake *)
(* provers, timeouts and drains bring it to the L1 sender.                   *)
EveryBatchProved ==
    <> /\ active = "fri" => Len(commands) = MaxBatch - last_executed
       /\ active = "snark" => next_expected = MaxBatch + 1
=============================================================================
