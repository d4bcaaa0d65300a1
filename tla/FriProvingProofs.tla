-------------------------- MODULE FriProvingProofs --------------------------
(***************************************************************************)
(* Theorems about FriProving, for any number of batches and provers, any   *)
(* limit of the job map and any capacity of the channel.                   *)
(***************************************************************************)
EXTENDS FriProving

-----------------------------------------------------------------------------
(* Types *)

\* A request that is being served is for a batch.
FriTypes ==
    /\ TypeOK
    /\ \A c \in Clients : stage[c] # "idle" => batch[c] \in Batches

LEMMA FriTypesInit == Init => FriTypes
<1> SUFFICES ASSUME Init PROVE FriTypes
  BY Zenon
<1>1. /\ last_executed \in 0 .. MaxBatch /\ last_proved \in last_executed .. MaxBatch
      /\ last_committed \in last_proved .. MaxBatch /\ version \in [Batches -> Versions]
      /\ adding \in Batches \cup {NoBatch} /\ waiting \in BOOLEAN
  BY Zenon DEF Init
<1>2. next_batch \in 1 .. MaxBatch + 1 /\ next_expected \in 1 .. MaxBatch + 1
  BY MaxBatchAssumption DEF Init
<1>3. /\ jobs \subseteq Batches /\ timed_out \subseteq Batches /\ aged \subseteq Batches
      /\ buffer \subseteq Batches /\ held \in [Provers -> SUBSET Batches]
      /\ assigned_to \in [Batches -> Provers \cup {"fake_prover", NoProver}]
      /\ proof \in [Batches -> {"None", "Real", "Fake", "AlreadySubmittedToL1"}]
  BY Zenon DEF Init
<1>4. /\ stage = [c \in Clients |-> "idle"]
      /\ batch \in [Clients -> Batches \cup {NoBatch}]
  BY Zenon DEF Init
<1>5. /\ proofs \in Seq(Batches) /\ output \in Seq(Batches)
      /\ commands \in Seq([batch : Batches, type : {"Passthrough", "SendToL1"}])
  BY DEF Init
<1>6. QED
  BY <1>1, <1>2, <1>3, <1>4, <1>5, Zenon DEF FriTypes, TypeOK

\* A request that goes on, or ends.
LEMMA RequestTypes ==
  ASSUME FriTypes, NEW c \in Clients,
         NEW s \in {"idle", "verifying", "verified", "rejected", "reserved", "completed"},
         NEW b \in Batches \cup {NoBatch}, s # "idle" => b \in Batches, Request(c, s, b)
  PROVE  /\ stage' \in [Clients ->
                {"idle", "verifying", "verified", "rejected", "reserved", "completed"}]
         /\ batch' \in [Clients -> Batches \cup {NoBatch}]
         /\ \A d \in Clients : stage'[d] # "idle" => batch'[d] \in Batches
  BY Zenon DEF FriTypes, TypeOK, Request

\* A step that leaves all but requests alone.
LEMMA RequestKeepsTypes ==
  ASSUME FriTypes, NEW c \in Clients,
         NEW s \in {"idle", "verifying", "verified", "rejected", "reserved", "completed"},
         NEW b \in Batches \cup {NoBatch}, s # "idle" => b \in Batches, Request(c, s, b),
         UNCHANGED <<startVars, stepVars, jobVars, held, proof, proofs, output, committerVars>>
  PROVE  FriTypes'
<1>1. TypeOK
  BY Zenon DEF FriTypes
<1>2. TypeOK'
  BY <1>1, RequestTypes, Zenon DEF TypeOK, startVars, stepVars, jobVars, committerVars, Batches
<1>3. QED
  BY <1>2, RequestTypes, Zenon DEF FriTypes

\* Jobs that can be assigned are batch numbers.
LEMMA AssignableTypes ==
  ASSUME TypeOK
  PROVE  AssignableJobs \subseteq jobs /\ jobs \subseteq Batches /\ Batches \subseteq Nat
  BY DEF AssignableJobs, Assignable, TypeOK, Batches

\* Who a job is assigned to after a pick.
LEMMA AssignTypes ==
  ASSUME FriTypes, NEW id \in Provers \cup {"fake_prover", NoProver}, NEW picked,
         AssignTo(id, picked)
  PROVE  /\ assigned_to' \in [Batches -> Provers \cup {"fake_prover", NoProver}]
         /\ timed_out' \subseteq Batches
  BY Zenon DEF FriTypes, TypeOK, AssignTo

LEMMA RemoveTypes ==
  ASSUME FriTypes, NEW b \in Batches, RemoveJob(b)
  PROVE  /\ assigned_to' \in [Batches -> Provers \cup {"fake_prover", NoProver}]
         /\ timed_out' \subseteq Batches /\ aged' \subseteq Batches /\ jobs' \subseteq Batches
  BY Zenon DEF FriTypes, TypeOK, RemoveJob

LEMMA FriTypesNext == FriTypes /\ [Next]_vars => FriTypes'
<1> SUFFICES ASSUME FriTypes, [Next]_vars PROVE FriTypes'
  BY Zenon
<1> USE DEF startVars, stepVars, jobVars, requestVars, committerVars
<1>0. TypeOK /\ MaxBatch \in Nat
  BY MaxBatchAssumption, Zenon DEF FriTypes
<1>1. CASE PipelineStep
  <2>1. CASE PassProved
    <3>1. next_batch \in Batches /\ next_batch' \in 1 .. MaxBatch + 1
      BY <1>0, <2>1 DEF PassProved, TypeOK, Batches
    <3>2. output' \in Seq(Batches)
      BY <1>0, <2>1, <3>1, AppendElems, Zenon DEF PassProved, TypeOK
    <3>3. proof' \in [Batches -> {"None", "Real", "Fake", "AlreadySubmittedToL1"}]
      BY <1>0, <2>1, <3>1, Zenon DEF PassProved, TypeOK
    <3>4. QED
      BY <1>0, <2>1, <3>1, <3>2, <3>3, Zenon DEF PassProved, FriTypes, TypeOK, Batches
  <2>2. CASE ReceiveBatch
    BY <1>0, <2>2 DEF ReceiveBatch, FriTypes, TypeOK, Batches
  <2>3. CASE AddJob
    BY <1>0, <2>3, Zenon DEF AddJob, FriTypes, TypeOK, Batches
  <2>4. CASE WaitForSpace
    BY <1>0, <2>4, Zenon DEF WaitForSpace, FriTypes, TypeOK, Batches
  <2>5. QED
    BY <1>1, <2>1, <2>2, <2>3, <2>4, Zenon DEF PipelineStep
<1>2. CASE Time
  BY <1>0, <1>2, Zenon DEF Time, AssignmentTimeout, BecomeAged, FriTypes, TypeOK, Batches
<1>3. ASSUME NEW p \in Provers, Prover(p) PROVE FriTypes'
  <2>0. p \in Clients /\ Id(p) \in Provers \cup {"fake_prover", NoProver}
    BY Zenon DEF Clients, Id
  <2>1. CASE PickJob(p)
    <3>1. PICK supported \in {Versions} \cup {{v} : v \in Versions} :
             LET picked == PickWhile({b \in AssignableJobs : version[b] \in supported},
                                     version, 1)
             IN  AssignTo(Id(p), picked) /\ held' = [held EXCEPT ![p] = @ \cup picked]
      BY <2>1, Zenon DEF PickJob
    <3> DEFINE picked == PickWhile({b \in AssignableJobs : version[b] \in supported},
                                   version, 1)
    <3>2. picked \subseteq Batches
      <4>1. {b \in AssignableJobs : version[b] \in supported} \in SUBSET Nat
        BY <1>0, AssignableTypes, Zenon
      <4>2. picked \subseteq AssignableJobs
        BY <4>1, PickedJobs, Zenon
      <4>3. QED
        BY <1>0, <4>2, AssignableTypes, Zenon
    <3> HIDE DEF picked
    <3>3. held' \in [Provers -> SUBSET Batches]
      BY <1>0, <3>1, <3>2, Zenon DEF TypeOK, picked
    <3>4. assigned_to' \in [Batches -> Provers \cup {"fake_prover", NoProver}]
          /\ timed_out' \subseteq Batches
      BY <2>0, <3>1, AssignTypes, Zenon
    <3>5. UNCHANGED <<startVars, stepVars, jobs, aged, stage, batch, proof,
                      proofs, output, committerVars>>
      BY <2>1, Zenon DEF PickJob
    <3>6. QED
      BY <1>0, <3>3, <3>4, <3>5, Zenon DEF FriTypes, TypeOK, Batches
  <2>2. CASE SubmitProof(p)
    <3>1. PICK b \in held[p] \cap jobs : Request(p, "verifying", b)
      BY <2>2, Zenon DEF SubmitProof
    <3>2. b \in Batches
      BY <1>0, <3>1, Zenon DEF TypeOK
    <3>3. QED
      BY <2>0, <2>2, <3>1, <3>2, RequestKeepsTypes, Zenon DEF SubmitProof
  <2>3. CASE VerifyProof(p)
    <3>1. PICK v \in {"verified", "rejected"} : Request(p, v, batch[p])
      BY <2>3, Zenon DEF VerifyProof
    <3>2. batch[p] \in Batches
      BY <2>0, <2>3, Zenon DEF VerifyProof, FriTypes
    <3>3. QED
      BY <2>0, <2>3, <3>1, <3>2, RequestKeepsTypes, Zenon DEF VerifyProof
  <2>4. CASE UnassignJob(p)
    <3>1. assigned_to' \in [Batches -> Provers \cup {"fake_prover", NoProver}]
      BY <1>0, <2>4, Zenon DEF UnassignJob, TypeOK
    <3>2. Request(p, "idle", NoBatch)
      BY <2>4, Zenon DEF UnassignJob
    <3>3. UNCHANGED <<startVars, stepVars, jobs, timed_out, aged, held, proof,
                      proofs, output, committerVars>>
      BY <2>4, Zenon DEF UnassignJob
    <3>4. QED
      BY <1>0, <2>0, <3>1, <3>2, <3>3, RequestTypes, Zenon DEF FriTypes, TypeOK, Batches
  <2>5. CASE CancelRequest(p)
    BY <2>0, <2>5, RequestKeepsTypes, Zenon DEF CancelRequest
  <2>6. QED
    BY <1>3, <2>1, <2>2, <2>3, <2>4, <2>5, Zenon DEF Prover
<1>4. ASSUME NEW f \in FakeWorkers, FakeWorker(f) PROVE FriTypes'
  <2>0. f \in Clients /\ Id(f) \in Provers \cup {"fake_prover", NoProver}
    BY Zenon DEF Clients, Id
  <2>1. CASE PickFakeJob(f)
    <3> DEFINE eligible == AssignableJobs \cap aged
               picked == PickWhile(eligible, version, 1)
    <3>1. picked # {} /\ AssignTo(Id(f), picked) /\ Request(f, "verified", First(picked))
      BY <2>1, Zenon DEF PickFakeJob, Request
    <3>2. eligible \in SUBSET Batches /\ Batches \subseteq Nat
      BY <1>0, AssignableTypes, Zenon
    <3>3. picked \subseteq eligible
      BY <3>2, PickedJobs, Zenon
    <3> HIDE DEF picked
    <3>4. First(picked) \in Batches
      BY <3>1, <3>2, <3>3, FirstIsLeast, Zenon
    <3>5. assigned_to' \in [Batches -> Provers \cup {"fake_prover", NoProver}]
          /\ timed_out' \subseteq Batches
      BY <2>0, <3>1, AssignTypes, Zenon
    <3>6. UNCHANGED <<startVars, stepVars, jobs, aged, held, proof, proofs, output,
                      committerVars>>
      BY <2>1, Zenon DEF PickFakeJob
    <3>7. QED
      BY <1>0, <2>0, <3>1, <3>4, <3>5, <3>6, RequestTypes, Zenon DEF FriTypes, TypeOK, Batches
  <2>2. CASE DropFakeJob(f)
    BY <2>0, <2>2, RequestKeepsTypes, Zenon DEF DropFakeJob
  <2>3. QED
    BY <1>4, <2>1, <2>2, Zenon DEF FakeWorker
<1>5. ASSUME NEW c \in Clients, Serve(c) PROVE FriTypes'
  <2>1. CASE ReservePermit(c)
    <3>1. batch[c] \in Batches
      BY <2>1, Zenon DEF ReservePermit, FriTypes
    <3>2. QED
      BY <2>1, <3>1, RequestKeepsTypes, Zenon DEF ReservePermit
  <2>2. CASE Backpressure(c)
    BY <2>2, RequestKeepsTypes, Zenon DEF Backpressure
  <2>3. CASE LoseRace(c)
    BY <2>3, RequestKeepsTypes, Zenon DEF LoseRace
  <2>4. CASE CompleteJob(c)
    <3>1. batch[c] \in Batches /\ Request(c, "completed", batch[c]) /\ RemoveJob(batch[c])
      BY <2>4, Zenon DEF CompleteJob, FriTypes
    <3>2. proof' \in [Batches -> {"None", "Real", "Fake", "AlreadySubmittedToL1"}]
      BY <1>0, <2>4, Zenon DEF CompleteJob, TypeOK
    <3>3. UNCHANGED <<startVars, stepVars, held, proofs, output, committerVars>>
      BY <2>4, Zenon DEF CompleteJob
    <3>4. QED
      BY <1>0, <3>1, <3>2, <3>3, RequestTypes, RemoveTypes, Zenon DEF FriTypes, TypeOK, Batches
  <2>5. CASE SendProof(c)
    <3>1. batch[c] \in Batches /\ Request(c, "idle", NoBatch)
      BY <2>5, Zenon DEF SendProof, FriTypes
    <3>2. proofs' \in Seq(Batches)
      BY <1>0, <2>5, <3>1, AppendElems, Zenon DEF SendProof, TypeOK
    <3>3. QED
      BY <1>0, <2>5, <3>1, <3>2, RequestTypes, Zenon DEF SendProof, FriTypes, TypeOK, Batches
  <2>6. QED
    BY <1>5, <2>1, <2>2, <2>3, <2>4, <2>5, Zenon DEF Serve
<1>6. CASE ForwardProof
  <2>1. Head(proofs) \in Batches /\ proofs' \in Seq(Batches) /\ output' \in Seq(Batches)
    BY <1>0, <1>6 DEF ForwardProof, TypeOK
  <2>2. QED
    BY <1>0, <1>6, <2>1, Zenon DEF ForwardProof, FriTypes, TypeOK, Batches
<1>7. CASE Committer
  <2>1. CASE BufferBatch
    <3>1. Head(output) \in Batches /\ output' \in Seq(Batches)
      BY <1>0, <2>1 DEF BufferBatch, TypeOK
    <3>2. QED
      BY <1>0, <2>1, <3>1, Zenon DEF BufferBatch, FriTypes, TypeOK, Batches
  <2>2. CASE CommitBatch
    <3>1. PICK b \in buffer : /\ CanFlush(b)
                              /\ buffer' = buffer \ {b}
                              /\ next_expected' = next_expected + 1
                              /\ commands' = Append(commands, Command(b))
      BY <2>2, Zenon DEF CommitBatch
    <3>2. b \in Batches /\ next_expected = b
      BY <1>0, <3>1, Zenon DEF TypeOK, CanFlush
    <3>3. Command(b) \in [batch : Batches, type : {"Passthrough", "SendToL1"}]
      BY <3>2, Zenon DEF Command
    <3>4. commands' \in Seq([batch : Batches, type : {"Passthrough", "SendToL1"}])
      BY <1>0, <3>1, <3>3 DEF TypeOK
    <3>5. next_expected' \in 1 .. MaxBatch + 1
      BY <1>0, <3>1, <3>2 DEF Batches
    <3>6. UNCHANGED <<startVars, stepVars, jobVars, requestVars, proof, proofs, output>>
      BY <2>2, Zenon DEF CommitBatch
    <3>7. QED
      BY <1>0, <3>1, <3>4, <3>5, <3>6, Zenon DEF FriTypes, TypeOK, Batches
  <2>3. QED
    BY <1>7, <2>1, <2>2, Zenon DEF Committer
<1>8. CASE UNCHANGED vars
  BY <1>0, <1>8, Zenon DEF vars, FriTypes, TypeOK, Batches
<1>9. QED
  BY <1>1, <1>2, <1>3, <1>4, <1>5, <1>6, <1>7, <1>8, Zenon DEF Next

\* Every step of the stage, the provers and the committer keeps the type invariant.
THEOREM FriTypeCorrect == Spec => []TypeOK
<1>1. FriTypes => TypeOK
  BY Zenon DEF FriTypes
<1>2. QED
  BY <1>1, FriTypesInit, FriTypesNext, PTL DEF Spec

-----------------------------------------------------------------------------
(* No lost wakeup *)

\* The part of the type invariant that the argument needs.
StageType == stage \in [Clients -> {"idle", "verifying", "verified", "rejected",
                                    "reserved", "completed"}]

WakeupInv == StageType /\ NoLostWakeup

LEMMA WakeupInit == Init => WakeupInv
  BY Zenon DEF Init, WakeupInv, StageType, NoLostWakeup

\* A request that is not between the removal of its job and the notification
\* changes neither the map nor, if there is one, the client that is.
LEMMA RequestKeepsWakeup ==
  ASSUME WakeupInv, NEW c \in Clients, NEW b,
         NEW s \in {"idle", "verifying", "verified", "rejected", "reserved", "completed"},
         stage[c] # "completed", Request(c, s, b),
         UNCHANGED <<waiting, jobs>>
  PROVE  WakeupInv'
<1>1. StageType'
  BY Zenon DEF WakeupInv, StageType, Request
<1>2. ASSUME NEW d \in Clients, stage[d] = "completed"
      PROVE  stage'[d] = "completed"
  BY <1>2, Zenon DEF WakeupInv, StageType, Request
<1>3. NoLostWakeup'
  BY <1>2, Zenon DEF WakeupInv, NoLostWakeup, IsQueueFull
<1>4. QED
  BY <1>1, <1>3, Zenon DEF WakeupInv

LEMMA WakeupFrame ==
  ASSUME WakeupInv, UNCHANGED <<waiting, jobs, stage>>
  PROVE  WakeupInv'
  BY Zenon DEF WakeupInv, StageType, NoLostWakeup, IsQueueFull

LEMMA WakeupNext == WakeupInv /\ [Next]_vars => WakeupInv'
<1> SUFFICES ASSUME WakeupInv, [Next]_vars PROVE WakeupInv'
  BY Zenon
<1> USE DEF jobVars, requestVars, stepVars
<1>1. CASE PipelineStep
  <2>1. CASE PassProved \/ ReceiveBatch
    BY <2>1, WakeupFrame, Zenon DEF PassProved, ReceiveBatch
  <2>2. CASE AddJob
    BY <2>2, Zenon DEF AddJob, WakeupInv, StageType, NoLostWakeup
  <2>3. CASE WaitForSpace
    BY <2>3, Zenon DEF WaitForSpace, WakeupInv, StageType, NoLostWakeup, IsQueueFull
  <2>4. QED
    BY <1>1, <2>1, <2>2, <2>3, Zenon DEF PipelineStep
<1>2. CASE Time
  BY <1>2, WakeupFrame, Zenon DEF Time, AssignmentTimeout, BecomeAged
<1>3. ASSUME NEW p \in Provers, Prover(p) PROVE WakeupInv'
  <2>0. p \in Clients
    BY Zenon DEF Clients
  <2>1. CASE PickJob(p)
    BY <2>1, WakeupFrame, Zenon DEF PickJob
  <2>2. CASE SubmitProof(p)
    <3>1. PICK b \in held[p] \cap jobs : Request(p, "verifying", b)
      BY <2>2, Zenon DEF SubmitProof
    <3>2. QED
      BY <2>0, <2>2, <3>1, RequestKeepsWakeup, Zenon DEF SubmitProof
  <2>3. CASE VerifyProof(p)
    BY <2>0, <2>3, RequestKeepsWakeup, Zenon DEF VerifyProof
  <2>4. CASE UnassignJob(p)
    BY <2>0, <2>4, RequestKeepsWakeup, Zenon DEF UnassignJob
  <2>5. CASE CancelRequest(p)
    BY <2>0, <2>5, RequestKeepsWakeup, Zenon DEF CancelRequest
  <2>6. QED
    BY <1>3, <2>1, <2>2, <2>3, <2>4, <2>5, Zenon DEF Prover
<1>4. ASSUME NEW f \in FakeWorkers, FakeWorker(f) PROVE WakeupInv'
  <2>0. f \in Clients
    BY Zenon DEF Clients
  <2>1. CASE PickFakeJob(f)
    <3>1. PICK b : Request(f, "verified", b)
      BY <2>1, Zenon DEF PickFakeJob, Request
    <3>2. QED
      BY <2>0, <2>1, <3>1, RequestKeepsWakeup, Zenon DEF PickFakeJob
  <2>2. CASE DropFakeJob(f)
    BY <2>0, <2>2, RequestKeepsWakeup DEF DropFakeJob
  <2>3. QED
    BY <1>4, <2>1, <2>2, Zenon DEF FakeWorker
<1>5. ASSUME NEW c \in Clients, Serve(c) PROVE WakeupInv'
  <2>1. CASE ReservePermit(c)
    BY <2>1, RequestKeepsWakeup, Zenon DEF ReservePermit
  <2>2. CASE Backpressure(c)
    BY <2>2, RequestKeepsWakeup, Zenon DEF Backpressure
  <2>3. CASE LoseRace(c)
    BY <2>3, RequestKeepsWakeup, Zenon DEF LoseRace
  <2>4. CASE CompleteJob(c)
    <3>1. stage'[c] = "completed" /\ StageType'
      BY <2>4, Zenon DEF CompleteJob, Request, WakeupInv, StageType
    <3>2. QED
      BY <3>1, Zenon DEF WakeupInv, NoLostWakeup
  <2>5. CASE SendProof(c)
    <3>1. waiting' = FALSE /\ StageType'
      BY <2>5, Zenon DEF SendProof, Request, WakeupInv, StageType
    <3>2. QED
      BY <3>1, Zenon DEF WakeupInv, NoLostWakeup
  <2>6. QED
    BY <1>5, <2>1, <2>2, <2>3, <2>4, <2>5, Zenon DEF Serve
<1>6. CASE ForwardProof
  BY <1>6, WakeupFrame, Zenon DEF ForwardProof
<1>7. CASE Committer
  BY <1>7, WakeupFrame, Zenon DEF Committer, BufferBatch, CommitBatch
<1>8. CASE UNCHANGED vars
  BY <1>8, WakeupFrame, Zenon DEF vars
<1>9. QED
  BY <1>1, <1>2, <1>3, <1>4, <1>5, <1>6, <1>7, <1>8, Zenon DEF Next

\* add_job never sleeps on a map with room unless a notification is on its way:
\* it creates its Notified before it unlocks the map, and whoever makes room
\* notifies after unlocking it.
THEOREM AddJobWoken == Spec => []NoLostWakeup
<1>1. WakeupInv => NoLostWakeup
  BY Zenon DEF WakeupInv
<1>2. QED
  BY <1>1, WakeupInit, WakeupNext, PTL DEF Spec

-----------------------------------------------------------------------------
(* The committer's order *)

OrderInv ==
    /\ last_executed \in Nat
    /\ commands \in Seq([batch : Nat, type : {"Passthrough", "SendToL1"}])
    /\ next_expected = last_executed + 1 + Len(commands)
    /\ CommitsInOrder

LEMMA OrderInit == Init => OrderInv
  BY MaxBatchAssumption DEF Init, OrderInv, CommitsInOrder

LEMMA OrderFrame ==
  ASSUME OrderInv, UNCHANGED <<last_executed, next_expected, commands>>
  PROVE  OrderInv'
  BY Zenon DEF OrderInv, CommitsInOrder

LEMMA OrderCommit == OrderInv /\ CommitBatch => OrderInv'
<1> SUFFICES ASSUME OrderInv, CommitBatch PROVE OrderInv'
  BY Zenon
<1> DEFINE n == Len(commands)
           c == Command(next_expected)
<1>1. /\ commands' = Append(commands, c)
      /\ next_expected' = next_expected + 1
      /\ last_executed' = last_executed
  BY Zenon DEF CommitBatch, CanFlush, startVars
<1>2. next_expected \in Nat /\ n \in Nat /\ last_executed \in Nat
  BY DEF OrderInv
<1>3. c \in [batch : Nat, type : {"Passthrough", "SendToL1"}] /\ c.batch = next_expected
  BY <1>2, Zenon DEF Command
<1>4. commands' \in Seq([batch : Nat, type : {"Passthrough", "SendToL1"}])
      /\ Len(commands') = n + 1
  BY <1>1, <1>3 DEF OrderInv
<1>5. next_expected = last_executed + 1 + n
  BY Zenon DEF OrderInv
<1>6. ASSUME NEW i \in 1 .. Len(commands') PROVE commands'[i].batch = last_executed' + i
  <2>1. CASE i = n + 1
    <3>1. commands'[i] = c
      BY <1>1, <2>1 DEF OrderInv
    <3>2. QED
      BY <1>1, <1>2, <1>3, <1>5, <2>1, <3>1
  <2>2. CASE i # n + 1
    <3>1. i \in 1 .. n
      BY <1>2, <1>4, <2>2
    <3>2. commands'[i] = commands[i]
      BY <1>1, <3>1 DEF OrderInv
    <3>3. QED
      BY <1>1, <3>1, <3>2, Zenon DEF OrderInv, CommitsInOrder
  <2>3. QED
    BY <2>1, <2>2, Zenon
<1>7. next_expected' = last_executed' + 1 + Len(commands')
  BY <1>1, <1>2, <1>4, <1>5
<1>8. QED
  BY <1>1, <1>2, <1>4, <1>6, <1>7, Zenon DEF OrderInv, CommitsInOrder

LEMMA OrderNext == OrderInv /\ [Next]_vars => OrderInv'
<1> SUFFICES ASSUME OrderInv, [Next]_vars PROVE OrderInv'
  BY Zenon
<1> USE DEF committerVars, startVars
<1>1. CASE PipelineStep \/ Time \/ ForwardProof
  BY <1>1, OrderFrame, Zenon DEF PipelineStep, PassProved, ReceiveBatch, AddJob, WaitForSpace,
                          Time, AssignmentTimeout, BecomeAged, ForwardProof
<1>2. ASSUME NEW p \in Provers, Prover(p) PROVE OrderInv'
  BY <1>2, OrderFrame, Zenon DEF Prover, PickJob, SubmitProof, VerifyProof, UnassignJob, CancelRequest
<1>3. ASSUME NEW f \in FakeWorkers, FakeWorker(f) PROVE OrderInv'
  BY <1>3, OrderFrame, Zenon DEF FakeWorker, PickFakeJob, DropFakeJob
<1>4. ASSUME NEW c \in Clients, Serve(c) PROVE OrderInv'
  BY <1>4, OrderFrame, Zenon DEF Serve, ReservePermit, Backpressure, CompleteJob, LoseRace, SendProof
<1>5. CASE Committer
  <2>1. CASE BufferBatch
    BY <2>1, OrderFrame, Zenon DEF BufferBatch
  <2>2. CASE CommitBatch
    BY <2>2, OrderCommit, Zenon
  <2>3. QED
    BY <1>5, <2>1, <2>2, Zenon DEF Committer
<1>6. CASE UNCHANGED vars
  BY <1>6, OrderFrame, Zenon DEF vars
<1>7. QED
  BY <1>1, <1>2, <1>3, <1>4, <1>5, <1>6, Zenon DEF Next

-----------------------------------------------------------------------------
(* Every batch is in one place *)

\* Two requests never complete the same batch.
DistinctCompletions ==
    \A c, d \in Clients :
       stage[c] = "completed" /\ stage[d] = "completed" /\ batch[c] = batch[d] => c = d

PlaceInv ==
    /\ NoRepeats(proofs)
    /\ NoRepeats(output)
    /\ DistinctCompletions
    /\ Exclusive(Places)
    /\ Covers(Places, last_executed + 1 .. MaxBatch)

\* What a channel holds after a send.
LEMMA ElemsAppend ==
  ASSUME NEW S, NEW s \in Seq(S), NEW x \in S
  PROVE  Elems(Append(s, x)) = Elems(s) \cup {x}
  BY AppendElems DEF Elems

LEMMA ElemsSend ==
  ASSUME NEW S, NEW s \in Seq(S), NEW x \in S, x \notin Elems(s), NoRepeats(s)
  PROVE  Elems(Append(s, x)) = Elems(s) \cup {x} /\ NoRepeats(Append(s, x))
  BY AppendElems DEF Elems

LEMMA FriPlaces ==
  /\ DOMAIN Places = PlaceIds
  /\ Places[1] = next_batch .. MaxBatch
  /\ Places[2] = {adding} \ {NoBatch}
  /\ Places[3] = jobs
  /\ Places[4] = InCompletion
  /\ Places[5] = Elems(proofs)
  /\ Places[6] = Elems(output)
  /\ Places[7] = buffer
  /\ Places[8] = {c.batch : c \in Elems(commands)}
  BY DEF Places, PlaceIds

LEMMA FriPlacesNext ==
  /\ Places'[1] = next_batch' .. MaxBatch
  /\ Places'[2] = {adding'} \ {NoBatch}
  /\ Places'[3] = jobs'
  /\ Places'[4] = InCompletion'
  /\ Places'[5] = Elems(proofs)'
  /\ Places'[6] = Elems(output)'
  /\ Places'[7] = buffer'
  /\ Places'[8] = {c.batch : c \in Elems(commands)}'
  BY Zenon DEF Places

LEMMA PlaceInvInit == Init => PlaceInv
<1> SUFFICES ASSUME Init PROVE PlaceInv
  BY Zenon
<1>1. /\ Places[1] = last_executed + 1 .. MaxBatch /\ Places[2] = {} /\ Places[3] = {}
      /\ Places[5] = {} /\ Places[6] = {} /\ Places[7] = {} /\ Places[8] = {}
  BY FriPlaces DEF Init, Elems
<1>2. Places[4] = {}
  BY FriPlaces, Zenon DEF Init, InCompletion
<1>4. Exclusive(Places) /\ Covers(Places, last_executed + 1 .. MaxBatch)
  BY <1>1, <1>2, InitialPlaces, Zenon
<1>5. NoRepeats(proofs) /\ NoRepeats(output) /\ DistinctCompletions
  BY DEF Init, NoRepeats, DistinctCompletions
<1>6. QED
  BY <1>4, <1>5, Zenon DEF PlaceInv

\* A request that neither completes nor has completed its batch.
LEMMA RequestKeepsCompletion ==
  ASSUME FriTypes, NEW c \in Clients, NEW s, NEW b, Request(c, s, b),
         stage[c] # "completed", s # "completed"
  PROVE  InCompletion' = InCompletion /\ (DistinctCompletions => DistinctCompletions')
<1>1. \A d \in Clients : /\ stage'[d] = "completed" <=> stage[d] = "completed"
                         /\ stage[d] = "completed" => batch'[d] = batch[d]
  BY Zenon DEF FriTypes, TypeOK, Request
<1>2. QED
  BY <1>1, Zenon DEF InCompletion, DistinctCompletions

LEMMA CompletionGrows ==
  ASSUME FriTypes, NEW c \in Clients, Request(c, "completed", batch[c]),
         stage[c] # "completed", batch[c] \notin InCompletion
  PROVE  /\ InCompletion' = InCompletion \cup {batch[c]}
         /\ DistinctCompletions => DistinctCompletions'
<1>1. /\ \A d \in Clients : stage'[d] = "completed" <=> stage[d] = "completed" \/ d = c
      /\ \A d \in Clients : batch'[d] = batch[d]
  BY Zenon DEF FriTypes, TypeOK, Request
<1>2. \A d \in Clients : stage[d] = "completed" => batch[d] # batch[c]
  BY Zenon DEF InCompletion
<1>3. InCompletion' = InCompletion \cup {batch[c]}
  BY <1>1 DEF InCompletion
<1>4. QED
  BY <1>1, <1>2, <1>3 DEF DistinctCompletions

LEMMA CompletionShrinks ==
  ASSUME FriTypes, NEW c \in Clients, Request(c, "idle", NoBatch),
         stage[c] = "completed", DistinctCompletions
  PROVE  /\ batch[c] \in InCompletion
         /\ InCompletion' = InCompletion \ {batch[c]}
         /\ DistinctCompletions'
<1>1. /\ \A d \in Clients : stage'[d] = "completed" <=> stage[d] = "completed" /\ d # c
      /\ \A d \in Clients : d # c => batch'[d] = batch[d]
  BY Zenon DEF FriTypes, TypeOK, Request
<1>2. \A d \in Clients : stage[d] = "completed" /\ d # c => batch[d] # batch[c]
  BY Zenon DEF DistinctCompletions
<1>3. InCompletion' = InCompletion \ {batch[c]}
  BY <1>1, <1>2 DEF InCompletion
<1>4. QED
  BY <1>1, <1>3, Zenon DEF DistinctCompletions, InCompletion

\* A step that moves no batch.
LEMMA PlacesFrame ==
  ASSUME PlaceInv, InCompletion' = InCompletion, DistinctCompletions',
         UNCHANGED <<last_executed, next_batch, adding, jobs, proofs, output, buffer, commands>>
  PROVE  PlaceInv'
<1>1. \A k \in PlaceIds : Places'[k] = Places[k]
  <2>1. /\ Places'[1] = Places[1] /\ Places'[2] = Places[2] /\ Places'[3] = Places[3]
        /\ Places'[4] = Places[4] /\ Places'[5] = Places[5] /\ Places'[6] = Places[6]
        /\ Places'[7] = Places[7] /\ Places'[8] = Places[8]
    BY FriPlaces, FriPlacesNext, Zenon
  <2>2. QED
    BY <2>1 DEF PlaceIds
<1>2. Exclusive(Places)' /\ Covers(Places, last_executed + 1 .. MaxBatch)'
  BY <1>1, Zenon DEF PlaceInv, Exclusive, Covers
<1>3. QED
  BY <1>2, Zenon DEF PlaceInv, NoRepeats

LEMMA RequestMovesNothing ==
  ASSUME FriTypes, PlaceInv, NEW c \in Clients, NEW s, NEW b, Request(c, s, b),
         stage[c] # "completed", s # "completed",
         UNCHANGED <<last_executed, next_batch, adding, jobs, proofs, output, buffer, commands>>
  PROVE  PlaceInv'
<1>1. InCompletion' = InCompletion /\ DistinctCompletions'
  BY RequestKeepsCompletion, Zenon DEF PlaceInv
<1>2. QED
  BY <1>1, PlacesFrame, Zenon

\* A step that takes the batch m from place i to place j.
LEMMA PlacesMove ==
  ASSUME PlaceInv, last_executed' = last_executed,
         NEW i, NEW j, NEW M, Moved(Places, Places', i, j, M),
         NoRepeats(proofs)', NoRepeats(output)', DistinctCompletions'
  PROVE  PlaceInv'
<1> DEFINE P == Places
           Q == Places'
           S == last_executed + 1 .. MaxBatch
<1>1. Exclusive(P) /\ Covers(P, S) /\ Moved(P, Q, i, j, M)
  BY Zenon DEF PlaceInv
<1> HIDE DEF P, Q, S
<1>2. Exclusive(Q) /\ Covers(Q, S)
  BY <1>1, MoveBatches, Zenon
<1>3. QED
  BY <1>2, Zenon DEF P, Q, S, PlaceInv, Exclusive, Covers

\* What is at one place is at no other.
LEMMA Elsewhere ==
  ASSUME PlaceInv, NEW i \in PlaceIds, NEW j \in PlaceIds, i # j, NEW m, m \in Places[i]
  PROVE  m \notin Places[j]
  BY Zenon DEF PlaceInv, Exclusive

LEMMA StepPlaces == FriTypes /\ PlaceInv /\ PipelineStep => PlaceInv'
<1> SUFFICES ASSUME FriTypes, PlaceInv, PipelineStep PROVE PlaceInv'
  BY Zenon
<1> USE DEF startVars, jobVars, requestVars, committerVars
<1>0. TypeOK /\ MaxBatch \in Nat
  BY MaxBatchAssumption, Zenon DEF FriTypes
<1>1. PipelineStep => InCompletion' = InCompletion /\ DistinctCompletions'
  BY Zenon DEF PipelineStep, PassProved, ReceiveBatch, AddJob, WaitForSpace, InCompletion,
         PlaceInv, DistinctCompletions
<1>2. CASE PassProved
  <2>1. next_batch \in Batches /\ next_batch \in next_batch .. MaxBatch
        /\ next_batch + 1 .. MaxBatch = (next_batch .. MaxBatch) \ {next_batch}
    BY <1>0, <1>2 DEF PassProved, TypeOK, Batches
  <2>2. next_batch \in Places[1]
    BY <2>1, FriPlaces, Zenon
  <2>2a. next_batch \notin Places[6]
    BY <2>2, Elsewhere, PlaceNumbers
  <2>2b. next_batch \notin Elems(output) /\ NoRepeats(output)
    BY <2>2a, FriPlaces, Zenon DEF PlaceInv
  <2>3. Elems(output)' = Elems(output) \cup {next_batch} /\ NoRepeats(output)'
    <3>1. output \in Seq(Batches) /\ output' = Append(output, next_batch)
      BY <1>0, <1>2, Zenon DEF PassProved, TypeOK
    <3>2. QED
      BY <2>1, <2>2b, <3>1, ElemsSend
  <2>4. \A k \in PlaceIds : k # 1 /\ k # 6 => Places'[k] = Places[k]
    <3>1. /\ Places'[2] = Places[2] /\ Places'[3] = Places[3] /\ Places'[4] = Places[4]
          /\ Places'[5] = Places[5] /\ Places'[7] = Places[7] /\ Places'[8] = Places[8]
      BY <1>1, <1>2, FriPlaces, FriPlacesNext, Zenon DEF PassProved
    <3>2. QED
      BY <3>1 DEF PlaceIds
  <2>5. Places'[1] = Places[1] \ {next_batch} /\ Places'[6] = Places[6] \cup {next_batch}
    BY <1>2, <2>1, <2>3, FriPlaces, FriPlacesNext, Zenon DEF PassProved
  <2>6. NoRepeats(proofs)' /\ last_executed' = last_executed
    BY <1>2, Zenon DEF PassProved, PlaceInv, NoRepeats
  <2>7. Moved(Places, Places', 1, 6, {next_batch})
    BY <2>2, <2>4, <2>5, PlaceNumbers DEF Moved
  <2>8. QED
    BY <1>1, <2>3, <2>6, <2>7, PlacesMove, Zenon
<1>3. CASE ReceiveBatch
  <2>1. next_batch \in Batches /\ next_batch # NoBatch /\ next_batch \in next_batch .. MaxBatch
        /\ next_batch + 1 .. MaxBatch = (next_batch .. MaxBatch) \ {next_batch}
    BY <1>0, <1>3, NoBatchAssumption DEF ReceiveBatch, TypeOK, Batches
  <2>2. next_batch \in Places[1]
    BY <2>1, FriPlaces, Zenon
  <2>3. \A k \in PlaceIds : k # 1 /\ k # 2 => Places'[k] = Places[k]
    <3>1. /\ Places'[3] = Places[3] /\ Places'[4] = Places[4] /\ Places'[5] = Places[5]
          /\ Places'[6] = Places[6] /\ Places'[7] = Places[7] /\ Places'[8] = Places[8]
      BY <1>1, <1>3, FriPlaces, FriPlacesNext, Zenon DEF ReceiveBatch
    <3>2. QED
      BY <3>1 DEF PlaceIds
  <2>4. Places'[1] = Places[1] \ {next_batch} /\ Places'[2] = Places[2] \cup {next_batch}
    BY <1>3, <2>1, FriPlaces, FriPlacesNext, Zenon DEF ReceiveBatch
  <2>5. NoRepeats(proofs)' /\ NoRepeats(output)' /\ last_executed' = last_executed
    BY <1>3 DEF ReceiveBatch, PlaceInv, NoRepeats
  <2>6. Moved(Places, Places', 1, 2, {next_batch})
    BY <2>2, <2>3, <2>4, PlaceNumbers DEF Moved
  <2>7. QED
    BY <1>1, <2>5, <2>6, PlacesMove, Zenon
<1>4. CASE AddJob
  <2>1. adding \in Places[2]
    BY <1>4, FriPlaces, Zenon DEF AddJob
  <2>2. \A k \in PlaceIds : k # 2 /\ k # 3 => Places'[k] = Places[k]
    <3>1. /\ Places'[1] = Places[1] /\ Places'[4] = Places[4] /\ Places'[5] = Places[5]
          /\ Places'[6] = Places[6] /\ Places'[7] = Places[7] /\ Places'[8] = Places[8]
      BY <1>1, <1>4, FriPlaces, FriPlacesNext, Zenon DEF AddJob
    <3>2. QED
      BY <3>1 DEF PlaceIds
  <2>3. Places'[2] = Places[2] \ {adding} /\ Places'[3] = Places[3] \cup {adding}
    BY <1>4, FriPlaces, FriPlacesNext, Zenon DEF AddJob
  <2>4. NoRepeats(proofs)' /\ NoRepeats(output)' /\ last_executed' = last_executed
    BY <1>4 DEF AddJob, PlaceInv, NoRepeats
  <2>5. Moved(Places, Places', 2, 3, {adding})
    BY <2>1, <2>2, <2>3, PlaceNumbers DEF Moved
  <2>6. QED
    BY <1>1, <2>4, <2>5, PlacesMove, Zenon
<1>5. CASE WaitForSpace
  BY <1>1, <1>5, PlacesFrame, Zenon DEF WaitForSpace
<1>6. QED
  BY <1>2, <1>3, <1>4, <1>5, Zenon DEF PipelineStep

LEMMA ServePlaces ==
  ASSUME FriTypes, PlaceInv, NEW c \in Clients, Serve(c)
  PROVE  PlaceInv'
<1> USE DEF startVars, stepVars, jobVars, committerVars
<1>0. TypeOK
  BY Zenon DEF FriTypes
<1>1. CASE ReservePermit(c) \/ Backpressure(c) \/ LoseRace(c)
  BY <1>1, RequestMovesNothing, Zenon DEF ReservePermit, Backpressure, LoseRace
<1>2. CASE CompleteJob(c)
  <2>1. batch[c] \in Places[3] /\ batch[c] \notin Places[4]
    BY <1>2, FriPlaces, Elsewhere, PlaceNumbers DEF CompleteJob, CanComplete
  <2>2. InCompletion' = InCompletion \cup {batch[c]} /\ DistinctCompletions'
    BY <1>2, <2>1, FriPlaces, CompletionGrows, Zenon DEF CompleteJob, PlaceInv
  <2>3. \A k \in PlaceIds : k # 3 /\ k # 4 => Places'[k] = Places[k]
    <3>1. /\ Places'[1] = Places[1] /\ Places'[2] = Places[2] /\ Places'[5] = Places[5]
          /\ Places'[6] = Places[6] /\ Places'[7] = Places[7] /\ Places'[8] = Places[8]
      BY <1>2, FriPlaces, FriPlacesNext, Zenon DEF CompleteJob
    <3>2. QED
      BY <3>1 DEF PlaceIds
  <2>4. Places'[3] = Places[3] \ {batch[c]} /\ Places'[4] = Places[4] \cup {batch[c]}
    BY <1>2, <2>2, FriPlaces, FriPlacesNext, Zenon DEF CompleteJob, RemoveJob
  <2>5. NoRepeats(proofs)' /\ NoRepeats(output)' /\ last_executed' = last_executed
    BY <1>2 DEF CompleteJob, PlaceInv, NoRepeats
  <2>6. Moved(Places, Places', 3, 4, {batch[c]})
    BY <2>1, <2>3, <2>4, PlaceNumbers DEF Moved
  <2>7. QED
    BY <2>1, <2>2, <2>5, <2>6, PlacesMove, Zenon
<1>3. CASE SendProof(c)
  <2>1. /\ batch[c] \in InCompletion
        /\ InCompletion' = InCompletion \ {batch[c]}
        /\ DistinctCompletions'
    BY <1>3, CompletionShrinks, Zenon DEF SendProof, PlaceInv
  <2>2. batch[c] \in Places[4] /\ batch[c] \notin Elems(proofs)
    BY <2>1, FriPlaces, Elsewhere, PlaceNumbers
  <2>3. batch[c] \in Batches
    BY <1>3, Zenon DEF SendProof, FriTypes
  <2>4. Elems(proofs)' = Elems(proofs) \cup {batch[c]} /\ NoRepeats(proofs)'
    <3>1. /\ proofs \in Seq(Batches) /\ proofs' = Append(proofs, batch[c])
          /\ NoRepeats(proofs)
      BY <1>0, <1>3, Zenon DEF SendProof, TypeOK, PlaceInv
    <3>2. QED
      BY <2>2, <2>3, <3>1, ElemsSend
  <2>5. \A k \in PlaceIds : k # 4 /\ k # 5 => Places'[k] = Places[k]
    <3>1. /\ Places'[1] = Places[1] /\ Places'[2] = Places[2] /\ Places'[3] = Places[3]
          /\ Places'[6] = Places[6] /\ Places'[7] = Places[7] /\ Places'[8] = Places[8]
      BY <1>3, FriPlaces, FriPlacesNext, Zenon DEF SendProof
    <3>2. QED
      BY <3>1 DEF PlaceIds
  <2>6. Places'[4] = Places[4] \ {batch[c]} /\ Places'[5] = Places[5] \cup {batch[c]}
    BY <2>1, <2>4, FriPlaces, FriPlacesNext, Zenon
  <2>7. NoRepeats(output)' /\ last_executed' = last_executed
    BY <1>3, Zenon DEF SendProof, PlaceInv, NoRepeats
  <2>8. Moved(Places, Places', 4, 5, {batch[c]})
    BY <2>2, <2>5, <2>6, PlaceNumbers DEF Moved
  <2>9. QED
    BY <2>1, <2>2, <2>4, <2>7, <2>8, PlacesMove, Zenon
<1>4. QED
  BY <1>1, <1>2, <1>3, Zenon DEF Serve

LEMMA ForwardPlaces == FriTypes /\ PlaceInv /\ ForwardProof => PlaceInv'
<1> SUFFICES ASSUME FriTypes, PlaceInv, ForwardProof PROVE PlaceInv'
  BY Zenon
<1> USE DEF startVars, stepVars, jobVars, requestVars, committerVars
<1> DEFINE m == Head(proofs)
<1>1. proofs \in Seq(Batches) /\ output \in Seq(Batches) /\ proofs # << >>
  BY Zenon DEF FriTypes, TypeOK, ForwardProof
<1>2. /\ m \in Batches /\ m \in Elems(proofs) /\ NoRepeats(proofs)'
      /\ Elems(proofs)' = Elems(proofs) \ {m}
  <2>1. NoRepeats(proofs)
    BY Zenon DEF PlaceInv
  <2>2. proofs' = Tail(proofs)
    BY Zenon DEF ForwardProof
  <2>3. /\ m \in Batches /\ m \in {proofs[i] : i \in 1 .. Len(proofs)}
        /\ {Tail(proofs)[i] : i \in 1 .. Len(Tail(proofs))}
              = {proofs[i] : i \in 1 .. Len(proofs)} \ {m}
        /\ NoRepeats(Tail(proofs))
    BY <1>1, <2>1, TailElems, Zenon
  <2>4. QED
    BY <2>2, <2>3, Zenon DEF Elems
<1>3. m \in Places[5] /\ m \notin Elems(output)
  BY <1>2, FriPlaces, Elsewhere, PlaceNumbers
<1>4. Elems(output)' = Elems(output) \cup {m} /\ NoRepeats(output)'
  BY <1>1, <1>2, <1>3, AppendElems DEF ForwardProof, Elems, PlaceInv
<1>5. InCompletion' = InCompletion /\ DistinctCompletions'
  BY Zenon DEF ForwardProof, InCompletion, PlaceInv, DistinctCompletions
<1>6. \A k \in PlaceIds : k # 5 /\ k # 6 => Places'[k] = Places[k]
  <2>1. /\ Places'[1] = Places[1] /\ Places'[2] = Places[2] /\ Places'[3] = Places[3]
        /\ Places'[4] = Places[4] /\ Places'[7] = Places[7] /\ Places'[8] = Places[8]
    BY <1>5, FriPlaces, FriPlacesNext, Zenon DEF ForwardProof
  <2>2. QED
    BY <2>1 DEF PlaceIds
<1>7. Places'[5] = Places[5] \ {m} /\ Places'[6] = Places[6] \cup {m}
  BY <1>2, <1>4, FriPlaces, FriPlacesNext, Zenon
<1>8. last_executed' = last_executed
  BY Zenon DEF ForwardProof
<1>9. Moved(Places, Places', 5, 6, {m})
  BY <1>3, <1>6, <1>7, PlaceNumbers DEF Moved
<1>10. QED
  BY <1>2, <1>3, <1>4, <1>5, <1>8, <1>9, PlacesMove, Zenon

LEMMA CommitterPlaces == FriTypes /\ PlaceInv /\ Committer => PlaceInv'
<1> SUFFICES ASSUME FriTypes, PlaceInv, Committer PROVE PlaceInv'
  BY Zenon
<1> USE DEF startVars, stepVars, jobVars, requestVars
<1>1. InCompletion' = InCompletion /\ DistinctCompletions'
  BY Zenon DEF Committer, BufferBatch, CommitBatch, InCompletion, PlaceInv, DistinctCompletions
<1>2. CASE BufferBatch
  <2> DEFINE m == Head(output)
  <2>1. m \in Elems(output) /\ Elems(output)' = Elems(output) \ {m} /\ NoRepeats(output)'
    <3>1. NoRepeats(output) /\ output \in Seq(Batches) /\ output # << >>
      BY <1>2, Zenon DEF BufferBatch, PlaceInv, FriTypes, TypeOK
    <3>2. output' = Tail(output)
      BY <1>2, Zenon DEF BufferBatch
    <3>3. /\ m \in {output[i] : i \in 1 .. Len(output)}
          /\ {Tail(output)[i] : i \in 1 .. Len(Tail(output))}
                = {output[i] : i \in 1 .. Len(output)} \ {m}
          /\ NoRepeats(Tail(output))
      BY <3>1, TailElems, Zenon
    <3>4. QED
      BY <3>2, <3>3, Zenon DEF Elems
  <2>2. m \in Places[6]
    BY <2>1, FriPlaces, Zenon
  <2>3. \A k \in PlaceIds : k # 6 /\ k # 7 => Places'[k] = Places[k]
    <3>1. /\ Places'[1] = Places[1] /\ Places'[2] = Places[2] /\ Places'[3] = Places[3]
          /\ Places'[4] = Places[4] /\ Places'[5] = Places[5] /\ Places'[8] = Places[8]
      BY <1>1, <1>2, FriPlaces, FriPlacesNext, Zenon DEF BufferBatch
    <3>2. QED
      BY <3>1 DEF PlaceIds
  <2>4. Places'[6] = Places[6] \ {m} /\ Places'[7] = Places[7] \cup {m}
    BY <1>2, <2>1, FriPlaces, FriPlacesNext, Zenon DEF BufferBatch
  <2>5. NoRepeats(proofs)' /\ last_executed' = last_executed
    BY <1>2, Zenon DEF BufferBatch, PlaceInv, NoRepeats
  <2>6. Moved(Places, Places', 6, 7, {m})
    BY <2>2, <2>3, <2>4, PlaceNumbers DEF Moved
  <2>7. QED
    BY <1>1, <2>1, <2>5, <2>6, PlacesMove, Zenon
<1>3. CASE CommitBatch
  <2>1. PICK b \in buffer : /\ buffer' = buffer \ {b}
                            /\ commands' = Append(commands, Command(b))
    BY <1>3, Zenon DEF CommitBatch
  <2>2. b \in Places[7] /\ b \in Batches
    BY <2>1, FriPlaces, Zenon DEF FriTypes, TypeOK
  <2> DEFINE R == [batch : Batches, type : {"Passthrough", "SendToL1"}]
  <2>3. Command(b) \in R /\ Command(b).batch = b /\ commands \in Seq(R)
    BY <2>2, Zenon DEF Command, FriTypes, TypeOK
  <2>4. Elems(commands)' = Elems(commands) \cup {Command(b)}
    <3> HIDE DEF R
    <3> QED
      BY <2>1, <2>3, ElemsAppend
  <2>5. \A k \in PlaceIds : k # 7 /\ k # 8 => Places'[k] = Places[k]
    <3>1. /\ Places'[1] = Places[1] /\ Places'[2] = Places[2] /\ Places'[3] = Places[3]
          /\ Places'[4] = Places[4] /\ Places'[5] = Places[5] /\ Places'[6] = Places[6]
      BY <1>1, <1>3, FriPlaces, FriPlacesNext, Zenon DEF CommitBatch
    <3>2. QED
      BY <3>1 DEF PlaceIds
  <2>6. Places'[7] = Places[7] \ {b} /\ Places'[8] = Places[8] \cup {b}
    BY <2>1, <2>3, <2>4, FriPlaces, FriPlacesNext
  <2>7. NoRepeats(proofs)' /\ NoRepeats(output)' /\ last_executed' = last_executed
    BY <1>3, Zenon DEF CommitBatch, PlaceInv, NoRepeats
  <2>8. Moved(Places, Places', 7, 8, {b})
    BY <2>2, <2>5, <2>6, PlaceNumbers DEF Moved
  <2>9. QED
    BY <1>1, <2>2, <2>7, <2>8, PlacesMove, Zenon
<1>4. QED
  BY <1>2, <1>3, Zenon DEF Committer

LEMMA PlaceInvNext == FriTypes /\ PlaceInv /\ [Next]_vars => PlaceInv'
<1> SUFFICES ASSUME FriTypes, PlaceInv, [Next]_vars PROVE PlaceInv'
  BY Zenon
<1> USE DEF startVars, stepVars, jobVars, requestVars, committerVars
<1>1. ASSUME UNCHANGED <<last_executed, next_batch, adding, jobs, stage, batch, proofs,
                         output, buffer, commands>>
      PROVE  PlaceInv'
  <2>1. InCompletion' = InCompletion /\ DistinctCompletions'
    BY <1>1, Zenon DEF InCompletion, PlaceInv, DistinctCompletions
  <2>2. QED
    BY <1>1, <2>1, PlacesFrame, Zenon
<1>2. CASE Time
  BY <1>1, <1>2, Zenon DEF Time, AssignmentTimeout, BecomeAged
<1>3. ASSUME NEW p \in Provers, Prover(p) PROVE PlaceInv'
  <2>0. p \in Clients
    BY Zenon DEF Clients
  <2>1. CASE PickJob(p)
    BY <1>1, <2>1, Zenon DEF PickJob
  <2>2. CASE SubmitProof(p)
    BY <2>0, <2>2, RequestMovesNothing, Zenon DEF SubmitProof
  <2>3. CASE VerifyProof(p)
    BY <2>0, <2>3, RequestMovesNothing, Zenon DEF VerifyProof
  <2>4. CASE UnassignJob(p)
    BY <2>0, <2>4, RequestMovesNothing, Zenon DEF UnassignJob
  <2>5. CASE CancelRequest(p)
    BY <2>0, <2>5, RequestMovesNothing, Zenon DEF CancelRequest
  <2>6. QED
    BY <1>3, <2>1, <2>2, <2>3, <2>4, <2>5, Zenon DEF Prover
<1>4. ASSUME NEW f \in FakeWorkers, FakeWorker(f) PROVE PlaceInv'
  <2>0. f \in Clients
    BY Zenon DEF Clients
  <2>1. CASE PickFakeJob(f)
    <3>1. \E b : Request(f, "verified", b)
      BY <2>1, Zenon DEF PickFakeJob, Request
    <3>2. QED
      BY <2>0, <2>1, <3>1, RequestMovesNothing, Zenon DEF PickFakeJob
  <2>2. CASE DropFakeJob(f)
    BY <2>0, <2>2, RequestMovesNothing, Zenon DEF DropFakeJob
  <2>3. QED
    BY <1>4, <2>1, <2>2, Zenon DEF FakeWorker
<1>5. CASE UNCHANGED vars
  BY <1>1, <1>5, Zenon DEF vars
<1>6. QED
  BY <1>2, <1>3, <1>4, <1>5, StepPlaces, ServePlaces, ForwardPlaces, CommitterPlaces DEF Next

\* Whatever provers, fake provers, timeouts and disconnects do, no batch is lost
\* on its way through the FRI stage and none is proved or committed twice.
THEOREM NoBatchLost == Spec => []EveryBatchInOnePlace
<1>1. PlaceInv => EveryBatchInOnePlace
  BY FriPlaces, OnePlace, Zenon DEF PlaceInv, EveryBatchInOnePlace
<1>2. QED
  BY <1>1, FriTypesInit, FriTypesNext, PlaceInvInit, PlaceInvNext, PTL DEF Spec
-----------------------------------------------------------------------------
(* Leases *)

\* The step that LeaseKept allows.
LeaseStep ==
    \A b \in jobs \cap jobs' :
       (assigned_to[b] # NoProver /\ assigned_to'[b] # assigned_to[b])
          => \/ b \in timed_out
             \/ \E p \in Provers : /\ Id(p) = assigned_to[b]
                                   /\ stage[p] = "rejected"
                                   /\ batch[p] = b

\* A pick assigns only jobs that are free or whose assignment has timed out.
LEMMA PickKeepsLeases ==
  ASSUME TypeOK, NEW id, NEW eligible, eligible \subseteq AssignableJobs,
         AssignTo(id, PickWhile(eligible, version, 1))
  PROVE  LeaseStep
<1> DEFINE picked == PickWhile(eligible, version, 1)
<1>1. picked \subseteq AssignableJobs
  BY PickedJobs, AssignableTypes, Zenon
<1>2. ASSUME NEW b \in picked, assigned_to[b] # NoProver PROVE b \in timed_out
  BY <1>1, <1>2, Zenon DEF AssignableJobs, Assignable
<1> HIDE DEF picked
<1>3. ASSUME NEW b \in jobs, b \notin picked PROVE assigned_to'[b] = assigned_to[b]
  BY <1>3, Zenon DEF AssignTo, TypeOK, picked
<1>4. QED
  BY <1>2, <1>3, Zenon DEF LeaseStep

LEMMA LeaseNext == FriTypes /\ Next => LeaseStep
<1> SUFFICES ASSUME FriTypes, Next PROVE LeaseStep
  BY Zenon
<1> USE DEF jobVars
<1>0. TypeOK
  BY Zenon DEF FriTypes
<1>1. ASSUME assigned_to' = assigned_to PROVE LeaseStep
  BY <1>1, Zenon DEF LeaseStep
<1>2. CASE PipelineStep \/ Time \/ ForwardProof \/ Committer
  BY <1>1, <1>2, Zenon DEF PipelineStep, PassProved, ReceiveBatch, AddJob, WaitForSpace, Time,
                    AssignmentTimeout, BecomeAged, ForwardProof, Committer, BufferBatch,
                    CommitBatch
<1>3. ASSUME NEW p \in Provers, Prover(p) PROVE LeaseStep
  <2>1. CASE PickJob(p)
    <3>1. PICK supported \in {Versions} \cup {{v} : v \in Versions} :
             AssignTo(Id(p), PickWhile({b \in AssignableJobs : version[b] \in supported},
                                       version, 1))
      BY <2>1, Zenon DEF PickJob
    <3>2. {b \in AssignableJobs : version[b] \in supported} \subseteq AssignableJobs
      BY Zenon
    <3>3. QED
      BY <1>0, <3>1, <3>2, PickKeepsLeases, Zenon
  <2>2. CASE SubmitProof(p) \/ VerifyProof(p) \/ CancelRequest(p)
    BY <1>1, <2>2, Zenon DEF SubmitProof, VerifyProof, CancelRequest
  <2>3. CASE UnassignJob(p)
    <3>1. ASSUME NEW b \in jobs, assigned_to'[b] # assigned_to[b]
          PROVE  Id(p) = assigned_to[b] /\ stage[p] = "rejected" /\ batch[p] = b
      BY <1>0, <2>3, <3>1, Zenon DEF UnassignJob, TypeOK
    <3>2. QED
      BY <3>1, Zenon DEF LeaseStep
  <2>4. QED
    BY <1>3, <2>1, <2>2, <2>3, Zenon DEF Prover
<1>4. ASSUME NEW f \in FakeWorkers, FakeWorker(f) PROVE LeaseStep
  <2>1. CASE PickFakeJob(f)
    <3>1. AssignTo(Id(f), PickWhile(AssignableJobs \cap aged, version, 1))
      BY <2>1, Zenon DEF PickFakeJob
    <3>2. AssignableJobs \cap aged \subseteq AssignableJobs
      BY Zenon
    <3>3. QED
      BY <1>0, <3>1, <3>2, PickKeepsLeases, Zenon
  <2>2. CASE DropFakeJob(f)
    BY <1>1, <2>2, Zenon DEF DropFakeJob
  <2>3. QED
    BY <1>4, <2>1, <2>2, Zenon DEF FakeWorker
<1>5. ASSUME NEW c \in Clients, Serve(c) PROVE LeaseStep
  <2>1. CASE CompleteJob(c)
    <3>1. ASSUME NEW b \in jobs \cap jobs' PROVE assigned_to'[b] = assigned_to[b]
      BY <1>0, <2>1, Zenon DEF CompleteJob, RemoveJob, TypeOK
    <3>2. QED
      BY <3>1, Zenon DEF LeaseStep
  <2>2. CASE ReservePermit(c) \/ Backpressure(c) \/ LoseRace(c) \/ SendProof(c)
    BY <1>1, <2>2, Zenon DEF ReservePermit, Backpressure, LoseRace, SendProof
  <2>3. QED
    BY <1>5, <2>1, <2>2, Zenon DEF Serve
<1>6. QED
  BY <1>2, <1>3, <1>4, <1>5, Zenon DEF Next

\* unassign_job looks at the assignee under the lock, and pick_job takes only
\* pending or timed out jobs: no stale request ends another prover's lease.
THEOREM LeasesKept == Spec => LeaseKept
<1>1. FriTypes /\ [Next]_vars => [LeaseStep]_vars
  BY LeaseNext, Zenon
<1>2. QED
  BY <1>1, FriTypesInit, FriTypesNext, PTL DEF Spec, LeaseKept, LeaseStep

-----------------------------------------------------------------------------
(* What is committed *)

\* The batches that have left the job map.
Downstream ==
    InCompletion \cup Elems(proofs) \cup Elems(output) \cup buffer
       \cup {c.batch : c \in Elems(commands)}

\* Behind the last proved batch, what has left the job map has a proof.
ProvedInv ==
    /\ \A b \in Downstream : b > last_proved => proof[b] \in {"Real", "Fake"}
    /\ \A i \in 1 .. Len(commands) :
          commands[i].type = "SendToL1" <=> commands[i].batch > last_committed

LEMMA ProvedInit == Init => ProvedInv
<1> SUFFICES ASSUME Init PROVE ProvedInv
  BY Zenon
<1>1. InCompletion = {} /\ Len(commands) = 0
  BY Zenon DEF Init, InCompletion
<1>2. Elems(proofs) = {} /\ Elems(output) = {} /\ Elems(commands) = {} /\ buffer = {}
  BY DEF Init, Elems
<1>3. QED
  BY <1>1, <1>2 DEF ProvedInv, Downstream

\* A step that adds nothing to what has left the job map.
LEMMA ProvedFrame ==
  ASSUME ProvedInv, Downstream' \subseteq Downstream,
         UNCHANGED <<last_proved, last_committed, proof, commands>>
  PROVE  ProvedInv'
  BY Zenon DEF ProvedInv

LEMMA RequestProves ==
  ASSUME FriTypes, ProvedInv, NEW c \in Clients, NEW s, NEW b, Request(c, s, b),
         stage[c] # "completed", s # "completed",
         UNCHANGED <<last_proved, last_committed, proof, proofs, output, buffer, commands>>
  PROVE  ProvedInv'
<1>1. Downstream' = Downstream
  BY RequestKeepsCompletion DEF Downstream, Elems
<1>2. QED
  BY <1>1, ProvedFrame, Zenon

LEMMA ServeProves ==
  ASSUME FriTypes, PlaceInv, ProvedInv, NEW c \in Clients, Serve(c)
  PROVE  ProvedInv'
<1> USE DEF startVars, stepVars, jobVars, committerVars
<1>1. CASE ReservePermit(c) \/ Backpressure(c) \/ LoseRace(c)
  BY <1>1, RequestProves, Zenon DEF ReservePermit, Backpressure, LoseRace
<1>2. CASE CompleteJob(c)
  <2>1. batch[c] \in Places[3]
    BY <1>2, FriPlaces, Zenon DEF CompleteJob, CanComplete
  <2>2. batch[c] \notin Places[4]
    BY <2>1, Elsewhere, PlaceNumbers
  <2>3. InCompletion' = InCompletion \cup {batch[c]}
    BY <1>2, <2>2, FriPlaces, CompletionGrows, Zenon DEF CompleteJob
  <2>4. Downstream' = Downstream \cup {batch[c]}
    BY <1>2, <2>3 DEF CompleteJob, Downstream, Elems
  <2>5. proof'[batch[c]] \in {"Real", "Fake"} /\ \A b : b # batch[c] => proof'[b] = proof[b]
    BY <1>2 DEF CompleteJob, FriTypes, TypeOK
  <2>6. UNCHANGED <<last_proved, last_committed, commands>>
    BY <1>2, Zenon DEF CompleteJob
  <2>7. QED
    BY <2>4, <2>5, <2>6, Zenon DEF ProvedInv
<1>3. CASE SendProof(c)
  <2>1. /\ batch[c] \in InCompletion
        /\ InCompletion' = InCompletion \ {batch[c]}
    BY <1>3, CompletionShrinks, Zenon DEF SendProof, PlaceInv
  <2>2. batch[c] \in Batches /\ proofs \in Seq(Batches)
    BY <1>3, Zenon DEF SendProof, FriTypes, TypeOK
  <2>3. Elems(proofs)' = Elems(proofs) \cup {batch[c]}
    BY <1>3, <2>2, AppendElems DEF SendProof, Elems
  <2>4. Elems(output)' = Elems(output) /\ Elems(commands)' = Elems(commands)
        /\ buffer' = buffer
    BY <1>3, Zenon DEF SendProof, Elems
  <2>5. Downstream' \subseteq Downstream
    BY <2>1, <2>3, <2>4, Zenon DEF Downstream
  <2>6. QED
    BY <1>3, <2>5, ProvedFrame, Zenon DEF SendProof
<1>4. QED
  BY <1>1, <1>2, <1>3, Zenon DEF Serve

LEMMA PassProves == FriTypes /\ ProvedInv /\ PassProved => ProvedInv'
<1> SUFFICES ASSUME FriTypes, ProvedInv, PassProved PROVE ProvedInv'
  BY Zenon
<1> USE DEF startVars, jobVars, requestVars, committerVars
<1>1. /\ TypeOK /\ next_batch \in Batches /\ next_batch <= last_proved
      /\ next_batch \in Int /\ last_proved \in Int
  BY MaxBatchAssumption DEF PassProved, FriTypes, TypeOK, Batches
<1>2. Elems(output)' = Elems(output) \cup {next_batch}
  <2>1. output \in Seq(Batches) /\ output' = Append(output, next_batch)
    BY <1>1, Zenon DEF PassProved, TypeOK
  <2>2. {Append(output, next_batch)[i] : i \in 1 .. Len(Append(output, next_batch))}
           = {output[i] : i \in 1 .. Len(output)} \cup {next_batch}
    BY <1>1, <2>1, AppendElems
  <2>3. QED
    BY <2>1, <2>2, Zenon DEF Elems
<1>3. Downstream' = Downstream \cup {next_batch}
  BY <1>2 DEF PassProved, Downstream, InCompletion, Elems
<1>4. \A b : b # next_batch => proof'[b] = proof[b]
  BY <1>1 DEF PassProved, TypeOK
<1>5. UNCHANGED <<last_proved, last_committed, commands>>
  BY Zenon DEF PassProved
<1>6. \A b \in Downstream' : b > last_proved => b \in Downstream /\ b # next_batch
  BY <1>1, <1>3
<1>7. QED
  BY <1>4, <1>5, <1>6, Zenon DEF ProvedInv

LEMMA OutputProves == FriTypes /\ PlaceInv /\ ProvedInv /\ (ForwardProof \/ BufferBatch) => ProvedInv'
<1> SUFFICES ASSUME FriTypes, PlaceInv, ProvedInv, ForwardProof \/ BufferBatch PROVE ProvedInv'
  BY Zenon
<1> USE DEF startVars, stepVars, jobVars, requestVars, committerVars
<1>1. proofs \in Seq(Batches) /\ output \in Seq(Batches)
  BY Zenon DEF FriTypes, TypeOK
<1>2. NoRepeats(proofs) /\ NoRepeats(output)
  BY Zenon DEF PlaceInv
<1>3. InCompletion' = InCompletion /\ Elems(commands)' = Elems(commands)
  BY Zenon DEF ForwardProof, BufferBatch, InCompletion, Elems
<1>4. CASE ForwardProof
  <2>1. proofs # << >> /\ proofs' = Tail(proofs) /\ output' = Append(output, Head(proofs))
    BY <1>4, Zenon DEF ForwardProof
  <2>2. /\ Head(proofs) \in Batches
        /\ Head(proofs) \in {proofs[i] : i \in 1 .. Len(proofs)}
        /\ {Tail(proofs)[i] : i \in 1 .. Len(Tail(proofs))}
              = {proofs[i] : i \in 1 .. Len(proofs)} \ {Head(proofs)}
    BY <1>1, <1>2, <2>1, TailElems, Zenon
  <2>3. {Append(output, Head(proofs))[i] : i \in 1 .. Len(Append(output, Head(proofs)))}
           = {output[i] : i \in 1 .. Len(output)} \cup {Head(proofs)}
    BY <1>1, <2>2, AppendElems
  <2>4. /\ Head(proofs) \in Elems(proofs)
        /\ Elems(proofs)' = Elems(proofs) \ {Head(proofs)}
        /\ Elems(output)' = Elems(output) \cup {Head(proofs)}
    BY <2>1, <2>2, <2>3, Zenon DEF Elems
  <2>5. Downstream' \subseteq Downstream
    BY <1>3, <1>4, <2>4, Zenon DEF Downstream, ForwardProof
  <2>6. QED
    BY <1>4, <2>5, ProvedFrame, Zenon DEF ForwardProof
<1>5. CASE BufferBatch
  <2>1. output # << >> /\ output' = Tail(output) /\ buffer' = buffer \cup {Head(output)}
    BY <1>5, Zenon DEF BufferBatch
  <2>2. /\ Head(output) \in {output[i] : i \in 1 .. Len(output)}
        /\ {Tail(output)[i] : i \in 1 .. Len(Tail(output))}
              = {output[i] : i \in 1 .. Len(output)} \ {Head(output)}
    BY <1>1, <1>2, <2>1, TailElems, Zenon
  <2>3. Head(output) \in Elems(output) /\ Elems(output)' = Elems(output) \ {Head(output)}
    BY <2>1, <2>2, Zenon DEF Elems
  <2>4. Elems(proofs)' = Elems(proofs)
    BY <1>5, Zenon DEF BufferBatch, Elems
  <2>5. Downstream' \subseteq Downstream
    BY <1>3, <2>1, <2>3, <2>4, Zenon DEF Downstream
  <2>6. QED
    BY <1>5, <2>5, ProvedFrame, Zenon DEF BufferBatch
<1>6. QED
  BY <1>4, <1>5, Zenon

LEMMA CommitProves == FriTypes /\ ProvedInv /\ CommitBatch => ProvedInv'
<1> SUFFICES ASSUME FriTypes, ProvedInv, CommitBatch PROVE ProvedInv'
  BY Zenon
<1> USE DEF startVars, stepVars, jobVars, requestVars
<1>1. PICK b \in buffer : /\ buffer' = buffer \ {b}
                          /\ commands' = Append(commands, Command(b))
  BY Zenon DEF CommitBatch
<1>2. /\ b \in Batches /\ b \in Int /\ last_committed \in Int
      /\ commands \in Seq([batch : Batches, type : {"Passthrough", "SendToL1"}])
  BY <1>1, MaxBatchAssumption DEF FriTypes, TypeOK, Batches
<1>3. /\ Command(b) \in [batch : Batches, type : {"Passthrough", "SendToL1"}]
      /\ Command(b).batch = b
      /\ Command(b).type = "SendToL1" <=> b > last_committed
  BY <1>2 DEF Command
<1>4. Elems(commands)' = Elems(commands) \cup {Command(b)}
  BY <1>1, <1>2, <1>3, AppendElems DEF Elems
<1>5. /\ InCompletion' = InCompletion /\ Elems(proofs)' = Elems(proofs)
      /\ Elems(output)' = Elems(output)
  BY Zenon DEF CommitBatch, InCompletion, Elems
<1>6. Downstream' \subseteq Downstream
  BY <1>1, <1>3, <1>4, <1>5, Zenon DEF Downstream
<1>7. UNCHANGED <<last_proved, last_committed, proof>>
  BY Zenon DEF CommitBatch
<1>8. ASSUME NEW i \in 1 .. Len(commands')
      PROVE  commands'[i].type = "SendToL1" <=> commands'[i].batch > last_committed
  <2>1. CASE i = Len(commands) + 1
    BY <1>1, <1>2, <1>3, <2>1
  <2>2. CASE i # Len(commands) + 1
    <3>1. i \in 1 .. Len(commands) /\ commands'[i] = commands[i]
      BY <1>1, <1>2, <2>2
    <3>2. QED
      BY <3>1, Zenon DEF ProvedInv
  <2>3. QED
    BY <2>1, <2>2, Zenon
<1>9. QED
  BY <1>6, <1>7, <1>8, Zenon DEF ProvedInv

LEMMA ProvedNext == FriTypes /\ PlaceInv /\ ProvedInv /\ [Next]_vars => ProvedInv'
<1> SUFFICES ASSUME FriTypes, PlaceInv, ProvedInv, [Next]_vars PROVE ProvedInv'
  BY Zenon
<1> USE DEF startVars, stepVars, jobVars, requestVars, committerVars
<1>1. ASSUME UNCHANGED <<last_proved, last_committed, stage, batch, proof, proofs, output,
                         buffer, commands>>
      PROVE  ProvedInv'
  <2>1. Downstream' = Downstream
    BY <1>1 DEF Downstream, InCompletion, Elems
  <2>2. QED
    BY <1>1, <2>1, ProvedFrame, Zenon
<1>2. CASE PipelineStep
  BY <1>1, <1>2, PassProves, Zenon DEF PipelineStep, ReceiveBatch, AddJob, WaitForSpace
<1>3. CASE Time
  BY <1>1, <1>3, Zenon DEF Time, AssignmentTimeout, BecomeAged
<1>4. ASSUME NEW p \in Provers, Prover(p) PROVE ProvedInv'
  <2>0. p \in Clients
    BY Zenon DEF Clients
  <2>1. CASE PickJob(p)
    BY <1>1, <2>1, Zenon DEF PickJob
  <2>2. CASE SubmitProof(p)
    BY <2>0, <2>2, RequestProves, Zenon DEF SubmitProof
  <2>3. CASE VerifyProof(p)
    BY <2>0, <2>3, RequestProves, Zenon DEF VerifyProof
  <2>4. CASE UnassignJob(p) \/ CancelRequest(p)
    BY <2>0, <2>4, RequestProves, Zenon DEF UnassignJob, CancelRequest
  <2>5. QED
    BY <1>4, <2>1, <2>2, <2>3, <2>4, Zenon DEF Prover
<1>5. ASSUME NEW f \in FakeWorkers, FakeWorker(f) PROVE ProvedInv'
  <2>0. f \in Clients
    BY Zenon DEF Clients
  <2>1. CASE PickFakeJob(f)
    <3>1. \E b : Request(f, "verified", b)
      BY <2>1, Zenon DEF PickFakeJob, Request
    <3>2. QED
      BY <2>0, <2>1, <3>1, RequestProves, Zenon DEF PickFakeJob
  <2>2. CASE DropFakeJob(f)
    BY <2>0, <2>2, RequestProves, Zenon DEF DropFakeJob
  <2>3. QED
    BY <1>5, <2>1, <2>2, Zenon DEF FakeWorker
<1>6. CASE UNCHANGED vars
  BY <1>1, <1>6, Zenon DEF vars
<1>7. QED
  BY <1>2, <1>3, <1>4, <1>5, <1>6, ServeProves, OutputProves, CommitProves, Zenon DEF Next, Committer

\* In whatever order proofs come, the gapless committer hands batches to the L1
\* commit sender one after the other, starting behind the last executed batch; L1
\* is asked to commit those it has not committed, with a proof of this run.
THEOREM CommitOrder == Spec => []CommitsExact
<1>1. OrderInv /\ FriTypes /\ ProvedInv => CommitsExact
  <2> SUFFICES ASSUME OrderInv, FriTypes, ProvedInv PROVE CommitsExact
    BY Zenon
  <2>1. ASSUME NEW i \in 1 .. Len(commands), commands[i].type = "SendToL1"
        PROVE  proof[commands[i].batch] \in {"Real", "Fake"}
    <3>1. /\ commands[i].batch \in Int /\ last_proved \in Int /\ last_committed \in Int
          /\ last_proved <= last_committed
      <4> DEFINE C == [batch : Batches, type : {"Passthrough", "SendToL1"}]
      <4>1. commands \in Seq(C)
        BY Zenon DEF FriTypes, TypeOK
      <4> HIDE DEF C
      <4>2. commands[i] \in C
        BY <4>1
      <4>3. QED
        BY <4>2, MaxBatchAssumption DEF FriTypes, TypeOK, Batches, C
    <3>2. commands[i].batch > last_proved
      BY <2>1, <3>1 DEF ProvedInv
    <3>3. commands[i].batch \in Downstream
      BY Zenon DEF Downstream, Elems
    <3>4. QED
      BY <3>2, <3>3, Zenon DEF ProvedInv
  <2>2. CommitsOnlyUncommitted
    BY <2>1, Zenon DEF ProvedInv, CommitsOnlyUncommitted
  <2>3. QED
    BY <2>2, Zenon DEF OrderInv, CommitsExact
<1>2. QED
  BY <1>1, FriTypesInit, FriTypesNext, OrderInit, OrderNext, PlaceInvInit, PlaceInvNext,
     ProvedInit, ProvedNext, PTL DEF Spec
=============================================================================
