------------------------- MODULE SnarkProvingProofs -------------------------
(***************************************************************************)
(* Theorems about SnarkProving, for any number of batches, provers and     *)
(* proving versions and any limits on ranges, map and channel.             *)
(***************************************************************************)
EXTENDS SnarkProving

-----------------------------------------------------------------------------
(* Ranges *)

\* What pick_jobs_while_with_limit returns is a range.
LEMMA PickedRange ==
  ASSUME NEW eligible \in SUBSET Batches, NEW ver,
         PickWhile(eligible, ver, MaxFrisPerSnark) # {}
  PROVE  /\ PickWhile(eligible, ver, MaxFrisPerSnark) \in Ranges
         /\ PickWhile(eligible, ver, MaxFrisPerSnark) \subseteq eligible
         /\ \A b, c \in PickWhile(eligible, ver, MaxFrisPerSnark) : ver[b] = ver[c]
<1> DEFINE P == PickWhile(eligible, ver, MaxFrisPerSnark)
           f == First(eligible)
           T == {MaxBatch - b : b \in P}
<1>1. Batches \subseteq Nat /\ MaxBatch \in Nat /\ MaxFrisPerSnark \in Nat
  BY SnarkMaxBatchAssumption, MaxFrisAssumption DEF Batches
<1>2. /\ P \subseteq eligible
      /\ \A b \in P : f <= b /\ ver[b] = ver[f] /\ f .. b \subseteq P
  BY <1>1, PickedJobs, Zenon
<1>3. f \in eligible /\ f \in Batches /\ f \in Nat
  BY <1>1, <1>2, FirstIsLeast, Zenon
<1> HIDE DEF P, f
<1>4. P # {} /\ \A b \in P : b \in Nat /\ b \in Batches /\ MaxBatch - b \in Nat
  <2>1. P # {}
    BY Zenon DEF P
  <2>2. \A b \in Batches : b \in Nat /\ MaxBatch - b \in Nat
    BY <1>1 DEF Batches
  <2>3. QED
    BY <1>2, <2>1, <2>2, Zenon
<1>5. PICK m \in T : \A k \in T : m <= k
  <2>1. T \in SUBSET Nat /\ T # {}
    BY <1>4, Zenon
  <2> HIDE DEF T
  <2>2. QED
    BY <2>1, LeastNatural, Zenon
<1>6. PICK b \in P : m = MaxBatch - b
  BY <1>5, Zenon
<1>7. \A c \in P : c <= b
  <2>1. \A c \in P : MaxBatch - b <= MaxBatch - c
    BY <1>5, <1>6, Zenon
  <2>2. QED
    BY <1>1, <1>4, <2>1
<1>8. P = f .. b
  <2>1. \A c \in P : c \in f .. b
    BY <1>2, <1>3, <1>4, <1>7
  <2>2. QED
    BY <1>2, <2>1, Zenon
<1>9. P \in Ranges
  BY <1>3, <1>4, <1>8 DEF Ranges
<1>10. QED
  BY <1>2, <1>9, Zenon DEF P

\* A range is given by its first batch and its size.
LEMMA RangeBounds ==
  ASSUME NEW r \in Ranges, r # {}
  PROVE  /\ r \subseteq Batches /\ First(r) \in r
         /\ Cardinality(r) \in Nat \ {0}
         /\ First(r) + Cardinality(r) - 1 \in Batches
         /\ r = First(r) .. First(r) + Cardinality(r) - 1
<1>1. PICK lo \in Batches, hi \in Batches : r = lo .. hi
  BY DEF Ranges
<1>2. lo \in Int /\ hi \in Int /\ lo <= hi /\ r \subseteq Batches /\ r \in SUBSET Nat
  BY <1>1, SnarkMaxBatchAssumption DEF Batches
<1>3. First(r) = lo
  <2>1. First(r) \in r /\ \A k \in r : First(r) <= k
    BY <1>2, FirstIsLeast, Zenon
  <2>2. lo \in r /\ First(r) \in lo .. hi
    BY <1>1, <1>2, <2>1
  <2>3. QED
    BY <1>2, <2>1, <2>2
<1>4. Cardinality(r) = hi - lo + 1
  BY <1>1, <1>2, FS_Interval
<1>5. QED
  BY <1>1, <1>2, <1>3, <1>4

-----------------------------------------------------------------------------
(* Types *)

Stages == {"idle", "draining", "found", "leasing", "completing_fake", "completed_fake",
           "picking", "checked", "completing", "completed"}

\* Stages in which a request is about a range.
Busy == {"completing_fake", "completed_fake", "checked", "completing", "completed"}

Done == {"completed", "completed_fake"}

\* The ranges that are given to provers and that requests are about have batches.
SnarkTypes ==
    /\ TypeOK
    /\ \A c \in Clients : stage[c] \in Busy => range[c] \in Ranges \ {{}}
    /\ \A p \in Provers : {} \notin held[p]

\* A request that goes on, or ends, without a change of anything else.
QuietRequest(c) ==
    /\ stage[c] \notin Done
    /\ \E s \in Stages, rng \in Ranges \cup {{}} :
          /\ Request(c, s, rng)
          /\ \/ s \in {"idle", "draining", "found", "picking"}
             \/ rng = range[c] /\ <<stage[c], s>> \in {<<"found", "leasing">>,
                                                       <<"checked", "completing">>}
             \/ s = "checked" /\ c \in Provers /\ rng \in held[c]
    /\ UNCHANGED <<startVars, stepVars, jobVars, held, proofs, output, senderVars>>

\* A request whose range is taken from the map.
Complete(c) ==
    \/ CompleteMany(c, "completing_fake", "completed_fake")
    \/ CompleteMany(c, "completing", "completed")

\* A request whose command is sent downstream.
Send(c) ==
    \/ SendCommand(c, "completed_fake", "Fake", LoopTop(c))
    \/ SendCommand(c, "completed", "Real", "idle")

\* Steps of requests are of five kinds.
LEMMA RequestKinds ==
  ASSUME SnarkTypes, Next
  PROVE  \/ PipelineStep \/ Time \/ ForwardCommand \/ Sender
         \/ \E c \in Clients : QuietRequest(c) \/ LeaseFake(c) \/ Complete(c) \/ Send(c)
         \/ \E p \in Provers : PickRealJob(p)
<1>1. ASSUME NEW c \in Clients, FakeLoop(c)
      PROVE  QuietRequest(c) \/ LeaseFake(c) \/ Complete(c) \/ Send(c)
  <2>0. /\ LoopTop(c) \in {"idle", "draining"} /\ stage[c] \in Stages
        /\ range[c] \in Ranges \cup {{}}
    BY Zenon DEF LoopTop, SnarkTypes, TypeOK, Stages
  <2>1. CASE FindFakeJob(c)
    BY <2>0, <2>1, Zenon DEF FindFakeJob, QuietRequest, Stages, Done
  <2>2. CASE ReservePermit(c, "found", "leasing")
    BY <2>0, <2>2, Zenon DEF ReservePermit, QuietRequest, Stages, Done
  <2>3. CASE Backpressure(c, "found")
    BY <2>3, Zenon DEF Backpressure, QuietRequest, Stages, Done
  <2>4. CASE NothingToLease(c)
    BY <2>4, Zenon DEF NothingToLease, QuietRequest, Stages, Done
  <2>5. CASE LoseRace(c, "completing_fake", LoopTop(c))
    BY <2>0, <2>5 DEF LoseRace, QuietRequest, Stages, Done
  <2>6. QED
    BY <1>1, <2>1, <2>2, <2>3, <2>4, <2>5, Zenon DEF FakeLoop, Complete, Send
<1>2. ASSUME NEW p \in Provers, RealPick(p) \/ FinishSubmit(p) \/ CancelRequest(p)
      PROVE  QuietRequest(p) \/ Complete(p) \/ Send(p) \/ PickRealJob(p)
  <2>0. p \in Clients /\ range[p] \in Ranges \cup {{}}
    BY Zenon DEF Clients, SnarkTypes, TypeOK
  <2>1. CASE BeginPick(p) \/ DrainDone(p)
    BY <2>1, Zenon DEF BeginPick, DrainDone, QuietRequest, Stages, Done
  <2>2. CASE ReservePermit(p, "checked", "completing")
    BY <2>0, <2>2, Zenon DEF ReservePermit, QuietRequest, Stages, Done
  <2>3. CASE Backpressure(p, "checked")
    BY <2>3, Zenon DEF Backpressure, QuietRequest, Stages, Done
  <2>4. CASE LoseRace(p, "completing", "idle")
    BY <2>4, Zenon DEF LoseRace, QuietRequest, Stages, Done
  <2>5. CASE CancelRequest(p)
    BY <2>5, Zenon DEF CancelRequest, QuietRequest, Stages, Done
  <2>6. QED
    BY <1>2, <2>1, <2>2, <2>3, <2>4, <2>5, Zenon DEF RealPick, FinishSubmit, Complete, Send
<1>3. ASSUME NEW p \in Provers, NEW rng \in held[p], SubmitProof(p, rng)
      PROVE  QuietRequest(p)
  <2>1. rng \in Ranges
    BY Zenon DEF SnarkTypes, TypeOK
  <2>2. QED
    BY <1>3, <2>1, Zenon DEF SubmitProof, QuietRequest, Stages, Done
<1>4. Provers \subseteq Clients
  BY Zenon DEF Clients
<1>5. QED
  BY <1>1, <1>2, <1>3, <1>4, Zenon DEF Next

LEMMA SnarkTypesInit == Init => SnarkTypes
<1> SUFFICES ASSUME Init PROVE SnarkTypes
  BY Zenon
<1>1. /\ last_executed \in 0 .. MaxBatch /\ last_proved \in last_executed .. MaxBatch
      /\ fri \in [Batches -> {"Real", "Fake"}] /\ version \in [Batches -> Versions]
      /\ adding \in Batches \cup {NoBatch} /\ waiting \in BOOLEAN
      /\ max_assigned_batch_range \in MaxRanges
  BY Zenon DEF Init
<1>2. next_batch \in 1 .. MaxBatch + 1 /\ next_expected \in 1 .. MaxBatch + 1
  BY SnarkMaxBatchAssumption DEF Init
<1>3. /\ jobs \subseteq Batches /\ timed_out \subseteq jobs /\ aged \subseteq jobs
      /\ buffer \subseteq Commands /\ held = [p \in Provers |-> {}]
      /\ assigned_to \in [Batches -> Clients \cup {NoProver}]
  BY Zenon DEF Init
<1>4. stage = [c \in Clients |-> "idle"] /\ range = [c \in Clients |-> {}]
  BY Zenon DEF Init
<1>5. proofs \in Seq(Commands) /\ output \in Seq(Commands) /\ commands \in Seq(Commands)
  BY DEF Init
<1>6. TypeOK
  BY <1>1, <1>2, <1>3, <1>4, <1>5 DEF TypeOK
<1>7. QED
  BY <1>3, <1>4, <1>6, Zenon DEF SnarkTypes, Busy

\* A request that goes on, or ends.
LEMMA RequestTypes ==
  ASSUME SnarkTypes, NEW c \in Clients, NEW s \in Stages, NEW rng \in Ranges \cup {{}},
         s \in Busy => rng # {}, Request(c, s, rng)
  PROVE  /\ stage' \in [Clients -> Stages]
         /\ range' \in [Clients -> Ranges \cup {{}}]
         /\ \A d \in Clients : stage'[d] \in Busy => range'[d] \in Ranges \ {{}}
<1>1. stage \in [Clients -> Stages] /\ range \in [Clients -> Ranges \cup {{}}]
  BY Zenon DEF SnarkTypes, TypeOK, Stages
<1>2. QED
  BY <1>1, Zenon DEF SnarkTypes, Request

\* What a pick gives out, and to whom.
LEMMA AssignableTypes ==
  ASSUME TypeOK
  PROVE  AssignableJobs \subseteq jobs /\ jobs \subseteq Batches /\ Batches \subseteq Nat
  BY DEF AssignableJobs, Assignable, TypeOK, Batches

LEMMA AssignTypes ==
  ASSUME SnarkTypes, NEW c \in Clients, NEW picked, AssignTo(c, picked)
  PROVE  /\ assigned_to' \in [Batches -> Clients \cup {NoProver}]
         /\ timed_out' \subseteq jobs
  BY Zenon DEF SnarkTypes, TypeOK, AssignTo

LEMMA RealPicked ==
  ASSUME SnarkTypes, NEW p \in Provers, PickRealJob(p)
  PROVE  /\ Request(p, "idle", {})
         /\ UNCHANGED <<startVars, stepVars, jobs, aged, proofs, output, senderVars>>
         /\ \/ UNCHANGED <<assigned_to, timed_out, held>>
            \/ \E picked \in Ranges \ {{}} :
                  /\ picked \subseteq jobs
                  /\ \A b \in picked : fri[b] # "Fake"
                  /\ \A b, c \in picked : version[b] = version[c]
                  /\ AssignTo(p, picked)
                  /\ held' = [held EXCEPT ![p] = @ \cup {picked}]
<1>1. PICK supported \in {Versions} \cup {{v} : v \in Versions} :
         LET picked == PickWhile({b \in AssignableJobs : /\ fri[b] # "Fake"
                                                         /\ version[b] \in supported},
                                 version, MaxFrisPerSnark)
         IN  /\ IF picked = {}
                THEN UNCHANGED <<assigned_to, timed_out, held>>
                ELSE AssignTo(p, picked) /\ held' = [held EXCEPT ![p] = @ \cup {picked}]
             /\ Request(p, "idle", {})
             /\ UNCHANGED <<startVars, stepVars, jobs, aged, proofs, output, senderVars>>
  BY Zenon DEF PickRealJob
<1> DEFINE eligible == {b \in AssignableJobs : fri[b] # "Fake" /\ version[b] \in supported}
           picked == PickWhile(eligible, version, MaxFrisPerSnark)
<1>2. eligible \in SUBSET Batches /\ eligible \subseteq jobs
  BY AssignableTypes, Zenon DEF SnarkTypes
<1>3. picked # {} => /\ picked \in Ranges /\ picked \subseteq eligible
                     /\ \A b, c \in picked : version[b] = version[c]
  <2> SUFFICES ASSUME picked # {} PROVE /\ picked \in Ranges /\ picked \subseteq eligible
                                        /\ \A b, c \in picked : version[b] = version[c]
    BY Zenon
  <2> HIDE DEF eligible
  <2>1. QED
    BY <1>2, PickedRange, Zenon
<1>4. /\ picked = {} => UNCHANGED <<assigned_to, timed_out, held>>
      /\ picked # {} => AssignTo(p, picked) /\ held' = [held EXCEPT ![p] = @ \cup {picked}]
  BY <1>1, Zenon
<1> HIDE DEF picked
<1>5. QED
  BY <1>1, <1>2, <1>3, <1>4, Zenon

LEMMA FakePicked ==
  ASSUME SnarkTypes, NEW c \in Clients, LeaseFake(c)
  PROVE  /\ stage[c] = "leasing"
         /\ UNCHANGED <<startVars, stepVars, jobs, aged, held, proofs, output, senderVars>>
         /\ \E picked \in Ranges \ {{}} :
               /\ picked \subseteq jobs
               /\ \A b \in picked : fri[b] = "Fake" \/ (c = FakeProver /\ b \in aged)
               /\ \A b, d \in picked : version[b] = version[d]
               /\ AssignTo(FakeProver, picked)
               /\ Request(c, "completing_fake", picked)
<1> DEFINE eligible == AssignableJobs \cap FakeOrTimedOut(c)
           picked == PickWhile(eligible, version, MaxFrisPerSnark)
<1>1. /\ stage[c] = "leasing" /\ picked # {} /\ AssignTo(FakeProver, picked)
      /\ Request(c, "completing_fake", picked)
      /\ UNCHANGED <<startVars, stepVars, jobs, aged, held, proofs, output, senderVars>>
  BY Zenon DEF LeaseFake
<1>2. /\ eligible \in SUBSET Batches /\ eligible \subseteq jobs
      /\ \A b \in eligible : fri[b] = "Fake" \/ (c = FakeProver /\ b \in aged)
  BY AssignableTypes, Zenon DEF SnarkTypes, FakeOrTimedOut
<1> HIDE DEF eligible
<1>3. /\ picked \in Ranges /\ picked \subseteq eligible
      /\ \A b, d \in picked : version[b] = version[d]
  BY <1>1, <1>2, PickedRange
<1> HIDE DEF picked
<1>4. QED
  BY <1>1, <1>2, <1>3, Zenon

LEMMA RangeOf ==
  ASSUME NEW lo \in Batches, NEW hi \in Batches
  PROVE  lo .. hi \in Ranges
  BY DEF Ranges

LEMMA PassthroughCommand ==
  ASSUME NEW b \in Batches
  PROVE  Passthrough(b) \in Commands /\ Passthrough(b).batches = {b}
<1> DEFINE r == {b}
<1>1. r = b .. b /\ r # {}
  BY SnarkMaxBatchAssumption DEF Batches
<1> HIDE DEF r
<1>2. r \in Ranges
  BY <1>1, RangeOf, Zenon
<1>3. QED
  BY <1>1, <1>2, Zenon DEF Passthrough, Commands, r

LEMMA CommandTypes ==
  ASSUME NEW cmd \in Commands
  PROVE  cmd.batches \in Ranges /\ cmd.batches # {}
  BY Zenon DEF Commands

LEMMA SnarkTypesNext == SnarkTypes /\ [Next]_vars => SnarkTypes'
<1> SUFFICES ASSUME SnarkTypes, [Next]_vars PROVE SnarkTypes'
  BY Zenon
<1> USE DEF startVars, stepVars, jobVars, requestVars, senderVars
<1>0. TypeOK /\ MaxBatch \in Nat
  BY SnarkMaxBatchAssumption, Zenon DEF SnarkTypes
<1>1. CASE PipelineStep
  <2>1. CASE PassProved
    <3>1. next_batch \in Batches /\ next_batch' \in 1 .. MaxBatch + 1
      BY <1>0, <2>1 DEF PassProved, TypeOK, Batches
    <3>2. output' \in Seq(Commands)
      BY <1>0, <2>1, <3>1, PassthroughCommand, AppendElems, Zenon DEF PassProved, TypeOK
    <3>3. QED
      BY <1>0, <2>1, <3>1, <3>2 DEF PassProved, SnarkTypes, TypeOK
  <2>2. CASE ReceiveBatch
    <3>1. next_batch \in Batches /\ next_batch' \in 1 .. MaxBatch + 1
      BY <1>0, <2>2 DEF ReceiveBatch, TypeOK, Batches
    <3>2. QED
      BY <1>0, <2>2, <3>1, Zenon DEF ReceiveBatch, SnarkTypes, TypeOK
  <2>3. CASE AddJob
    BY <1>0, <2>3, Zenon DEF AddJob, SnarkTypes, TypeOK
  <2>4. CASE WaitForSpace
    BY <1>0, <2>4, Zenon DEF WaitForSpace, SnarkTypes, TypeOK
  <2>5. QED
    BY <1>1, <2>1, <2>2, <2>3, <2>4 DEF PipelineStep
<1>2. CASE Time
  BY <1>0, <1>2 DEF Time, AssignmentTimeout, BecomeAged, SnarkTypes, TypeOK
<1>3. ASSUME NEW c \in Clients, QuietRequest(c) PROVE SnarkTypes'
  <2>1. PICK s \in Stages, rng \in Ranges \cup {{}} :
           /\ Request(c, s, rng)
           /\ \/ s \in {"idle", "draining", "found", "picking"}
              \/ rng = range[c] /\ <<stage[c], s>> \in {<<"found", "leasing">>,
                                                        <<"checked", "completing">>}
              \/ s = "checked" /\ c \in Provers /\ rng \in held[c]
    BY <1>3, Zenon DEF QuietRequest
  <2>2. s \in Busy => rng # {}
    BY <2>1, Zenon DEF SnarkTypes, Busy
  <2>3. UNCHANGED <<startVars, stepVars, jobVars, held, proofs, output, senderVars>>
    BY <1>3, Zenon DEF QuietRequest
  <2>4. QED
    BY <1>0, <2>1, <2>2, <2>3, RequestTypes DEF SnarkTypes, TypeOK, Stages
<1>4. ASSUME NEW c \in Clients, LeaseFake(c) PROVE SnarkTypes'
  <2>1. PICK picked \in Ranges \ {{}} :
           AssignTo(FakeProver, picked) /\ Request(c, "completing_fake", picked)
    BY <1>4, FakePicked, Zenon
  <2>2. UNCHANGED <<startVars, stepVars, jobs, aged, held, proofs, output, senderVars>>
    BY <1>4, FakePicked, Zenon
  <2>3. /\ stage' \in [Clients -> Stages] /\ range' \in [Clients -> Ranges \cup {{}}]
        /\ \A d \in Clients : stage'[d] \in Busy => range'[d] \in Ranges \ {{}}
    BY <2>1, RequestTypes, Zenon DEF Stages
  <2>4. assigned_to' \in [Batches -> Clients \cup {NoProver}] /\ timed_out' \subseteq jobs
    BY <2>1, AssignTypes, Zenon DEF Clients
  <2>5. QED
    BY <1>0, <2>2, <2>3, <2>4, Zenon DEF SnarkTypes, TypeOK, Stages
<1>5. ASSUME NEW c \in Clients, Complete(c) PROVE SnarkTypes'
  <2>1. PICK s \in Done : /\ stage[c] \in Busy /\ Request(c, s, range[c]) /\ RemoveJobs(range[c])
                          /\ UNCHANGED <<startVars, stepVars, held, proofs, output, senderVars>>
    BY <1>5, Zenon DEF Complete, CompleteMany, Busy, Done
  <2>2. /\ stage' \in [Clients -> Stages] /\ range' \in [Clients -> Ranges \cup {{}}]
        /\ \A d \in Clients : stage'[d] \in Busy => range'[d] \in Ranges \ {{}}
    BY <2>1, RequestTypes, Zenon DEF SnarkTypes, Stages, Done
  <2>3. /\ jobs' \subseteq Batches /\ timed_out' \subseteq jobs' /\ aged' \subseteq jobs'
        /\ assigned_to' \in [Batches -> Clients \cup {NoProver}]
    BY <1>0, <2>1, Zenon DEF RemoveJobs, TypeOK
  <2>4. QED
    BY <1>0, <2>1, <2>2, <2>3, Zenon DEF SnarkTypes, TypeOK, Stages
<1>6. ASSUME NEW c \in Clients, Send(c) PROVE SnarkTypes'
  <2>1. PICK s \in {"idle", "draining"}, snark \in {"Real", "Fake"} :
           /\ stage[c] \in Busy /\ waiting' = FALSE
           /\ proofs' = Append(proofs, [batches |-> range[c], snark |-> snark])
           /\ Request(c, s, {})
           /\ UNCHANGED <<startVars, next_batch, adding, jobVars, held, output, senderVars>>
    BY <1>6, Zenon DEF Send, SendCommand, LoopTop, Busy
  <2>2. [batches |-> range[c], snark |-> snark] \in Commands
    BY <2>1, Zenon DEF SnarkTypes, Commands
  <2>3. proofs' \in Seq(Commands)
    BY <1>0, <2>1, <2>2, AppendElems, Zenon DEF TypeOK
  <2>4. /\ stage' \in [Clients -> Stages] /\ range' \in [Clients -> Ranges \cup {{}}]
        /\ \A d \in Clients : stage'[d] \in Busy => range'[d] \in Ranges \ {{}}
    BY <2>1, RequestTypes DEF Stages, Busy
  <2>5. QED
    BY <1>0, <2>1, <2>3, <2>4, Zenon DEF SnarkTypes, TypeOK, Stages
<1>7. ASSUME NEW p \in Provers, PickRealJob(p) PROVE SnarkTypes'
  <2>0. p \in Clients
    BY Zenon DEF Clients
  <2>1. /\ Request(p, "idle", {})
        /\ UNCHANGED <<startVars, stepVars, jobs, aged, proofs, output, senderVars>>
    BY <1>7, RealPicked, Zenon
  <2>2. /\ stage' \in [Clients -> Stages] /\ range' \in [Clients -> Ranges \cup {{}}]
        /\ \A d \in Clients : stage'[d] \in Busy => range'[d] \in Ranges \ {{}}
    BY <2>0, <2>1, RequestTypes, Zenon DEF Stages, Busy
  <2>3. CASE UNCHANGED <<assigned_to, timed_out, held>>
    BY <1>0, <2>1, <2>2, <2>3 DEF SnarkTypes, TypeOK, Stages
  <2>4. ASSUME NEW picked \in Ranges \ {{}}, AssignTo(p, picked),
               held' = [held EXCEPT ![p] = @ \cup {picked}]
        PROVE  SnarkTypes'
    <3>1. assigned_to' \in [Batches -> Clients \cup {NoProver}] /\ timed_out' \subseteq jobs
      BY <2>0, <2>4, AssignTypes, Zenon
    <3>2. held' \in [Provers -> SUBSET Ranges] /\ \A q \in Provers : {} \notin held'[q]
      BY <1>0, <2>4, Zenon DEF SnarkTypes, TypeOK
    <3>3. QED
      BY <1>0, <2>1, <2>2, <3>1, <3>2 DEF SnarkTypes, TypeOK, Stages
  <2>5. QED
    BY <1>7, <2>3, <2>4, RealPicked, Zenon
<1>8. CASE ForwardCommand
  <2>1. Head(proofs) \in Commands /\ proofs' \in Seq(Commands) /\ output' \in Seq(Commands)
    BY <1>0, <1>8 DEF ForwardCommand, TypeOK
  <2>2. QED
    BY <1>0, <1>8, <2>1, Zenon DEF ForwardCommand, SnarkTypes, TypeOK
<1>9. CASE BufferCommand
  <2>1. Head(output) \in Commands /\ output' \in Seq(Commands)
    BY <1>0, <1>9 DEF BufferCommand, TypeOK
  <2>2. QED
    BY <1>0, <1>9, <2>1, Zenon DEF BufferCommand, SnarkTypes, TypeOK
<1>10. CASE SendInOrder
  <2>1. PICK cmd \in buffer : /\ First(cmd.batches) = next_expected
                              /\ buffer' = buffer \ {cmd}
                              /\ next_expected' = next_expected + Cardinality(cmd.batches)
                              /\ commands' = Append(commands, cmd)
    BY <1>10, Zenon DEF SendInOrder, CanFlush, BatchCount
  <2>2. cmd \in Commands
    BY <1>0, Zenon DEF TypeOK
  <2>3. commands' \in Seq(Commands)
    BY <1>0, <2>1, <2>2, AppendElems, Zenon DEF TypeOK
  <2>4. /\ next_expected \in Batches /\ Cardinality(cmd.batches) \in Nat
        /\ next_expected + Cardinality(cmd.batches) - 1 \in Batches
    BY <2>1, <2>2, CommandTypes, RangeBounds, Zenon
  <2>5. next_expected' \in 1 .. MaxBatch + 1
    BY <1>0, <2>1, <2>4 DEF Batches
  <2>6. UNCHANGED <<startVars, stepVars, jobVars, requestVars, proofs, output>>
    BY <1>10, Zenon DEF SendInOrder
  <2>7. QED
    BY <1>0, <2>1, <2>3, <2>5, <2>6, Zenon DEF SnarkTypes, TypeOK
<1>11. CASE UNCHANGED vars
  BY <1>0, <1>11, Zenon DEF vars, SnarkTypes, TypeOK
<1>12. QED
  BY <1>1, <1>2, <1>3, <1>4, <1>5, <1>6, <1>7, <1>8, <1>9, <1>10, <1>11, RequestKinds DEF Sender

\* Every step of the stage, the provers and the sender keeps the type invariant.
THEOREM SnarkTypeCorrect == Spec => []TypeOK
<1>1. SnarkTypes => TypeOK
  BY Zenon DEF SnarkTypes
<1>2. QED
  BY <1>1, SnarkTypesInit, SnarkTypesNext, PTL DEF Spec

-----------------------------------------------------------------------------
(* Every batch is in one place *)

\* No two commands of a channel share a batch.
Apart(s) == \A i, k \in 1 .. Len(s) : i # k => s[i].batches \cap s[k].batches = {}

\* What a channel holds after a send.
LEMMA ElemsAppend ==
  ASSUME NEW S, NEW s \in Seq(S), NEW x \in S
  PROVE  Elems(Append(s, x)) = Elems(s) \cup {x}
  BY AppendElems DEF Elems

\* What a channel covers after a send.
LEMMA AppendBatches ==
  ASSUME NEW s \in Seq(Commands), NEW cmd \in Commands, Apart(s),
         cmd.batches \cap BatchesOf(Elems(s)) = {}
  PROVE  /\ BatchesOf(Elems(Append(s, cmd))) = BatchesOf(Elems(s)) \cup cmd.batches
         /\ Apart(Append(s, cmd))
<1> DEFINE t == Append(s, cmd)
<1>1. Len(s) \in Nat /\ Len(t) = Len(s) + 1
  OBVIOUS
<1>2. t[Len(s) + 1] = cmd /\ \A i \in 1 .. Len(s) : t[i] = s[i]
  OBVIOUS
<1>3. Elems(t) = Elems(s) \cup {cmd}
  BY ElemsAppend
<1> HIDE DEF t
<1>4. BatchesOf(Elems(t)) = BatchesOf(Elems(s)) \cup cmd.batches
  BY <1>3, Zenon DEF BatchesOf
<1>5. \A i \in 1 .. Len(s) : cmd.batches \cap s[i].batches = {}
  BY Zenon DEF BatchesOf, Elems
<1>6. ASSUME NEW i \in 1 .. Len(t), NEW k \in 1 .. Len(t), i # k
      PROVE  t[i].batches \cap t[k].batches = {}
  <2>1. /\ i \in 1 .. Len(s) \/ i = Len(s) + 1
        /\ k \in 1 .. Len(s) \/ k = Len(s) + 1
    BY <1>1
  <2>2. QED
    BY <1>2, <1>5, <1>6, <2>1, Zenon DEF Apart
<1>7. Apart(t)
  BY <1>6, Zenon DEF Apart
<1>8. QED
  BY <1>4, <1>7, Zenon DEF t

\* What a channel covers after a receive.
LEMMA TailBatches ==
  ASSUME NEW s \in Seq(Commands), s # << >>, Apart(s)
  PROVE  /\ Head(s) \in Commands
         /\ Head(s).batches \subseteq BatchesOf(Elems(s))
         /\ BatchesOf(Elems(Tail(s))) = BatchesOf(Elems(s)) \ Head(s).batches
         /\ Apart(Tail(s))
<1> DEFINE t == Tail(s)
<1>1. /\ Len(s) \in Nat /\ Len(s) > 0 /\ Len(t) = Len(s) - 1
      /\ Head(s) = s[1] /\ Head(s) \in Commands
  OBVIOUS
<1>2. \A i \in 1 .. Len(t) : t[i] = s[i + 1]
  OBVIOUS
<1> HIDE DEF t
<1>3. 1 \in 1 .. Len(s) /\ \A i \in 1 .. Len(t) : i + 1 \in 1 .. Len(s) /\ i + 1 # 1
  BY <1>1
<1>4. ASSUME NEW i \in 1 .. Len(t), NEW k \in 1 .. Len(t), i # k
      PROVE  t[i].batches \cap t[k].batches = {}
  <2>1. i + 1 \in 1 .. Len(s) /\ k + 1 \in 1 .. Len(s) /\ i + 1 # k + 1
    BY <1>3, <1>4
  <2>2. s[i + 1].batches \cap s[k + 1].batches = {}
    BY <2>1, Zenon DEF Apart
  <2>3. QED
    BY <1>2, <2>2, Zenon
<1>5. Head(s).batches \subseteq BatchesOf(Elems(s))
  BY <1>1, <1>3, Zenon DEF BatchesOf, Elems
<1>6. ASSUME NEW b \in BatchesOf(Elems(t))
      PROVE  b \in BatchesOf(Elems(s)) \ Head(s).batches
  <2>1. PICK i \in 1 .. Len(t) : b \in t[i].batches
    BY Zenon DEF BatchesOf, Elems
  <2>2. i + 1 \in 1 .. Len(s) /\ i + 1 # 1 /\ b \in s[i + 1].batches
    BY <1>2, <1>3, <2>1, Zenon
  <2>3. b \notin s[1].batches
    BY <1>3, <2>2, Zenon DEF Apart
  <2>4. QED
    BY <1>1, <2>2, <2>3, Zenon DEF BatchesOf, Elems
<1>7. ASSUME NEW b \in BatchesOf(Elems(s)), b \notin Head(s).batches
      PROVE  b \in BatchesOf(Elems(t))
  <2>1. PICK k \in 1 .. Len(s) : b \in s[k].batches
    BY Zenon DEF BatchesOf, Elems
  <2>2. k # 1
    BY <1>1, <1>7, <2>1, Zenon
  <2>3. k - 1 \in 1 .. Len(t) /\ k = (k - 1) + 1
    BY <1>1, <2>2
  <2>4. t[k - 1] = s[k]
    BY <1>2, <2>3, Zenon
  <2>5. QED
    BY <2>1, <2>3, <2>4, Zenon DEF BatchesOf, Elems
<1>8. BatchesOf(Elems(t)) = BatchesOf(Elems(s)) \ Head(s).batches
  BY <1>6, <1>7, Zenon
<1>9. Apart(t)
  BY <1>4, Zenon DEF Apart
<1>10. QED
  BY <1>1, <1>5, <1>8, <1>9, Zenon DEF t

\* Two requests never complete the same batch.
DisjointCompletions ==
    \A c, d \in Clients :
       c # d /\ stage[c] \in Done /\ stage[d] \in Done => range[c] \cap range[d] = {}

DisjointBuffer == \A x, y \in buffer : x # y => x.batches \cap y.batches = {}

\* The commands of a channel, of the buffer and of requests that were completed
\* share no batch; no two places do, and together they hold every batch.
PlaceInv ==
    /\ Apart(proofs) /\ Apart(output) /\ Apart(commands)
    /\ DisjointBuffer
    /\ DisjointCompletions
    /\ Exclusive(Places)
    /\ Covers(Places, last_executed + 1 .. MaxBatch)

LEMMA SnarkPlaces ==
  /\ DOMAIN Places = PlaceIds
  /\ Places[1] = next_batch .. MaxBatch
  /\ Places[2] = {adding} \ {NoBatch}
  /\ Places[3] = jobs
  /\ Places[4] = InCompletion
  /\ Places[5] = BatchesOf(Elems(proofs))
  /\ Places[6] = BatchesOf(Elems(output))
  /\ Places[7] = BatchesOf(buffer)
  /\ Places[8] = BatchesOf(Elems(commands))
  BY DEF Places, PlaceIds

LEMMA SnarkPlacesNext ==
  /\ Places'[1] = next_batch' .. MaxBatch
  /\ Places'[2] = {adding'} \ {NoBatch}
  /\ Places'[3] = jobs'
  /\ Places'[4] = InCompletion'
  /\ Places'[5] = BatchesOf(Elems(proofs))'
  /\ Places'[6] = BatchesOf(Elems(output))'
  /\ Places'[7] = BatchesOf(buffer)'
  /\ Places'[8] = BatchesOf(Elems(commands))'
  BY Zenon DEF Places

LEMMA PlaceInvInit == Init => PlaceInv
<1> SUFFICES ASSUME Init PROVE PlaceInv
  BY Zenon
<1>1. Elems(proofs) = {} /\ Elems(output) = {} /\ Elems(commands) = {}
  BY DEF Init, Elems
<1>2. /\ Places[1] = last_executed + 1 .. MaxBatch /\ Places[2] = {} /\ Places[3] = {}
      /\ Places[5] = {} /\ Places[6] = {} /\ Places[7] = {} /\ Places[8] = {}
  BY <1>1, SnarkPlaces DEF Init, BatchesOf
<1>3. Places[4] = {}
  BY SnarkPlaces, Zenon DEF Init, InCompletion
<1>4. Exclusive(Places) /\ Covers(Places, last_executed + 1 .. MaxBatch)
  BY <1>2, <1>3, InitialPlaces, Zenon
<1>5. Apart(proofs) /\ Apart(output) /\ Apart(commands) /\ DisjointBuffer /\ DisjointCompletions
  BY DEF Init, Apart, DisjointBuffer, DisjointCompletions, Done
<1>6. QED
  BY <1>4, <1>5, Zenon DEF PlaceInv

\* A request that neither completes nor has completed its range.
LEMMA RequestKeepsCompletion ==
  ASSUME SnarkTypes, NEW c \in Clients, NEW s, NEW rng, Request(c, s, rng),
         stage[c] \notin Done, s \notin Done
  PROVE  InCompletion' = InCompletion /\ (DisjointCompletions => DisjointCompletions')
<1>1. \A d \in Clients : /\ stage'[d] \in Done <=> stage[d] \in Done
                         /\ stage[d] \in Done => range'[d] = range[d]
  BY Zenon DEF SnarkTypes, TypeOK, Request
<1>2. QED
  BY <1>1, Zenon DEF InCompletion, DisjointCompletions, Done

LEMMA CompletionGrows ==
  ASSUME SnarkTypes, NEW c \in Clients, NEW s \in Done, Request(c, s, range[c]),
         stage[c] \notin Done, range[c] \cap InCompletion = {}
  PROVE  /\ InCompletion' = InCompletion \cup range[c]
         /\ DisjointCompletions => DisjointCompletions'
<1>1. /\ \A d \in Clients : stage'[d] \in Done <=> stage[d] \in Done \/ d = c
      /\ \A d \in Clients : range'[d] = range[d]
  BY Zenon DEF SnarkTypes, TypeOK, Request
<1>2. \A d \in Clients : stage[d] \in Done => range[d] \cap range[c] = {}
  BY Zenon DEF InCompletion, Done
<1>3. InCompletion' = InCompletion \cup range[c]
  BY <1>1 DEF InCompletion, Done
<1>4. QED
  BY <1>1, <1>2, <1>3, Zenon DEF DisjointCompletions

LEMMA CompletionShrinks ==
  ASSUME SnarkTypes, NEW c \in Clients, NEW s, s \notin Done, Request(c, s, {}),
         stage[c] \in Done, DisjointCompletions
  PROVE  /\ range[c] \subseteq InCompletion
         /\ InCompletion' = InCompletion \ range[c]
         /\ DisjointCompletions'
<1>1. /\ \A d \in Clients : stage'[d] \in Done <=> stage[d] \in Done /\ d # c
      /\ \A d \in Clients : d # c => range'[d] = range[d]
  BY Zenon DEF SnarkTypes, TypeOK, Request
<1>2. \A d \in Clients : stage[d] \in Done /\ d # c => range[d] \cap range[c] = {}
  BY Zenon DEF DisjointCompletions
<1>3. InCompletion' = InCompletion \ range[c]
  BY <1>1, <1>2 DEF InCompletion, Done
<1>4. QED
  BY <1>1, <1>3, Zenon DEF DisjointCompletions, InCompletion, Done

\* A step that moves no batch.
LEMMA PlacesFrame ==
  ASSUME PlaceInv, InCompletion' = InCompletion, DisjointCompletions',
         UNCHANGED <<last_executed, next_batch, adding, jobs, proofs, output, buffer, commands>>
  PROVE  PlaceInv'
<1>1. \A k \in PlaceIds : Places'[k] = Places[k]
  <2>1. /\ Places'[1] = Places[1] /\ Places'[2] = Places[2] /\ Places'[3] = Places[3]
        /\ Places'[4] = Places[4] /\ Places'[5] = Places[5] /\ Places'[6] = Places[6]
        /\ Places'[7] = Places[7] /\ Places'[8] = Places[8]
    BY SnarkPlaces, SnarkPlacesNext, Zenon
  <2>2. QED
    BY <2>1 DEF PlaceIds
<1>2. Exclusive(Places)' /\ Covers(Places, last_executed + 1 .. MaxBatch)'
  BY <1>1, Zenon DEF PlaceInv, Exclusive, Covers
<1>3. QED
  BY <1>2 DEF PlaceInv, Apart, DisjointBuffer

\* A step that takes the batches M from place i to place j.
LEMMA PlacesMove ==
  ASSUME PlaceInv, last_executed' = last_executed,
         NEW i, NEW j, NEW M, Moved(Places, Places', i, j, M),
         Apart(proofs)', Apart(output)', Apart(commands)', DisjointBuffer',
         DisjointCompletions'
  PROVE  PlaceInv'
<1> DEFINE P == Places
           Q == Places'
           S == last_executed + 1 .. MaxBatch
<1>1. Exclusive(P) /\ Covers(P, S) /\ Moved(P, Q, i, j, M)
  BY Zenon DEF PlaceInv
<1> HIDE DEF P, Q, S
<1>2. Exclusive(Q) /\ Covers(Q, S)
  BY <1>1, MoveBatches, Zenon
<1>3. QED
  BY <1>2, Zenon DEF P, Q, S, PlaceInv, Exclusive, Covers

\* What is at one place is at no other.
LEMMA Elsewhere ==
  ASSUME PlaceInv, NEW i \in PlaceIds, NEW j \in PlaceIds, i # j, NEW M, M \subseteq Places[i]
  PROVE  M \cap Places[j] = {}
  BY Zenon DEF PlaceInv, Exclusive

LEMMA StepPlaces == SnarkTypes /\ PlaceInv /\ PipelineStep => PlaceInv'
<1> SUFFICES ASSUME SnarkTypes, PlaceInv, PipelineStep PROVE PlaceInv'
  BY Zenon
<1> USE DEF startVars, jobVars, requestVars, senderVars
<1>0. TypeOK /\ MaxBatch \in Nat
  BY SnarkMaxBatchAssumption, Zenon DEF SnarkTypes
<1>1. InCompletion' = InCompletion /\ DisjointCompletions'
  BY Zenon DEF PipelineStep, PassProved, ReceiveBatch, AddJob, WaitForSpace, InCompletion,
         PlaceInv, DisjointCompletions
<1>2. Apart(proofs)' /\ Apart(commands)' /\ DisjointBuffer' /\ last_executed' = last_executed
  BY Zenon DEF PipelineStep, PassProved, ReceiveBatch, AddJob, WaitForSpace, PlaceInv, Apart,
         DisjointBuffer
<1>3. CASE PassProved
  <2>1. next_batch \in Batches /\ next_batch \in next_batch .. MaxBatch
        /\ next_batch + 1 .. MaxBatch = (next_batch .. MaxBatch) \ {next_batch}
    BY <1>0, <1>3 DEF PassProved, TypeOK, Batches
  <2>2. next_batch \in Places[1]
    BY <2>1, SnarkPlaces, Zenon
  <2>3. {next_batch} \cap Places[6] = {}
    BY <2>2, PlaceNumbers DEF PlaceInv, Exclusive
  <2>4. /\ BatchesOf(Elems(output))' = BatchesOf(Elems(output)) \cup {next_batch}
        /\ Apart(output)'
    <3>1. output \in Seq(Commands) /\ Apart(output) /\ output' = Append(output, Passthrough(next_batch))
      BY <1>0, <1>3, Zenon DEF TypeOK, PlaceInv, PassProved
    <3>2. /\ Passthrough(next_batch) \in Commands
          /\ Passthrough(next_batch).batches = {next_batch}
      BY <2>1, PassthroughCommand, Zenon
    <3>3. {next_batch} \cap BatchesOf(Elems(output)) = {}
      BY <2>3, SnarkPlaces, Zenon
    <3>4. QED
      BY <3>1, <3>2, <3>3, AppendBatches, Zenon
  <2>5. \A k \in PlaceIds : k # 1 /\ k # 6 => Places'[k] = Places[k]
    <3>1. /\ Places'[2] = Places[2] /\ Places'[3] = Places[3] /\ Places'[4] = Places[4]
          /\ Places'[5] = Places[5] /\ Places'[7] = Places[7] /\ Places'[8] = Places[8]
      BY <1>1, <1>3, SnarkPlaces, SnarkPlacesNext, Zenon DEF PassProved
    <3>2. QED
      BY <3>1 DEF PlaceIds
  <2>6. /\ Places'[1] = Places[1] \ {next_batch}
        /\ Places'[6] = Places[6] \cup {next_batch}
    BY <1>3, <2>1, <2>4, SnarkPlaces, SnarkPlacesNext, Zenon DEF PassProved
  <2>7. Moved(Places, Places', 1, 6, {next_batch})
    BY <2>2, <2>5, <2>6, PlaceNumbers DEF Moved
  <2>8. QED
    BY <1>1, <1>2, <2>4, <2>7, PlacesMove, Zenon
<1>4. CASE ReceiveBatch
  <2>1. next_batch \in Batches /\ next_batch # NoBatch /\ next_batch \in next_batch .. MaxBatch
        /\ next_batch + 1 .. MaxBatch = (next_batch .. MaxBatch) \ {next_batch}
    BY <1>0, <1>4, SnarkNoBatchAssumption DEF ReceiveBatch, TypeOK, Batches
  <2>2. next_batch \in Places[1]
    BY <2>1, SnarkPlaces, Zenon
  <2>3. \A k \in PlaceIds : k # 1 /\ k # 2 => Places'[k] = Places[k]
    <3>1. /\ Places'[3] = Places[3] /\ Places'[4] = Places[4] /\ Places'[5] = Places[5]
          /\ Places'[6] = Places[6] /\ Places'[7] = Places[7] /\ Places'[8] = Places[8]
      BY <1>1, <1>4, SnarkPlaces, SnarkPlacesNext, Zenon DEF ReceiveBatch
    <3>2. QED
      BY <3>1 DEF PlaceIds
  <2>4. Places'[1] = Places[1] \ {next_batch} /\ Places'[2] = Places[2] \cup {next_batch}
    BY <1>4, <2>1, SnarkPlaces, SnarkPlacesNext, Zenon DEF ReceiveBatch
  <2>5. Apart(output)'
    BY <1>4, Zenon DEF ReceiveBatch, PlaceInv, Apart
  <2>6. Moved(Places, Places', 1, 2, {next_batch})
    BY <2>2, <2>3, <2>4, PlaceNumbers DEF Moved
  <2>7. QED
    BY <1>1, <1>2, <2>5, <2>6, PlacesMove, Zenon
<1>5. CASE AddJob
  <2>1. adding \in Places[2]
    BY <1>5, SnarkPlaces, Zenon DEF AddJob
  <2>2. \A k \in PlaceIds : k # 2 /\ k # 3 => Places'[k] = Places[k]
    <3>1. /\ Places'[1] = Places[1] /\ Places'[4] = Places[4] /\ Places'[5] = Places[5]
          /\ Places'[6] = Places[6] /\ Places'[7] = Places[7] /\ Places'[8] = Places[8]
      BY <1>1, <1>5, SnarkPlaces, SnarkPlacesNext, Zenon DEF AddJob
    <3>2. QED
      BY <3>1 DEF PlaceIds
  <2>3. Places'[2] = Places[2] \ {adding} /\ Places'[3] = Places[3] \cup {adding}
    BY <1>5, SnarkPlaces, SnarkPlacesNext, Zenon DEF AddJob
  <2>4. Apart(output)'
    BY <1>5, Zenon DEF AddJob, PlaceInv, Apart
  <2>5. Moved(Places, Places', 2, 3, {adding})
    BY <2>1, <2>2, <2>3, PlaceNumbers DEF Moved
  <2>6. QED
    BY <1>1, <1>2, <2>4, <2>5, PlacesMove, Zenon
<1>6. CASE WaitForSpace
  BY <1>1, <1>6, PlacesFrame, Zenon DEF WaitForSpace
<1>7. QED
  BY <1>3, <1>4, <1>5, <1>6 DEF PipelineStep

LEMMA CompletePlaces ==
  ASSUME SnarkTypes, PlaceInv, NEW c \in Clients, Complete(c)
  PROVE  PlaceInv'
<1> USE DEF startVars, stepVars, jobVars, senderVars
<1>1. PICK s \in Done : /\ stage[c] \notin Done /\ range[c] \subseteq jobs
                        /\ Request(c, s, range[c]) /\ RemoveJobs(range[c])
                        /\ UNCHANGED <<startVars, stepVars, held, proofs, output, senderVars>>
  BY Zenon DEF Complete, CompleteMany, CanComplete, Done
<1>2. range[c] \subseteq Places[3]
  BY <1>1, SnarkPlaces, Zenon
<1>3. range[c] \cap Places[4] = {}
  BY <1>2, Elsewhere, PlaceNumbers
<1>4. InCompletion' = InCompletion \cup range[c] /\ DisjointCompletions'
  BY <1>1, <1>3, SnarkPlaces, CompletionGrows, Zenon DEF PlaceInv
<1>5. \A k \in PlaceIds : k # 3 /\ k # 4 => Places'[k] = Places[k]
  <2>1. /\ Places'[1] = Places[1] /\ Places'[2] = Places[2] /\ Places'[5] = Places[5]
        /\ Places'[6] = Places[6] /\ Places'[7] = Places[7] /\ Places'[8] = Places[8]
    BY <1>1, SnarkPlaces, SnarkPlacesNext, Zenon
  <2>2. QED
    BY <2>1 DEF PlaceIds
<1>6. Places'[3] = Places[3] \ range[c] /\ Places'[4] = Places[4] \cup range[c]
  BY <1>1, <1>4, SnarkPlaces, SnarkPlacesNext, Zenon DEF RemoveJobs
<1>7. /\ Apart(proofs)' /\ Apart(output)' /\ Apart(commands)' /\ DisjointBuffer'
      /\ last_executed' = last_executed
  BY <1>1 DEF PlaceInv, Apart, DisjointBuffer
<1>8. Moved(Places, Places', 3, 4, range[c])
  BY <1>2, <1>5, <1>6, PlaceNumbers DEF Moved
<1>9. QED
  BY <1>4, <1>7, <1>8, PlacesMove, Zenon

LEMMA SendPlaces ==
  ASSUME SnarkTypes, PlaceInv, NEW c \in Clients, Send(c)
  PROVE  PlaceInv'
<1> USE DEF startVars, stepVars, jobVars, senderVars
<1>1. PICK s \in {"idle", "draining"}, snark \in {"Real", "Fake"} :
         /\ stage[c] \in Done
         /\ proofs' = Append(proofs, [batches |-> range[c], snark |-> snark])
         /\ Request(c, s, {})
         /\ UNCHANGED <<startVars, next_batch, adding, jobVars, held, output, senderVars>>
  BY Zenon DEF Send, SendCommand, LoopTop, Done
<1> DEFINE cmd == [batches |-> range[c], snark |-> snark]
<1>2. cmd \in Commands /\ cmd.batches = range[c] /\ s \notin Done
  BY <1>1, Zenon DEF SnarkTypes, Commands, Busy, Done
<1>3. /\ range[c] \subseteq InCompletion
      /\ InCompletion' = InCompletion \ range[c]
      /\ DisjointCompletions'
  BY <1>1, <1>2, CompletionShrinks DEF PlaceInv
<1>4. range[c] \subseteq Places[4]
  BY <1>3, SnarkPlaces, Zenon
<1>5. range[c] \cap BatchesOf(Elems(proofs)) = {}
  BY <1>4, SnarkPlaces, Elsewhere, PlaceNumbers
<1>6. proofs \in Seq(Commands) /\ Apart(proofs) /\ proofs' = Append(proofs, cmd)
  BY <1>1, Zenon DEF SnarkTypes, TypeOK, PlaceInv
<1> HIDE DEF cmd
<1>7. BatchesOf(Elems(proofs))' = BatchesOf(Elems(proofs)) \cup range[c] /\ Apart(proofs)'
  BY <1>2, <1>5, <1>6, AppendBatches, Zenon
<1>8. \A k \in PlaceIds : k # 4 /\ k # 5 => Places'[k] = Places[k]
  <2>1. /\ Places'[1] = Places[1] /\ Places'[2] = Places[2] /\ Places'[3] = Places[3]
        /\ Places'[6] = Places[6] /\ Places'[7] = Places[7] /\ Places'[8] = Places[8]
    BY <1>1, SnarkPlaces, SnarkPlacesNext, Zenon
  <2>2. QED
    BY <2>1 DEF PlaceIds
<1>9. Places'[4] = Places[4] \ range[c] /\ Places'[5] = Places[5] \cup range[c]
  BY <1>3, <1>7, SnarkPlaces, SnarkPlacesNext, Zenon
<1>10. Apart(output)' /\ Apart(commands)' /\ DisjointBuffer' /\ last_executed' = last_executed
  BY <1>1, Zenon DEF PlaceInv, Apart, DisjointBuffer
<1>11. Moved(Places, Places', 4, 5, range[c])
  BY <1>4, <1>8, <1>9, PlaceNumbers DEF Moved
<1>12. QED
  BY <1>3, <1>7, <1>10, <1>11, PlacesMove, Zenon

LEMMA ForwardPlaces == SnarkTypes /\ PlaceInv /\ ForwardCommand => PlaceInv'
<1> SUFFICES ASSUME SnarkTypes, PlaceInv, ForwardCommand PROVE PlaceInv'
  BY Zenon
<1> USE DEF startVars, stepVars, jobVars, requestVars, senderVars
<1> DEFINE cmd == Head(proofs)
<1>1. /\ proofs \in Seq(Commands) /\ output \in Seq(Commands) /\ proofs # << >>
      /\ Apart(proofs) /\ Apart(output)
      /\ proofs' = Tail(proofs) /\ output' = Append(output, cmd)
  BY Zenon DEF SnarkTypes, TypeOK, ForwardCommand, PlaceInv
<1>2. /\ cmd \in Commands /\ cmd.batches \subseteq BatchesOf(Elems(proofs))
      /\ BatchesOf(Elems(Tail(proofs))) = BatchesOf(Elems(proofs)) \ cmd.batches
      /\ Apart(Tail(proofs))
  BY <1>1, TailBatches, Zenon
<1> HIDE DEF cmd
<1>3. cmd.batches \subseteq Places[5]
  BY <1>2, SnarkPlaces, Zenon
<1>4. cmd.batches \cap BatchesOf(Elems(output)) = {}
  BY <1>3, SnarkPlaces, Elsewhere, PlaceNumbers
<1>5. /\ BatchesOf(Elems(Append(output, cmd))) = BatchesOf(Elems(output)) \cup cmd.batches
      /\ Apart(Append(output, cmd))
  BY <1>1, <1>2, <1>4, AppendBatches, Zenon
<1>6. /\ InCompletion' = InCompletion /\ DisjointCompletions' /\ last_executed' = last_executed
      /\ Apart(commands)' /\ DisjointBuffer'
  BY Zenon DEF ForwardCommand, InCompletion, PlaceInv, DisjointCompletions, Apart, DisjointBuffer
<1>7. \A k \in PlaceIds : k # 5 /\ k # 6 => Places'[k] = Places[k]
  <2>1. /\ Places'[1] = Places[1] /\ Places'[2] = Places[2] /\ Places'[3] = Places[3]
        /\ Places'[4] = Places[4] /\ Places'[7] = Places[7] /\ Places'[8] = Places[8]
    BY <1>6, SnarkPlaces, SnarkPlacesNext, Zenon DEF ForwardCommand
  <2>2. QED
    BY <2>1 DEF PlaceIds
<1>8. Places'[5] = Places[5] \ cmd.batches /\ Places'[6] = Places[6] \cup cmd.batches
  BY <1>1, <1>2, <1>5, SnarkPlaces, SnarkPlacesNext, Zenon
<1>9. Apart(proofs)' /\ Apart(output)'
  BY <1>1, <1>2, <1>5, Zenon
<1>10. Moved(Places, Places', 5, 6, cmd.batches)
  BY <1>3, <1>7, <1>8, PlaceNumbers DEF Moved
<1>11. QED
  BY <1>6, <1>9, <1>10, PlacesMove, Zenon

LEMMA BufferPlaces == SnarkTypes /\ PlaceInv /\ BufferCommand => PlaceInv'
<1> SUFFICES ASSUME SnarkTypes, PlaceInv, BufferCommand PROVE PlaceInv'
  BY Zenon
<1> USE DEF startVars, stepVars, jobVars, requestVars
<1> DEFINE cmd == Head(output)
<1>1. /\ output \in Seq(Commands) /\ output # << >> /\ Apart(output)
      /\ buffer \subseteq Commands /\ output' = Tail(output)
      /\ buffer' = {x \in buffer : First(x.batches) # First(cmd.batches)} \cup {cmd}
  BY Zenon DEF SnarkTypes, TypeOK, BufferCommand, PlaceInv
<1>2. /\ cmd \in Commands /\ cmd.batches \subseteq BatchesOf(Elems(output))
      /\ BatchesOf(Elems(Tail(output))) = BatchesOf(Elems(output)) \ cmd.batches
      /\ Apart(Tail(output))
  BY <1>1, TailBatches, Zenon
<1> HIDE DEF cmd
<1>3. cmd.batches \subseteq Places[6]
  BY <1>2, SnarkPlaces, Zenon
<1>4. cmd.batches \cap BatchesOf(buffer) = {}
  BY <1>3, SnarkPlaces, Elsewhere, PlaceNumbers
<1>5. \A x \in buffer : cmd.batches \cap x.batches = {}
  BY <1>4, Zenon DEF BatchesOf
<1>6. \A x \in buffer : First(x.batches) # First(cmd.batches)
  <2> TAKE x \in buffer
  <2>1. First(x.batches) \in x.batches
    BY <1>1, CommandTypes, RangeBounds, Zenon
  <2>2. First(cmd.batches) \in cmd.batches
    BY <1>2, CommandTypes, RangeBounds, Zenon
  <2>3. QED
    BY <1>5, <2>1, <2>2, Zenon
<1>7. buffer' = buffer \cup {cmd}
  BY <1>1, <1>6, Zenon
<1>8. BatchesOf(buffer)' = BatchesOf(buffer) \cup cmd.batches
  BY <1>7, Zenon DEF BatchesOf
<1>9. DisjointBuffer'
  BY <1>5, <1>7, Zenon DEF DisjointBuffer, PlaceInv
<1>10. /\ InCompletion' = InCompletion /\ DisjointCompletions' /\ last_executed' = last_executed
       /\ Apart(commands)' /\ Apart(proofs)'
  BY Zenon DEF BufferCommand, InCompletion, PlaceInv, DisjointCompletions, Apart
<1>11. \A k \in PlaceIds : k # 6 /\ k # 7 => Places'[k] = Places[k]
  <2>1. /\ Places'[1] = Places[1] /\ Places'[2] = Places[2] /\ Places'[3] = Places[3]
        /\ Places'[4] = Places[4] /\ Places'[5] = Places[5] /\ Places'[8] = Places[8]
    BY <1>10, SnarkPlaces, SnarkPlacesNext, Zenon DEF BufferCommand
  <2>2. QED
    BY <2>1 DEF PlaceIds
<1>12. Places'[6] = Places[6] \ cmd.batches /\ Places'[7] = Places[7] \cup cmd.batches
  BY <1>1, <1>2, <1>8, SnarkPlaces, SnarkPlacesNext, Zenon
<1>13. Apart(output)'
  BY <1>1, <1>2, Zenon
<1>14. Moved(Places, Places', 6, 7, cmd.batches)
  BY <1>3, <1>11, <1>12, PlaceNumbers DEF Moved
<1>15. QED
  BY <1>9, <1>10, <1>13, <1>14, PlacesMove, Zenon

LEMMA SendInOrderPlaces == SnarkTypes /\ PlaceInv /\ SendInOrder => PlaceInv'
<1> SUFFICES ASSUME SnarkTypes, PlaceInv, SendInOrder PROVE PlaceInv'
  BY Zenon
<1> USE DEF startVars, stepVars, jobVars, requestVars
<1>1. PICK cmd \in buffer : buffer' = buffer \ {cmd} /\ commands' = Append(commands, cmd)
  BY Zenon DEF SendInOrder
<1>2. /\ cmd \in Commands /\ commands \in Seq(Commands) /\ Apart(commands)
      /\ \A x \in buffer : x # cmd => x.batches \cap cmd.batches = {}
  BY Zenon DEF SnarkTypes, TypeOK, PlaceInv, DisjointBuffer
<1>3. cmd.batches \subseteq Places[7]
  BY SnarkPlaces, Zenon DEF BatchesOf
<1>4. cmd.batches \cap BatchesOf(Elems(commands)) = {}
  BY <1>3, SnarkPlaces, Elsewhere, PlaceNumbers
<1>5. /\ BatchesOf(Elems(Append(commands, cmd))) = BatchesOf(Elems(commands)) \cup cmd.batches
      /\ Apart(Append(commands, cmd))
  BY <1>2, <1>4, AppendBatches, Zenon
<1>6. BatchesOf(buffer)' = BatchesOf(buffer) \ cmd.batches /\ DisjointBuffer'
  BY <1>1, <1>2 DEF BatchesOf, DisjointBuffer, PlaceInv
<1>7. /\ InCompletion' = InCompletion /\ DisjointCompletions' /\ last_executed' = last_executed
      /\ Apart(output)' /\ Apart(proofs)'
  BY Zenon DEF SendInOrder, InCompletion, PlaceInv, DisjointCompletions, Apart
<1>8. \A k \in PlaceIds : k # 7 /\ k # 8 => Places'[k] = Places[k]
  <2>1. /\ Places'[1] = Places[1] /\ Places'[2] = Places[2] /\ Places'[3] = Places[3]
        /\ Places'[4] = Places[4] /\ Places'[5] = Places[5] /\ Places'[6] = Places[6]
    BY <1>7, SnarkPlaces, SnarkPlacesNext, Zenon DEF SendInOrder
  <2>2. QED
    BY <2>1 DEF PlaceIds
<1>9. Places'[7] = Places[7] \ cmd.batches /\ Places'[8] = Places[8] \cup cmd.batches
  BY <1>1, <1>5, <1>6, SnarkPlaces, SnarkPlacesNext, Zenon
<1>10. Apart(commands)'
  BY <1>1, <1>5, Zenon
<1>11. Moved(Places, Places', 7, 8, cmd.batches)
  BY <1>3, <1>8, <1>9, PlaceNumbers DEF Moved
<1>12. QED
  BY <1>6, <1>7, <1>10, <1>11, PlacesMove, Zenon

LEMMA PlaceInvNext == SnarkTypes /\ PlaceInv /\ [Next]_vars => PlaceInv'
<1> SUFFICES ASSUME SnarkTypes, PlaceInv, [Next]_vars PROVE PlaceInv'
  BY Zenon
<1> USE DEF startVars, stepVars, jobVars, requestVars, senderVars
<1>1. CASE Time \/ UNCHANGED vars
  <2>1. UNCHANGED <<last_executed, next_batch, adding, jobs, stage, range, proofs, output,
                    buffer, commands>>
    BY <1>1, Zenon DEF Time, AssignmentTimeout, BecomeAged, vars
  <2>2. InCompletion' = InCompletion /\ DisjointCompletions'
    BY <2>1, Zenon DEF InCompletion, PlaceInv, DisjointCompletions
  <2>3. QED
    BY <2>1, <2>2, PlacesFrame, Zenon
<1>2. ASSUME NEW c \in Clients, NEW s, s \notin Done, NEW rng, Request(c, s, rng),
             stage[c] \notin Done,
             UNCHANGED <<last_executed, next_batch, adding, jobs, proofs, output, buffer, commands>>
      PROVE  PlaceInv'
  <2>1. InCompletion' = InCompletion /\ DisjointCompletions'
    BY <1>2, RequestKeepsCompletion, Zenon DEF PlaceInv
  <2>2. QED
    BY <1>2, <2>1, PlacesFrame, Zenon
<1>3. ASSUME NEW c \in Clients, QuietRequest(c) PROVE PlaceInv'
  <2>1. PICK s, rng : Request(c, s, rng) /\ s \notin Done
    BY <1>3, Zenon DEF QuietRequest, Done
  <2>2. QED
    BY <1>2, <1>3, <2>1, Zenon DEF QuietRequest
<1>4. ASSUME NEW c \in Clients, LeaseFake(c) PROVE PlaceInv'
  <2>1. stage[c] \notin Done /\ \E picked : Request(c, "completing_fake", picked)
    BY <1>4, FakePicked, Zenon DEF Done
  <2>2. UNCHANGED <<startVars, stepVars, jobs, aged, held, proofs, output, senderVars>>
    BY <1>4, FakePicked, Zenon
  <2>3. QED
    BY <1>2, <2>1, <2>2, Zenon DEF Done
<1>5. ASSUME NEW p \in Provers, PickRealJob(p) PROVE PlaceInv'
  <2>1. stage[p] = "picking" /\ p \in Clients
    BY <1>5, Zenon DEF PickRealJob, Clients
  <2>2. /\ Request(p, "idle", {})
        /\ UNCHANGED <<startVars, stepVars, jobs, aged, proofs, output, senderVars>>
    BY <1>5, RealPicked, Zenon
  <2>3. QED
    BY <1>2, <2>1, <2>2, Zenon DEF Done
<1>6. QED
  BY <1>1, <1>3, <1>4, <1>5, RequestKinds, StepPlaces, CompletePlaces, SendPlaces,
     ForwardPlaces, BufferPlaces, SendInOrderPlaces, Zenon DEF Sender

\* Whatever overlapping ranges provers are given, complete or let time out, no
\* batch is lost on its way through the SNARK stage and none is proved twice:
\* complete_many_jobs takes a range whole or not at all.
THEOREM NoBatchLost == Spec => []EveryBatchInOnePlace
<1>1. PlaceInv => EveryBatchInOnePlace
  BY SnarkPlaces, OnePlace, Zenon DEF PlaceInv, EveryBatchInOnePlace
<1>2. QED
  BY <1>1, SnarkTypesInit, SnarkTypesNext, PlaceInvInit, PlaceInvNext, PTL DEF Spec

-----------------------------------------------------------------------------
(* The order of the sender *)

\* A prefix of a longer channel is the same prefix.
LEMMA SamePrefix ==
  ASSUME NEW S, NEW s \in Seq(S), NEW x \in S, NEW n \in 0 .. Len(s)
  PROVE  SubSeq(Append(s, x), 1, n) = SubSeq(s, 1, n)
<1>1. Len(s) \in Nat /\ n \in Nat /\ Append(s, x) \in Seq(S)
  OBVIOUS
<1>2. \A i \in 1 .. n : Append(s, x)[i] = s[i]
  OBVIOUS
<1>3. QED
  BY <1>1, <1>2

LEMMA WholePrefix ==
  ASSUME NEW S, NEW s \in Seq(S)
  PROVE  SubSeq(s, 1, Len(s)) = s
  OBVIOUS

\* The commands cover the batches between the last executed and the next one.
OrderInv ==
    /\ next_expected \in last_executed + 1 .. MaxBatch + 1
    /\ BatchesOf(Elems(commands)) = last_executed + 1 .. next_expected - 1
    /\ ProvesInOrder

LEMMA OrderInit == Init => OrderInv
<1> SUFFICES ASSUME Init PROVE OrderInv
  BY Zenon
<1>1. commands = << >> /\ Elems(commands) = {} /\ BatchesOf(Elems(commands)) = {}
  BY DEF Init, Elems, BatchesOf
<1>2. /\ next_expected \in last_executed + 1 .. MaxBatch + 1
      /\ last_executed + 1 .. next_expected - 1 = {}
  BY SnarkMaxBatchAssumption DEF Init
<1>3. ProvesInOrder
  BY <1>1 DEF ProvesInOrder
<1>4. QED
  BY <1>1, <1>2, <1>3, Zenon DEF OrderInv

LEMMA OrderFrame ==
  ASSUME OrderInv, UNCHANGED <<last_executed, next_expected, commands>>
  PROVE  OrderInv'
  BY DEF OrderInv, ProvesInOrder, BatchesOf, Elems

LEMMA OrderSend == SnarkTypes /\ OrderInv /\ SendInOrder => OrderInv'
<1> SUFFICES ASSUME SnarkTypes, OrderInv, SendInOrder PROVE OrderInv'
  BY Zenon
<1>1. PICK cmd \in buffer : /\ First(cmd.batches) = next_expected
                            /\ next_expected' = next_expected + Cardinality(cmd.batches)
                            /\ commands' = Append(commands, cmd)
  BY Zenon DEF SendInOrder, CanFlush, BatchCount
<1> DEFINE n == Cardinality(cmd.batches)
<1>2. cmd \in Commands /\ commands \in Seq(Commands) /\ last_executed' = last_executed
  BY Zenon DEF SnarkTypes, TypeOK, SendInOrder, startVars
<1>3. /\ n \in Nat \ {0} /\ next_expected \in Batches /\ next_expected + n - 1 \in Batches
      /\ cmd.batches = next_expected .. next_expected + n - 1
  BY <1>1, <1>2, CommandTypes, RangeBounds, Zenon
<1>4. /\ last_executed \in Nat /\ MaxBatch \in Nat /\ last_executed + 1 <= next_expected
      /\ BatchesOf(Elems(commands)) = last_executed + 1 .. next_expected - 1
  BY SnarkMaxBatchAssumption DEF OrderInv, SnarkTypes, TypeOK
<1> HIDE DEF n
<1>5. next_expected' \in last_executed' + 1 .. MaxBatch + 1
  BY <1>1, <1>2, <1>3, <1>4 DEF n, Batches
<1>6. BatchesOf(Elems(commands))' = last_executed' + 1 .. next_expected' - 1
  <2>1. Elems(commands)' = Elems(commands) \cup {cmd}
    BY <1>1, <1>2, AppendElems DEF Elems
  <2>2. BatchesOf(Elems(commands))' = BatchesOf(Elems(commands)) \cup cmd.batches
    BY <2>1, Zenon DEF BatchesOf
  <2>3. (last_executed + 1 .. next_expected - 1) \cup (next_expected .. next_expected + n - 1)
           = last_executed + 1 .. next_expected + n - 1
    BY <1>3, <1>4 DEF Batches
  <2>4. next_expected' - 1 = next_expected + n - 1
    BY <1>1, <1>3, <1>4 DEF n, Batches
  <2>5. QED
    BY <1>2, <1>3, <1>4, <2>2, <2>3, <2>4, Zenon
<1>7. ProvesInOrder'
  <2> DEFINE before(s, i) == BatchesOf(Elems(SubSeq(s, 1, i - 1)))
             first(s, i) == last_executed + 1 + Cardinality(before(s, i))
  <2>1. Len(commands) \in Nat /\ Len(commands') = Len(commands) + 1
    BY <1>1, <1>2
  <2>2. ASSUME NEW i \in 1 .. Len(commands) + 1
        PROVE  commands'[i].batches
                  = first(commands', i) .. first(commands', i) + Cardinality(commands'[i].batches) - 1
    <3>1. before(commands', i) = before(commands, i)
      <4>1. i - 1 \in 0 .. Len(commands)
        BY <2>1
      <4>2. SubSeq(commands', 1, i - 1) = SubSeq(commands, 1, i - 1)
        BY <1>1, <1>2, <4>1, SamePrefix, Zenon
      <4>3. QED
        BY <4>2, Zenon
    <3>2. CASE i = Len(commands) + 1
      <4>1. SubSeq(commands, 1, i - 1) = commands
        BY <1>2, <2>1, <3>2, WholePrefix
      <4>2. before(commands, i) = last_executed + 1 .. next_expected - 1
        BY <1>4, <4>1, Zenon
      <4>3. Cardinality(last_executed + 1 .. next_expected - 1) = next_expected - 1 - last_executed
        <5> DEFINE a == last_executed + 1
                   b == next_expected - 1
        <5>1. /\ a \in Int /\ b \in Int /\ b - a + 1 = next_expected - 1 - last_executed
              /\ a > b => b - a + 1 = 0
          BY <1>3, <1>4 DEF Batches
        <5> HIDE DEF a, b
        <5>2. Cardinality(a .. b) = IF a > b THEN 0 ELSE b - a + 1
          BY <5>1, FS_Interval, Zenon
        <5>3. QED
          BY <5>1, <5>2, Zenon DEF a, b
      <4>4. first(commands', i) = next_expected
        BY <1>3, <1>4, <3>1, <4>2, <4>3 DEF Batches
      <4>5. commands'[i] = cmd
        BY <1>1, <1>2, <3>2
      <4>6. QED
        BY <1>3, <4>4, <4>5, Zenon DEF n
    <3>3. CASE i # Len(commands) + 1
      <4>1. i \in 1 .. Len(commands)
        BY <2>1, <3>3
      <4>2. commands'[i] = commands[i]
        BY <1>1, <1>2, <4>1
      <4>3. commands[i].batches
               = first(commands, i) .. first(commands, i) + Cardinality(commands[i].batches) - 1
        BY <4>1, Zenon DEF OrderInv, ProvesInOrder
      <4>4. QED
        BY <3>1, <4>2, <4>3, Zenon
    <3>4. QED
      BY <3>2, <3>3, Zenon
  <2>3. QED
    BY <1>2, <2>1, <2>2, Zenon DEF ProvesInOrder
<1>8. QED
  BY <1>5, <1>6, <1>7, Zenon DEF OrderInv

LEMMA OrderNext == SnarkTypes /\ OrderInv /\ [Next]_vars => OrderInv'
<1> SUFFICES ASSUME SnarkTypes, OrderInv, [Next]_vars PROVE OrderInv'
  BY Zenon
<1> USE DEF startVars, senderVars
<1>1. CASE PipelineStep \/ Time \/ ForwardCommand \/ UNCHANGED vars
  BY <1>1, OrderFrame, Zenon DEF PipelineStep, PassProved, ReceiveBatch, AddJob, WaitForSpace, Time,
                          AssignmentTimeout, BecomeAged, ForwardCommand, vars
<1>2. ASSUME NEW c \in Clients, QuietRequest(c) \/ LeaseFake(c) \/ Complete(c) \/ Send(c)
      PROVE  OrderInv'
  BY <1>2, OrderFrame, Zenon DEF QuietRequest, LeaseFake, Complete, CompleteMany, Send, SendCommand
<1>3. ASSUME NEW p \in Provers, PickRealJob(p) PROVE OrderInv'
  BY <1>3, RealPicked, OrderFrame, Zenon
<1>4. CASE BufferCommand
  BY <1>4, OrderFrame DEF BufferCommand
<1>5. QED
  BY <1>1, <1>2, <1>3, <1>4, RequestKinds, OrderSend DEF Sender

\* Whatever ranges are completed, in whatever order, the gapless sender passes on
\* proofs for batch after batch behind the last executed one.
THEOREM ProveOrder == Spec => []ProvesInOrder
<1>1. OrderInv => ProvesInOrder
  BY Zenon DEF OrderInv
<1>2. QED
  BY <1>1, SnarkTypesInit, SnarkTypesNext, OrderInit, OrderNext, PTL DEF Spec

-----------------------------------------------------------------------------
(* What a proof covers *)

\* Batches of one proving version that L1 has not proved.
Uniform(r) == \A b, c \in r : version[b] = version[c] /\ b > last_proved

RealFri(r) == \A b \in r : fri[b] = "Real"

Match(cmd) ==
    /\ cmd.snark = "Real" => \A b \in cmd.batches : fri[b] = "Real"
    /\ cmd.snark # "Passthrough" =>
          \A b, c \in cmd.batches : version[b] = version[c] /\ b > last_proved

AllCommands == Elems(proofs) \cup Elems(output) \cup buffer \cup Elems(commands)

\* Jobs are behind the last proved batch; ranges that provers hold and that
\* requests are about are uniform, and real provers hold real FRI proofs.
MatchInv ==
    /\ \A b \in jobs \cup ({adding} \ {NoBatch}) : b > last_proved
    /\ \A p \in Provers : \A r \in held[p] : Uniform(r) /\ RealFri(r)
    /\ \A c \in Clients : stage[c] \in Busy => Uniform(range[c])
    /\ \A c \in Clients :
          stage[c] \in {"checked", "completing", "completed"} => RealFri(range[c])
    /\ \A cmd \in AllCommands : Match(cmd)

LEMMA MatchInit == Init => MatchInv
<1> SUFFICES ASSUME Init PROVE MatchInv
  BY Zenon
<1>1. Elems(proofs) = {} /\ Elems(output) = {} /\ Elems(commands) = {} /\ buffer = {}
  BY DEF Init, Elems
<1>2. jobs = {} /\ adding = NoBatch /\ (\A p \in Provers : held[p] = {})
      /\ (\A c \in Clients : stage[c] = "idle")
  BY Zenon DEF Init
<1>3. QED
  BY <1>1, <1>2, Zenon DEF MatchInv, AllCommands, Busy

\* Receiving leaves nothing new in a channel.
LEMMA TailSubset ==
  ASSUME NEW S, NEW s \in Seq(S), s # << >>
  PROVE  Head(s) \in Elems(s) /\ Elems(Tail(s)) \subseteq Elems(s)
<1>1. /\ Len(s) \in Nat /\ Len(s) > 0 /\ Len(Tail(s)) = Len(s) - 1 /\ Head(s) = s[1]
      /\ \A i \in 1 .. Len(Tail(s)) : Tail(s)[i] = s[i + 1]
  OBVIOUS
<1>2. 1 \in 1 .. Len(s) /\ \A i \in 1 .. Len(Tail(s)) : i + 1 \in 1 .. Len(s)
  BY <1>1
<1>3. QED
  BY <1>1, <1>2 DEF Elems

LEMMA MatchPipeline == SnarkTypes /\ MatchInv /\ PipelineStep => MatchInv'
<1> SUFFICES ASSUME SnarkTypes, MatchInv, PipelineStep PROVE MatchInv'
  BY Zenon
<1> USE DEF startVars, jobVars, requestVars, senderVars
<1>1. UNCHANGED <<fri, version, last_proved, held, stage, range, proofs, buffer, commands>>
  BY Zenon DEF PipelineStep, PassProved, ReceiveBatch, AddJob, WaitForSpace
<1>2. \A b \in jobs' \cup ({adding'} \ {NoBatch}) : b > last_proved
  BY Zenon DEF PipelineStep, PassProved, ReceiveBatch, AddJob, WaitForSpace, MatchInv
<1>3. \A cmd \in AllCommands' : Match(cmd)
  <2>1. CASE PassProved
    <3>1. next_batch \in Batches
      BY <2>1, SnarkMaxBatchAssumption DEF PassProved, SnarkTypes, TypeOK, Batches
    <3>2. Passthrough(next_batch) \in Commands /\ output \in Seq(Commands)
      BY <3>1, PassthroughCommand, Zenon DEF SnarkTypes, TypeOK
    <3>3. Elems(output)' = Elems(output) \cup {Passthrough(next_batch)}
      BY <2>1, <3>2, AppendElems DEF PassProved, Elems
    <3>4. Match(Passthrough(next_batch))
      BY Zenon DEF Match, Passthrough
    <3>5. AllCommands' = AllCommands \cup {Passthrough(next_batch)}
      BY <1>1, <3>3, Zenon DEF AllCommands, Elems
    <3>6. QED
      BY <3>4, <3>5, Zenon DEF MatchInv
  <2>2. CASE ReceiveBatch \/ AddJob \/ WaitForSpace
    <3>1. output' = output
      BY <2>2, Zenon DEF ReceiveBatch, AddJob, WaitForSpace
    <3>2. AllCommands' = AllCommands
      BY <1>1, <3>1, Zenon DEF AllCommands, Elems
    <3>3. QED
      BY <3>2, Zenon DEF MatchInv
  <2>3. QED
    BY <2>1, <2>2, Zenon DEF PipelineStep
<1>4. QED
  BY <1>1, <1>2, <1>3, SMTT(30) DEF MatchInv, Match, Uniform, RealFri

\* A step of a request c that keeps, or adds to, what provers hold.
LEMMA MatchRequest ==
  ASSUME SnarkTypes, MatchInv, NEW c \in Clients, NEW s, NEW rng, Request(c, s, rng),
         s \in Busy => Uniform(rng),
         s \in {"checked", "completing", "completed"} => RealFri(rng),
         UNCHANGED <<fri, version, last_proved, adding, output, buffer, commands>>,
         jobs' \subseteq jobs,
         \A p \in Provers : \A r \in held'[p] : r \in held[p] \/ (Uniform(r) /\ RealFri(r)),
         \A cmd \in Elems(proofs)' : cmd \in Elems(proofs) \/ Match(cmd)
  PROVE  MatchInv'
<1>1. \A d \in Clients : /\ d = c => stage'[d] = s /\ range'[d] = rng
                         /\ d # c => stage'[d] = stage[d] /\ range'[d] = range[d]
  BY Zenon DEF SnarkTypes, TypeOK, Request
<1>2. \A d \in Clients : stage'[d] \in Busy => Uniform(range'[d])
  BY <1>1, Zenon DEF MatchInv
<1>3. \A d \in Clients :
         stage'[d] \in {"checked", "completing", "completed"} => RealFri(range'[d])
  BY <1>1, Zenon DEF MatchInv
<1>4. \A p \in Provers : \A r \in held'[p] : Uniform(r) /\ RealFri(r)
  BY Zenon DEF MatchInv
<1>5. \A cmd \in AllCommands' : Match(cmd)
  BY DEF AllCommands, MatchInv, Elems
<1>6. \A b \in jobs' \cup ({adding'} \ {NoBatch}) : b > last_proved
  BY Zenon DEF MatchInv
<1>7. QED
  BY <1>2, <1>3, <1>4, <1>5, <1>6, SMTT(30) DEF MatchInv, Match, Uniform, RealFri

LEMMA MatchClients ==
  ASSUME SnarkTypes, MatchInv, NEW c \in Clients,
         QuietRequest(c) \/ LeaseFake(c) \/ Complete(c) \/ Send(c)
  PROVE  MatchInv'
<1> USE DEF startVars, stepVars, jobVars, senderVars
<1>1. CASE QuietRequest(c)
  <2>1. PICK s, rng :
           /\ Request(c, s, rng)
           /\ \/ s \in {"idle", "draining", "found", "picking"}
              \/ rng = range[c] /\ <<stage[c], s>> \in {<<"found", "leasing">>,
                                                        <<"checked", "completing">>}
              \/ s = "checked" /\ c \in Provers /\ rng \in held[c]
    BY <1>1, Zenon DEF QuietRequest
  <2>2. /\ s \in Busy => Uniform(rng)
        /\ s \in {"checked", "completing", "completed"} => RealFri(rng)
    BY <2>1, Zenon DEF MatchInv, Busy
  <2>3. UNCHANGED <<fri, version, last_proved, adding, output, buffer, commands, jobs, held, proofs>>
    BY <1>1, Zenon DEF QuietRequest
  <2>4. Elems(proofs)' = Elems(proofs)
    BY <2>3, Zenon DEF Elems
  <2>5. QED
    BY <2>1, <2>2, <2>3, <2>4, MatchRequest
<1>2. CASE LeaseFake(c)
  <2>1. PICK picked \in Ranges \ {{}} :
           /\ picked \subseteq jobs /\ \A b, d \in picked : version[b] = version[d]
           /\ Request(c, "completing_fake", picked)
    BY <1>2, FakePicked, Zenon
  <2>2. Uniform(picked)
    BY <2>1, Zenon DEF Uniform, MatchInv
  <2>3. UNCHANGED <<fri, version, last_proved, adding, output, buffer, commands, jobs, held, proofs>>
    BY <1>2, FakePicked, Zenon
  <2>4. Elems(proofs)' = Elems(proofs)
    BY <2>3, Zenon DEF Elems
  <2>5. QED
    BY <2>1, <2>2, <2>3, <2>4, MatchRequest DEF Busy
<1>3. CASE Complete(c)
  <2>1. PICK s \in Done :
           /\ stage[c] \in Busy /\ (s = "completed" => stage[c] = "completing")
           /\ Request(c, s, range[c]) /\ jobs' \subseteq jobs
           /\ UNCHANGED <<fri, version, last_proved, adding, output, buffer, commands, held, proofs>>
    BY <1>3, Zenon DEF Complete, CompleteMany, RemoveJobs, Done, Busy
  <2>2. /\ Uniform(range[c])
        /\ s \in {"checked", "completing", "completed"} => RealFri(range[c])
    BY <1>3, <2>1, Zenon DEF MatchInv, Done, Complete, CompleteMany, Busy
  <2>3. Elems(proofs)' = Elems(proofs)
    BY <2>1, Zenon DEF Elems
  <2>4. QED
    BY <2>1, <2>2, <2>3, MatchRequest, Zenon
<1>4. CASE Send(c)
  <2>1. PICK s \in {"idle", "draining"}, snark \in {"Real", "Fake"} :
           /\ stage[c] \in Busy /\ (snark = "Real" => stage[c] = "completed")
           /\ proofs' = Append(proofs, [batches |-> range[c], snark |-> snark])
           /\ Request(c, s, {})
           /\ UNCHANGED <<fri, version, last_proved, adding, output, buffer, commands, held, jobs>>
    <3>1. CASE SendCommand(c, "completed_fake", "Fake", LoopTop(c))
      BY <3>1, Zenon DEF SendCommand, LoopTop, Busy
    <3>2. CASE SendCommand(c, "completed", "Real", "idle")
      BY <3>2, Zenon DEF SendCommand, Busy
    <3>3. QED
      BY <1>4, <3>1, <3>2, Zenon DEF Send
  <2> DEFINE cmd == [batches |-> range[c], snark |-> snark]
  <2>2. stage[c] \in Busy
    BY <1>4, Zenon DEF Send, SendCommand, Busy
  <2>3. cmd \in Commands /\ cmd.batches = range[c] /\ cmd.snark = snark
    BY <2>2, Zenon DEF SnarkTypes, Commands
  <2>4. Uniform(range[c]) /\ (snark = "Real" => RealFri(range[c]))
    BY <2>1, <2>2, Zenon DEF MatchInv
  <2>5. proofs \in Seq(Commands) /\ proofs' = Append(proofs, cmd)
    BY <2>1, Zenon DEF SnarkTypes, TypeOK
  <2> HIDE DEF cmd
  <2>6. Elems(proofs)' = Elems(proofs) \cup {cmd}
    BY <2>3, <2>5, AppendElems, SMTT(30) DEF Elems
  <2>7. Match(cmd)
    BY <2>3, <2>4, Zenon DEF Match, Uniform, RealFri
  <2>8. s \notin Busy
    BY Zenon DEF Busy
  <2>9. s \notin {"checked", "completing", "completed"}
    BY Zenon
  <2>10. QED
    BY <2>1, <2>6, <2>7, <2>8, <2>9, MatchRequest
<1>5. QED
  BY <1>1, <1>2, <1>3, <1>4, Zenon

LEMMA MatchReal ==
  ASSUME SnarkTypes, MatchInv, NEW p \in Provers, PickRealJob(p)
  PROVE  MatchInv'
<1> USE DEF startVars, stepVars, senderVars
<1>1. /\ p \in Clients /\ Request(p, "idle", {})
      /\ UNCHANGED <<fri, version, last_proved, adding, output, buffer, commands, jobs, proofs>>
  BY RealPicked, Zenon DEF Clients
<1>2. Elems(proofs)' = Elems(proofs)
  BY <1>1, Zenon DEF Elems
<1>3. \A q \in Provers : \A r \in held'[q] : r \in held[q] \/ (Uniform(r) /\ RealFri(r))
  <2>1. CASE held' = held
    BY <2>1, Zenon
  <2>2. ASSUME NEW picked \in Ranges, picked \subseteq jobs,
               \A b \in picked : fri[b] # "Fake", \A b, c \in picked : version[b] = version[c],
               held' = [held EXCEPT ![p] = @ \cup {picked}]
        PROVE  \A q \in Provers : \A r \in held'[q] : r \in held[q] \/ (Uniform(r) /\ RealFri(r))
    <3>1. Uniform(picked)
      BY <2>2, Zenon DEF Uniform, MatchInv
    <3>2. RealFri(picked)
      BY <2>2, Zenon DEF RealFri, SnarkTypes, TypeOK
    <3>3. \A q \in Provers : \A r \in held'[q] : r \in held[q] \/ r = picked
      BY <2>2, Zenon DEF SnarkTypes, TypeOK
    <3>4. QED
      BY <3>1, <3>2, <3>3, Zenon
  <2>3. QED
    BY <2>1, <2>2, RealPicked, SMTT(30)
<1>4. QED
  BY <1>1, <1>2, <1>3, MatchRequest, Zenon DEF Busy

LEMMA MatchChannels ==
  SnarkTypes /\ MatchInv /\ (ForwardCommand \/ BufferCommand \/ SendInOrder) => MatchInv'
<1> SUFFICES ASSUME SnarkTypes, MatchInv, ForwardCommand \/ BufferCommand \/ SendInOrder
             PROVE MatchInv'
  BY Zenon
<1> USE DEF startVars, stepVars, jobVars, requestVars, senderVars
<1>0. proofs \in Seq(Commands) /\ output \in Seq(Commands) /\ commands \in Seq(Commands)
      /\ buffer \subseteq Commands
  BY Zenon DEF SnarkTypes, TypeOK
<1>1. UNCHANGED <<fri, version, last_proved, adding, jobs, held, stage, range>>
  BY Zenon DEF ForwardCommand, BufferCommand, SendInOrder
<1>2. AllCommands' \subseteq AllCommands
  <2>1. CASE ForwardCommand
    <3>1. Head(proofs) \in Elems(proofs) /\ Elems(proofs)' \subseteq Elems(proofs)
      BY <1>0, <2>1, TailSubset DEF ForwardCommand, Elems
    <3>2. Head(proofs) \in Commands
      BY <1>0, <2>1 DEF ForwardCommand
    <3>3. Elems(output)' = Elems(output) \cup {Head(proofs)}
      BY <1>0, <2>1, <3>2, ElemsAppend DEF ForwardCommand
    <3>4. buffer' = buffer /\ Elems(commands)' = Elems(commands)
      BY <2>1, Zenon DEF ForwardCommand, Elems
    <3>5. QED
      BY <3>1, <3>3, <3>4, Zenon DEF AllCommands
  <2>2. CASE BufferCommand
    <3>1. Head(output) \in Elems(output) /\ Elems(output)' \subseteq Elems(output)
      BY <1>0, <2>2, TailSubset DEF BufferCommand, Elems
    <3>2. buffer' \subseteq buffer \cup {Head(output)}
      BY <2>2, Zenon DEF BufferCommand
    <3>3. Elems(proofs)' = Elems(proofs) /\ Elems(commands)' = Elems(commands)
      BY <2>2, Zenon DEF BufferCommand, Elems
    <3>4. QED
      BY <3>1, <3>2, <3>3, Zenon DEF AllCommands
  <2>3. CASE SendInOrder
    <3>1. PICK cmd \in buffer : buffer' = buffer \ {cmd} /\ commands' = Append(commands, cmd)
      BY <2>3, Zenon DEF SendInOrder
    <3>2. Elems(commands)' = Elems(commands) \cup {cmd}
      BY <1>0, <3>1, ElemsAppend
    <3>3. Elems(proofs)' = Elems(proofs) /\ Elems(output)' = Elems(output)
      BY <2>3, Zenon DEF SendInOrder, Elems
    <3>4. QED
      BY <3>1, <3>2, <3>3, Zenon DEF AllCommands
  <2>4. QED
    BY <2>1, <2>2, <2>3, Zenon
<1>3. QED
  BY <1>1, <1>2, SMTT(30) DEF MatchInv, Match, Uniform, RealFri

LEMMA MatchNext == SnarkTypes /\ MatchInv /\ [Next]_vars => MatchInv'
<1> SUFFICES ASSUME SnarkTypes, MatchInv, [Next]_vars PROVE MatchInv'
  BY Zenon
<1>1. CASE Time \/ UNCHANGED vars
  <2>1. UNCHANGED <<fri, version, last_proved, adding, jobs, held, stage, range, proofs,
                    output, buffer, commands>>
    BY <1>1, Zenon DEF Time, AssignmentTimeout, BecomeAged, vars, startVars, stepVars, jobVars,
                requestVars, senderVars
  <2>2. AllCommands' = AllCommands
    BY <2>1, Zenon DEF AllCommands, Elems
  <2>3. QED
    BY <2>1, <2>2 DEF MatchInv, Match, Uniform, RealFri
<1>2. QED
  BY <1>1, RequestKinds, MatchPipeline, MatchClients, MatchReal, MatchChannels, Zenon DEF Sender

\* A SNARK covers batches of one proving version that L1 has not proved, and a real
\* one covers real FRI proofs only, although the map forgets the ranges it gave out.
THEOREM ProofsMatch == Spec => []ProofsMatchBatches
<1>1. MatchInv => ProofsMatchBatches
  BY Zenon DEF MatchInv, AllCommands, Match, ProofsMatchBatches
<1>2. QED
  BY <1>1, SnarkTypesInit, SnarkTypesNext, MatchInit, MatchNext, PTL DEF Spec

-----------------------------------------------------------------------------
(* Real FRI proofs are kept for real provers *)

\* What is leased for a fake SNARK has been in the map: it is not on its way to it.
KeptInv ==
    /\ RealFrisKeptForProvers
    /\ \A c \in Clients :
          stage[c] = "completing_fake" =>
             \A b \in range[c] : b # adding /\ b \notin next_batch .. MaxBatch

LEMMA KeptInit == Init => KeptInv
  BY Zenon DEF Init, KeptInv, RealFrisKeptForProvers

\* Jobs that leave the map, and time, change nothing.
LEMMA KeptFrame ==
  ASSUME KeptInv, UNCHANGED <<fri, adding, next_batch>>, jobs' \subseteq jobs,
         \A b \in jobs' : b \in aged => b \in aged',
         \A c \in Clients : stage'[c] = "completing_fake" =>
                               stage[c] = "completing_fake" /\ range'[c] = range[c]
  PROVE  KeptInv'
  BY Zenon DEF KeptInv, RealFrisKeptForProvers

LEMMA KeptNext == SnarkTypes /\ PlaceInv /\ KeptInv /\ [Next]_vars => KeptInv'
<1> SUFFICES ASSUME SnarkTypes, PlaceInv, KeptInv, [Next]_vars PROVE KeptInv'
  BY Zenon
<1> USE DEF startVars, stepVars, jobVars, requestVars, senderVars
<1>0. TypeOK /\ MaxBatch \in Nat
  BY SnarkMaxBatchAssumption, Zenon DEF SnarkTypes
<1>1. CASE Time \/ ForwardCommand \/ BufferCommand \/ SendInOrder \/ UNCHANGED vars
  BY <1>1, KeptFrame, Zenon DEF Time, AssignmentTimeout, BecomeAged, ForwardCommand, BufferCommand,
                         SendInOrder, vars
<1>2. CASE PassProved \/ ReceiveBatch
  <2>1. /\ \A b \in next_batch' .. MaxBatch : b \in next_batch .. MaxBatch
        /\ adding' = adding \/ adding' \in next_batch .. MaxBatch
    BY <1>0, <1>2 DEF PassProved, ReceiveBatch, TypeOK
  <2>2. UNCHANGED <<fri, stage, range, jobs, aged>>
    BY <1>2, Zenon DEF PassProved, ReceiveBatch
  <2>3. QED
    BY <2>1, <2>2, Zenon DEF KeptInv, RealFrisKeptForProvers
<1>3. CASE AddJob
  <2>1. /\ UNCHANGED <<fri, stage, range, aged, next_batch>>
        /\ jobs' = jobs \cup {adding} /\ adding' = NoBatch
    BY <1>3, Zenon DEF AddJob
  <2>2. \A c \in Clients : stage[c] = "completing_fake" =>
           \A b \in range[c] : b # NoBatch
    <3>1. NoBatch \notin Batches
      BY SnarkNoBatchAssumption, SnarkMaxBatchAssumption DEF Batches
    <3>2. \A c \in Clients : stage[c] = "completing_fake" => range[c] \subseteq Batches
      BY RangeBounds, Zenon DEF SnarkTypes, Busy
    <3>3. QED
      BY <3>1, <3>2, Zenon
  <2>3. QED
    BY <2>1, <2>2, Zenon DEF KeptInv, RealFrisKeptForProvers
<1>4. CASE WaitForSpace
  BY <1>4, KeptFrame, Zenon DEF WaitForSpace
<1>5. ASSUME NEW c \in Clients, NEW s, NEW rng, Request(c, s, rng), s # "completing_fake",
             UNCHANGED <<fri, adding, next_batch>>, jobs' \subseteq jobs,
             \A b \in jobs' : b \in aged => b \in aged'
      PROVE  KeptInv'
  <2>1. \A d \in Clients : stage'[d] = "completing_fake" =>
                              stage[d] = "completing_fake" /\ range'[d] = range[d]
    BY <1>0, <1>5, Zenon DEF TypeOK, Request
  <2>2. QED
    BY <1>5, <2>1, KeptFrame, Zenon
<1>6. ASSUME NEW c \in Clients, QuietRequest(c) PROVE KeptInv'
  <2>1. PICK s, rng : Request(c, s, rng) /\ s # "completing_fake"
    BY <1>6, Zenon DEF QuietRequest
  <2>2. QED
    BY <1>5, <1>6, <2>1, Zenon DEF QuietRequest
<1>7. ASSUME NEW c \in Clients, Complete(c) PROVE KeptInv'
  <2>1. PICK s \in Done : Request(c, s, range[c]) /\ RemoveJobs(range[c])
                          /\ UNCHANGED <<fri, adding, next_batch>>
    BY <1>7, Zenon DEF Complete, CompleteMany, Done
  <2>2. jobs' \subseteq jobs /\ \A b \in jobs' : b \in aged => b \in aged'
    BY <2>1, Zenon DEF RemoveJobs
  <2>3. s # "completing_fake"
    BY Zenon DEF Done
  <2>4. QED
    BY <1>5, <2>1, <2>2, <2>3
<1>8. ASSUME NEW c \in Clients, Send(c) PROVE KeptInv'
  <2>1. PICK s \in {"idle", "draining"} : Request(c, s, {})
    BY <1>8, Zenon DEF Send, SendCommand, LoopTop
  <2>2. UNCHANGED <<fri, adding, next_batch, jobs, aged>>
    BY <1>8, Zenon DEF Send, SendCommand
  <2>3. QED
    BY <1>5, <2>1, <2>2, Zenon
<1>9. ASSUME NEW p \in Provers, PickRealJob(p) PROVE KeptInv'
  <2>1. /\ p \in Clients /\ Request(p, "idle", {})
        /\ UNCHANGED <<fri, adding, next_batch, jobs, aged>>
    BY <1>9, RealPicked, Zenon DEF Clients
  <2>2. QED
    BY <1>5, <2>1, Zenon
<1>10. ASSUME NEW c \in Clients, LeaseFake(c) PROVE KeptInv'
  <2>1. PICK picked \in Ranges \ {{}} :
           /\ picked \subseteq jobs
           /\ \A b \in picked : fri[b] = "Fake" \/ (c = FakeProver /\ b \in aged)
           /\ Request(c, "completing_fake", picked)
    BY <1>10, FakePicked, Zenon
  <2>2. UNCHANGED <<fri, adding, next_batch, jobs, aged>>
    BY <1>10, FakePicked, Zenon
  <2>3. \A b \in jobs : b # adding /\ b \notin next_batch .. MaxBatch
    <3>1. jobs \cap Places[1] = {} /\ jobs \cap Places[2] = {}
      <4>1. Places[3] \cap Places[1] = {} /\ Places[3] \cap Places[2] = {}
        BY PlaceNumbers DEF PlaceInv, Exclusive
      <4>2. QED
        BY <4>1, SnarkPlaces, Zenon
    <3>2. NoBatch \notin jobs
      BY <1>0, AssignableTypes, SnarkNoBatchAssumption, Zenon
    <3>3. QED
      BY <3>1, <3>2, SnarkPlaces, Zenon
  <2>4. \A d \in Clients : /\ d = c => stage'[d] = "completing_fake" /\ range'[d] = picked
                           /\ d # c => stage'[d] = stage[d] /\ range'[d] = range[d]
    BY <1>0, <2>1, Zenon DEF TypeOK, Request
  <2>5. \A b \in picked : fri[b] = "Real" => c = FakeProver /\ b \in aged
    BY <2>1, Zenon
  <2>6. QED
    BY <2>1, <2>2, <2>3, <2>4, <2>5 DEF KeptInv, RealFrisKeptForProvers
<1>11. QED
  BY <1>1, <1>2, <1>3, <1>4, <1>6, <1>7, <1>8, <1>9, <1>10, RequestKinds
     DEF Sender, PipelineStep

\* The drain at the head of pick_real_job never turns a real FRI proof into a fake
\* SNARK: only FakeSnarkProver does, for a batch older than max_batch_age.
THEOREM RealFrisKept == Spec => []RealFrisKeptForProvers
<1>1. KeptInv => RealFrisKeptForProvers
  BY Zenon DEF KeptInv
<1>2. QED
  BY <1>1, SnarkTypesInit, SnarkTypesNext, PlaceInvInit, PlaceInvNext, KeptInit, KeptNext,
     PTL DEF Spec
=============================================================================
