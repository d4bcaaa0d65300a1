---------------------- MODULE BlockCanonizationProofs ----------------------
(***************************************************************************)
(* Theorems about BlockCanonization, for any set of nodes and payloads and *)
(* any bounds, whether or not the tasks of a node are timely.              *)
(***************************************************************************)
EXTENDS BlockCanonization, TLAPS

-----------------------------------------------------------------------------
(* Sequences and their elements *)

LEMMA ElemsEmpty == Elems(<< >>) = {}
  BY DEF Elems

LEMMA ElemsSingle == \A e : Elems(<< e >>) = {e}
  BY DEF Elems

\* The head of a queue is one of its elements.
LEMMA ElemsHead ==
  ASSUME NEW S, NEW s \in Seq(S), s # << >>
  PROVE  Head(s) \in Elems(s) /\ Head(s) \in S
  BY DEF Elems

\* Taking the head of a queue adds no element.
LEMMA ElemsTail ==
  ASSUME NEW S, NEW s \in Seq(S), s # << >>
  PROVE  Elems(Tail(s)) \subseteq Elems(s)
  BY DEF Elems

LEMMA ElemsAppend ==
  ASSUME NEW S, NEW s \in Seq(S), NEW e \in S
  PROVE  Elems(Append(s, e)) = Elems(s) \cup {e}
  BY DEF Elems

LEMMA ElemsConcat ==
  ASSUME NEW S, NEW s \in Seq(S), NEW t \in Seq(S)
  PROVE  Elems(s) \subseteq Elems(s \o t)
  BY DEF Elems

-----------------------------------------------------------------------------
(* Type correctness *)

USE MaxLogAssumption

\* A restart leaves every variable in its type.
LEMMA RestartType ==
  ASSUME TypeOK, NEW n \in Nodes, Restart(n), crashes' \in Nat
  PROVE  TypeOK'
<1>1. AppliedState(n) \in Nat
  BY DEF TypeOK, DurableType, AppliedState, AtMostMaxLog
<1>2. applied' \in [Nodes -> Nat]
  BY <1>1, Zenon DEF TypeOK, Restart
<1>3. RaftType'
  BY Zenon DEF TypeOK, RaftType, Restart
<1>4. DurableType'
  BY Zenon DEF TypeOK, DurableType, Restart, durableVars
<1>5. SourceType'
  <2>1. wal_cursor' \in [Nodes -> Nat] /\ replay_until' \in [Nodes -> Nat]
    BY DEF TypeOK, SourceType, DurableType, AtMostMaxLog, Restart
  <2>2. << >> \in AtMostOne(Command)
    BY DEF AtMostOne
  <2> QED
    BY <2>1, <2>2 DEF TypeOK, SourceType, Restart
<1>6. ExecutorType'
  <2>1. << >> \in AtMostOne(Command)
    BY DEF AtMostOne
  <2> QED
    BY <2>1 DEF TypeOK, ExecutorType, Restart
<1>7. CanonizerType'
  <2>1. << >> \in AtMostOne(Proposal)
    BY DEF AtMostOne
  <2> QED
    BY <2>1 DEF TypeOK, CanonizerType, Restart
<1>8. ApplierType'
  BY DEF TypeOK, ApplierType, Restart
<1> QED
  BY <1>2, <1>3, <1>4, <1>5, <1>6, <1>7, <1>8, Zenon DEF TypeOK

LEMMA InitType == Init => TypeOK
<1> SUFFICES ASSUME Init PROVE TypeOK
  BY Zenon
<1>1. \A S : << >> \in AtMostOne(S) /\ << >> \in Seq(S) /\ << >> \in AtMostMaxLog(S)
  BY DEF AtMostOne, AtMostMaxLog
<1>2. RaftType /\ DurableType
  BY <1>1, TimelinessAssumption, Zenon DEF Init, RaftType, DurableType
<1>3. SourceType /\ ExecutorType
  BY <1>1, Zenon DEF Init, SourceType, ExecutorType
<1>4. CanonizerType /\ ApplierType
  BY <1>1, Zenon DEF Init, CanonizerType, ApplierType
<1> QED
  BY <1>2, <1>3, <1>4, Zenon DEF TypeOK, Init

\* An action keeps the types of the variables it does not touch.
LEMMA UnchangedType ==
  ASSUME TypeOK
  PROVE  /\ UNCHANGED raftVars => RaftType'
         /\ UNCHANGED durableVars => DurableType'
         /\ UNCHANGED sourceVars => SourceType'
         /\ UNCHANGED executorVars => ExecutorType'
         /\ UNCHANGED canonizerVars => CanonizerType'
         /\ UNCHANGED applierVars => ApplierType'
  BY Zenon DEF TypeOK, RaftType, DurableType, SourceType, ExecutorType, CanonizerType,
     ApplierType, raftVars, durableVars, sourceVars, executorVars, canonizerVars,
     applierVars

\* What the canonizer takes from the executor is a block.
LEMMA HeadExecuted ==
  ASSUME TypeOK, NEW n \in Nodes, NEW type, CanReceiveExecuted(n, type)
  PROVE  Head(executed[n]).block \in Block
<1>1. Head(executed[n]) \in Payload
  BY DEF TypeOK, ExecutorType, CanReceiveExecuted
<1> QED
  BY <1>1, Zenon DEF Payload

\* forward_wal_replays stays within the WAL.
ReplayUntilInWal == \A n \in Nodes : replay_until[n] <= Len(wal[n])

LEMMA NextType == TypeOK /\ ReplayUntilInWal /\ [Next]_vars => TypeOK'
<1> SUFFICES ASSUME TypeOK, ReplayUntilInWal, [Next]_vars PROVE TypeOK'
  BY Zenon
<1>1. CASE Establish
  <2>1. RaftType'
    <3>1. log \o tail \in Seq(Block) /\ << >> \in AtMostOne(Block)
      BY DEF TypeOK, RaftType, AtMostOne
    <3> QED
      BY <1>1, <3>1, Zenon DEF TypeOK, RaftType, Establish
  <2> QED
    BY <1>1, <2>1, UnchangedType, Zenon DEF TypeOK, Establish
<1>2. CASE Commit
  <2>1. RaftType'
    BY <1>2 DEF TypeOK, RaftType, Commit, AtMostOne
  <2> QED
    BY <1>2, <2>1, UnchangedType, Zenon DEF TypeOK, Commit
<1>3. ASSUME NEW n \in Nodes, Elect(n) PROVE TypeOK'
  <2>1. RaftType'
    <3>1. /\ term' = term + 1 /\ leader' = n /\ established' = FALSE
          /\ UNCHANGED <<log, tail, crashes, timely>>
      BY <1>3, Zenon DEF Elect
    <3>2. established' \in BOOLEAN
      BY <3>1, Zenon
    <3>3. term' \in Nat /\ leader' \in Nodes \cup {NoNode}
      BY <3>1 DEF TypeOK, RaftType
    <3> QED
      BY <3>1, <3>2, <3>3, Zenon DEF TypeOK, RaftType
  <2> QED
    BY <1>3, <2>1, UnchangedType, Zenon DEF TypeOK, Elect
<1>4. ASSUME NEW n \in Nodes, Apply(n) PROVE TypeOK'
  <2>1. DurableType'
    <3>1. applied[n] + 1 \in Nat
      BY DEF TypeOK
    <3> QED
      BY <1>4, <3>1, Zenon DEF TypeOK, DurableType, Apply
  <2>2. applied' \in [Nodes -> Nat]
    BY <1>4 DEF TypeOK, Apply
  <2>3. CanonizerType'
    BY <1>4 DEF TypeOK, CanonizerType, Apply, RaftType
  <2> QED
    BY <1>4, <2>1, <2>2, <2>3, UnchangedType, Zenon DEF TypeOK, Apply
<1>5. ASSUME NEW n \in Nodes, ConfirmLeader(n) PROVE TypeOK'
  <2>1. SourceType'
    BY <1>5, Zenon DEF TypeOK, SourceType, ConfirmLeader
  <2> QED
    BY <1>5, <2>1, UnchangedType, Zenon DEF TypeOK, ConfirmLeader
<1>6. ASSUME NEW n \in Nodes, ForwardWalReplay(n) PROVE TypeOK'
  <2>1. SourceType'
    <3>1. WalBlock(n, wal_cursor[n]) \in Block
      <4>1. wal[n] \in Seq(Block) /\ wal_cursor[n] \in Nat /\ replay_until[n] \in Nat
        BY Zenon DEF TypeOK, SourceType, DurableType, AtMostMaxLog
      <4>2. wal_cursor[n] <= Len(wal[n])
        BY <1>6, <4>1 DEF ForwardWalReplay, ReplayingWal, ReplayUntilInWal
      <4>3. Genesis \in Block
        BY DEF Block, Genesis
      <4> QED
        BY <4>1, <4>2, <4>3 DEF WalBlock
    <3>2. Replay(WalBlock(n, wal_cursor[n])) \in Command
      BY <3>1, Zenon DEF Replay, Command
    <3>3. commands' \in [Nodes -> AtMostOne(Command)]
      BY <1>6, <3>2 DEF TypeOK, SourceType, ForwardWalReplay, SendCommand, AtMostOne
    <3>4. wal_cursor' \in [Nodes -> Nat]
      BY <1>6 DEF TypeOK, SourceType, ForwardWalReplay
    <3> QED
      BY <1>6, <3>3, <3>4, Zenon DEF TypeOK, SourceType, ForwardWalReplay
  <2> QED
    BY <1>6, <2>1, UnchangedType, Zenon DEF TypeOK, ForwardWalReplay
<1>7. ASSUME NEW n \in Nodes, ForwardReplay(n) PROVE TypeOK'
  <2>1. SourceType'
    <3>1. Head(replays_to_execute[n]) \in Block
      BY <1>7 DEF TypeOK, SourceType, ForwardReplay
    <3>2. Replay(Head(replays_to_execute[n])) \in Command
      BY <3>1, Zenon DEF Replay, Command
    <3>3. commands' \in [Nodes -> AtMostOne(Command)]
      BY <1>7, <3>2 DEF TypeOK, SourceType, ForwardReplay, SendCommand, AtMostOne
    <3>4. replays_to_execute' \in [Nodes -> Seq(Block)]
      BY <1>7 DEF TypeOK, SourceType, ForwardReplay
    <3> QED
      BY <1>7, <3>3, <3>4, Zenon DEF TypeOK, SourceType, ForwardReplay
  <2> QED
    BY <1>7, <2>1, UnchangedType, Zenon DEF TypeOK, ForwardReplay
<1>8. ASSUME NEW n \in Nodes, SendProduce(n) PROVE TypeOK'
  <2>1. SourceType'
    <3>1. Produce \in Command
      BY DEF Produce, Command, Block, Genesis
    <3>2. commands' \in [Nodes -> AtMostOne(Command)]
      BY <1>8, <3>1 DEF TypeOK, SourceType, SendProduce, SendCommand, AtMostOne
    <3> QED
      BY <1>8, <3>2, Zenon DEF TypeOK, SourceType, SendProduce
  <2> QED
    BY <1>8, <2>1, UnchangedType, Zenon DEF TypeOK, SendProduce
<1>9. ASSUME NEW n \in Nodes, ReceiveCommand(n) PROVE TypeOK'
  <2>1. SourceType'
    BY <1>9 DEF TypeOK, SourceType, ReceiveCommand, AtMostOne
  <2>2. ExecutorType'
    BY <1>9 DEF TypeOK, ExecutorType, ReceiveCommand, SourceType, AtMostOne
  <2> QED
    BY <1>9, <2>1, <2>2, UnchangedType, Zenon DEF TypeOK, ReceiveCommand
<1>10. ASSUME NEW n \in Nodes, ExecuteProduce(n) PROVE TypeOK'
  <2>1. ExecutorType'
    <3>1. PICK p \in Payloads : Seal(n, "Produce", Append(last_block[n], p))
      BY <1>10, Zenon DEF ExecuteProduce
    <3>2. Append(last_block[n], p) \in Block
      BY <1>10 DEF TypeOK, ExecutorType, ExecuteProduce, Block
    <3>3. [type |-> "Produce", block |-> Append(last_block[n], p)] \in Payload
      BY <3>2, Zenon DEF Payload
    <3> QED
      BY <3>1, <3>2, <3>3 DEF TypeOK, ExecutorType, Seal, AtMostOne
  <2> QED
    BY <1>10, <2>1, UnchangedType, Zenon DEF TypeOK, ExecuteProduce
<1>11. ASSUME NEW n \in Nodes, ReplayGenesis(n) PROVE TypeOK'
  <2>1. ExecutorType'
    BY <1>11 DEF TypeOK, ExecutorType, ReplayGenesis, Genesis, Block,
       AtMostOne
  <2> QED
    BY <1>11, <2>1, UnchangedType, Zenon DEF TypeOK, ReplayGenesis
<1>12. ASSUME NEW n \in Nodes, ExecuteReplay(n) PROVE TypeOK'
  <2>1. ExecutorType'
    <3>1. executing[n][1] \in Command
      BY <1>12 DEF TypeOK, ExecutorType, ExecuteReplay, HasCommand, AtMostOne
    <3>2. /\ executing[n][1].block \in Block
          /\ [type |-> "Replay", block |-> executing[n][1].block] \in Payload
      BY <3>1, Zenon DEF Command, Payload
    <3>3. Seal(n, "Replay", executing[n][1].block)
      BY <1>12, Zenon DEF ExecuteReplay
    <3> QED
      BY <3>2, <3>3 DEF TypeOK, ExecutorType, Seal, AtMostOne
  <2> QED
    BY <1>12, <2>1, UnchangedType, Zenon DEF TypeOK, ExecuteReplay
<1>13. ASSUME NEW n \in Nodes, MatchCanonized(n) PROVE TypeOK'
  <2>1. CanonizerType'
    BY <1>13 DEF TypeOK, CanonizerType, MatchCanonized
  <2>2. ApplierType'
    BY <1>13 DEF TypeOK, ApplierType, MatchCanonized, SendToApplier,
       CanonizerType
  <2> QED
    BY <1>13, <2>1, <2>2, UnchangedType, Zenon DEF TypeOK, MatchCanonized
<1>14. ASSUME NEW n \in Nodes, ForwardCanonized(n) PROVE TypeOK'
  <2>1. SourceType'
    BY <1>14 DEF TypeOK, SourceType, ForwardCanonized, CanonizerType
  <2>2. CanonizerType'
    BY <1>14 DEF TypeOK, CanonizerType, ForwardCanonized
  <2> QED
    BY <1>14, <2>1, <2>2, UnchangedType, Zenon DEF TypeOK, ForwardCanonized
<1>15. ASSUME NEW n \in Nodes, PassReplay(n) PROVE TypeOK'
  <2>1. ExecutorType'
    BY <1>15 DEF TypeOK, ExecutorType, PassReplay, CanReceiveExecuted,
       executorVars
  <2>2. ApplierType'
    <3>1. Head(executed[n]).block \in Block
      BY <1>15, HeadExecuted, Zenon DEF PassReplay
    <3> QED
      BY <1>15, <3>1 DEF TypeOK, ApplierType, PassReplay, SendToApplier
  <2> QED
    BY <1>15, <2>1, <2>2, UnchangedType, Zenon DEF TypeOK, PassReplay
<1>16. ASSUME NEW n \in Nodes, ProposeBlock(n) PROVE TypeOK'
  <2>1. RaftType'
    <3>1. Head(executed[n]).block \in Block
      BY <1>16, HeadExecuted, Zenon DEF ProposeBlock
    <3>2. tail' \in AtMostOne(Block)
      BY <1>16, <3>1 DEF ProposeBlock, AtMostOne
    <3> QED
      BY <1>16, <3>2, Zenon DEF TypeOK, RaftType, ProposeBlock
  <2>2. ExecutorType'
    BY <1>16 DEF TypeOK, ExecutorType, ProposeBlock, CanReceiveExecuted
  <2>3. CanonizerType'
    <3>1. Head(executed[n]).block \in Block
      BY <1>16, HeadExecuted, Zenon DEF ProposeBlock
    <3>2. [block |-> Head(executed[n]).block, index |-> Len(log) + 1,
           term |-> term] \in Proposal
      BY <3>1 DEF TypeOK, RaftType, Proposal
    <3>3. << [block |-> Head(executed[n]).block, index |-> Len(log) + 1,
              term |-> term] >> \in AtMostOne(Proposal)
      BY <3>2 DEF AtMostOne
    <3> QED
      BY <1>16, <3>3, Zenon DEF TypeOK, CanonizerType, ProposeBlock
  <2> QED
    BY <1>16, <2>1, <2>2, <2>3, UnchangedType, Zenon DEF TypeOK, ProposeBlock
<1>17. ASSUME NEW n \in Nodes, ProposeReturns(n) PROVE TypeOK'
  <2>1. CanonizerType'
    <3>1. proposing[n][1] \in Proposal
      BY <1>17 DEF TypeOK, CanonizerType, ProposeReturns, AtMostOne
    <3>2. proposing[n][1].block \in Block /\ << >> \in AtMostOne(Proposal)
      BY <3>1 DEF Proposal, AtMostOne
    <3> QED
      BY <1>17, <3>2 DEF TypeOK, CanonizerType, ProposeReturns
  <2> QED
    BY <1>17, <2>1, UnchangedType, Zenon DEF TypeOK, ProposeReturns
<1>18. ASSUME NEW n \in Nodes, ApplyBlock(n) PROVE TypeOK'
  <2>1. DurableType'
    <3>1. Head(canonical[n]) \in Block
      BY <1>18 DEF TypeOK, ApplierType, ApplyBlock
    <3>2. Len(Head(canonical[n])) <= MaxLog /\ Len(Head(canonical[n])) \in Nat
      BY <3>1 DEF Block
    <3>3. wal' \in [Nodes -> AtMostMaxLog(Block)]
      BY <1>18, <3>1, <3>2 DEF TypeOK, DurableType, AtMostMaxLog, ApplyBlock
    <3> QED
      BY <1>18, <3>3, Zenon DEF TypeOK, DurableType, ApplyBlock
  <2>2. ApplierType'
    BY <1>18 DEF TypeOK, ApplierType, ApplyBlock, Block
  <2> QED
    BY <1>18, <2>1, <2>2, UnchangedType, Zenon DEF TypeOK, ApplyBlock
<1>19. ASSUME NEW n \in Nodes, Crash(n) PROVE TypeOK'
  BY <1>19, RestartType DEF Crash, TypeOK, RaftType
<1>20. ASSUME NEW n \in Nodes, Exit(n) PROVE TypeOK'
  BY <1>20, RestartType, Zenon DEF Exit, TypeOK, RaftType
<1>21. CASE UNCHANGED vars
  BY <1>21, UnchangedType, Zenon DEF TypeOK, vars
<1> QED
  BY <1>1, <1>2, <1>3, <1>4, <1>5, <1>6, <1>7, <1>8, <1>9, <1>10, <1>11, Zenon,
     <1>12, <1>13, <1>14, <1>15, <1>16, <1>17, <1>18, <1>19, <1>20, <1>21 DEF
     Next, Openraft, NodeStep, StateMachine, LeadershipMonitor, CommandSource,
     BlockExecutor, BlockCanonizer, BlockApplier, LoseLeadership,
     RefuseReplay, MismatchCanonized, ProposeOnReplica, ProposeFails

LEMMA NextReplayUntil ==
  TypeOK /\ ReplayUntilInWal /\ [Next]_vars => ReplayUntilInWal'
<1> SUFFICES ASSUME TypeOK, ReplayUntilInWal, [Next]_vars PROVE ReplayUntilInWal'
  BY Zenon
<1>1. ASSUME NEW n \in Nodes, Restart(n) PROVE ReplayUntilInWal'
  BY <1>1 DEF TypeOK, DurableType, SourceType, AtMostMaxLog, ReplayUntilInWal,
     Restart, durableVars
<1>2. ASSUME NEW n \in Nodes, ApplyBlock(n) PROVE ReplayUntilInWal'
  <2>1. \A m \in Nodes : Len(wal'[m]) >= Len(wal[m])
    BY <1>2 DEF TypeOK, DurableType, AtMostMaxLog, ApplyBlock
  <2> QED
    BY <1>2, <2>1 DEF TypeOK, DurableType, SourceType, AtMostMaxLog,
       ReplayUntilInWal, ApplyBlock, sourceVars
<1>3. CASE UNCHANGED <<wal, replay_until>>
  BY <1>3, Zenon DEF ReplayUntilInWal
<1>4. CASE Openraft
  BY <1>3, <1>4, Zenon DEF Openraft, Establish, Commit, Elect, durableVars, sourceVars
<1>5. ASSUME NEW n \in Nodes, NodeStep(n) \/ Crash(n) PROVE ReplayUntilInWal'
  <2>1. CASE \/ Crash(n) \/ LoseLeadership(n) \/ RefuseReplay(n) \/ MismatchCanonized(n)
             \/ ProposeOnReplica(n) \/ ProposeFails(n)
    BY <1>1, <2>1, Zenon DEF Crash, Exit, LoseLeadership, RefuseReplay, MismatchCanonized,
       ProposeOnReplica, ProposeFails
  <2>2. CASE StateMachine(n) \/ ConfirmLeader(n) \/ CommandSource(n)
    BY <1>3, <2>2, Zenon DEF StateMachine, Apply, ConfirmLeader, CommandSource,
       ForwardWalReplay, ForwardReplay, SendProduce, durableVars, sourceVars
  <2>3. CASE ReceiveCommand(n) \/ ExecuteProduce(n) \/ ReplayGenesis(n) \/ ExecuteReplay(n)
    BY <1>3, <2>3, Zenon DEF ReceiveCommand, ExecuteProduce, ReplayGenesis, ExecuteReplay,
       durableVars, sourceVars
  <2>4. CASE \/ MatchCanonized(n) \/ ForwardCanonized(n) \/ PassReplay(n)
             \/ ProposeBlock(n) \/ ProposeReturns(n)
    BY <1>3, <2>4, Zenon DEF MatchCanonized, ForwardCanonized, PassReplay, ProposeBlock,
       ProposeReturns, durableVars, sourceVars
  <2> QED
    BY <1>2, <1>5, <2>1, <2>2, <2>3, <2>4, Zenon DEF NodeStep, LeadershipMonitor,
       BlockExecutor, BlockCanonizer, BlockApplier
<1>6. CASE UNCHANGED vars
  BY <1>3, <1>6, Zenon DEF vars, durableVars, sourceVars
<1> QED
  BY <1>4, <1>5, <1>6, Zenon DEF Next

\* Every variable of every node stays in its type; in particular each channel of
\* capacity one holds at most one item.
THEOREM TypeCorrect == Spec => []TypeOK
<1>1. Init => TypeOK /\ ReplayUntilInWal
  BY InitType DEF Init, ReplayUntilInWal
<1>2. TypeOK /\ ReplayUntilInWal /\ [Next]_vars => TypeOK' /\ ReplayUntilInWal'
  BY NextType, NextReplayUntil, Zenon
<1> QED
  BY <1>1, <1>2, PTL DEF Spec

-----------------------------------------------------------------------------
(* The canonization fence *)

TypeInv == TypeOK /\ ReplayUntilInWal

\* Raft never withdraws a committed entry.
LEMMA LogGrows ==
  ASSUME TypeInv, [Next]_vars
  PROVE  Elems(log) \subseteq Elems(log')
<1>1. CASE Establish \/ Commit
  <2>1. log \in Seq(Block) /\ tail \in Seq(Block)
    BY Zenon DEF TypeInv, TypeOK, RaftType, AtMostOne
  <2>2. Elems(log) \subseteq Elems(log \o tail)
    BY <2>1, ElemsConcat, Zenon
  <2> QED
    BY <1>1, <2>2, Zenon DEF Establish, Commit
<1>2. ASSUME NEW n \in Nodes, Restart(n) PROVE UNCHANGED log
  BY <1>2, Zenon DEF Restart
<1>3. ASSUME NEW n \in Nodes,
             StateMachine(n) \/ LeadershipMonitor(n) \/ CommandSource(n)
      PROVE  UNCHANGED log
  BY <1>2, <1>3, Zenon DEF StateMachine, LeadershipMonitor, CommandSource, Apply,
     ConfirmLeader, LoseLeadership, Exit, ForwardWalReplay, ForwardReplay,
     SendProduce, raftVars
<1>4. ASSUME NEW n \in Nodes, BlockExecutor(n) \/ BlockApplier(n)
      PROVE  UNCHANGED log
  BY <1>2, <1>4, Zenon DEF BlockExecutor, BlockApplier, ReceiveCommand, ExecuteProduce,
     ReplayGenesis, ExecuteReplay, RefuseReplay, ApplyBlock, Exit, raftVars
<1>5. ASSUME NEW n \in Nodes, BlockCanonizer(n)
      PROVE  UNCHANGED log
  BY <1>2, <1>5, Zenon DEF BlockCanonizer, MatchCanonized, MismatchCanonized,
     ForwardCanonized, PassReplay, ProposeBlock, ProposeOnReplica, ProposeReturns,
     ProposeFails, Exit, raftVars
<1>6. ASSUME NEW n \in Nodes, Elect(n) \/ Crash(n) PROVE UNCHANGED log
  BY <1>2, <1>6, Zenon DEF Elect, Crash
<1>7. CASE UNCHANGED vars
  BY <1>7, Zenon DEF vars, raftVars
<1> QED
  BY <1>1, <1>3, <1>4, <1>5, <1>6, <1>7, Zenon DEF Next, Openraft, NodeStep

\* What a block replay storage, a queue or a command held as canonized stays so.
LEMMA FenceUnchanged ==
  ASSUME TypeInv, FenceInv, [Next]_vars
  PROVE  /\ UNCHANGED wal => OnlyCanonizedPersisted'
         /\ UNCHANGED <<canonized_blocks_rx, replays_to_execute, canonical>>
               => CanonizedQueues'
         /\ UNCHANGED <<commands, executing, executed>> => CanonizedReplays'
  BY LogGrows, Zenon DEF FenceInv, OnlyCanonizedPersisted, CanonizedQueues, CanonizedReplays

LEMMA RestartFence ==
  ASSUME TypeInv, FenceInv, NEW n \in Nodes, Restart(n)
  PROVE  FenceInv'
<1>1. UNCHANGED <<log, wal>>
  BY Zenon DEF Restart, durableVars
<1>2. OnlyCanonizedPersisted'
  BY <1>1, Zenon DEF FenceInv, OnlyCanonizedPersisted
<1>3. CanonizedQueues'
  BY <1>1, ElemsEmpty, Zenon DEF TypeInv, TypeOK, SourceType, CanonizerType, ApplierType,
     FenceInv, CanonizedQueues, Restart
<1>4. CanonizedReplays'
  BY <1>1, ElemsEmpty, Zenon DEF TypeInv, TypeOK, SourceType, ExecutorType,
     FenceInv, CanonizedReplays, Restart
<1> QED
  BY <1>2, <1>3, <1>4, Zenon DEF FenceInv

LEMMA NextFence == TypeInv /\ FenceInv /\ [Next]_vars => FenceInv'
<1> SUFFICES ASSUME TypeInv, FenceInv, [Next]_vars PROVE FenceInv'
  BY Zenon
<1> USE DEF TypeInv
<1>1. CASE Establish \/ Commit
  BY <1>1, FenceUnchanged, Zenon DEF FenceInv, Establish, Commit, durableVars, sourceVars,
     executorVars, canonizerVars, applierVars
<1>2. ASSUME NEW n \in Nodes, Elect(n) PROVE FenceInv'
  BY <1>2, FenceUnchanged, Zenon DEF FenceInv, Elect, durableVars, sourceVars,
     executorVars, canonizerVars, applierVars
<1>3. ASSUME NEW n \in Nodes, ConfirmLeader(n) PROVE FenceInv'
  BY <1>3, FenceUnchanged, Zenon DEF FenceInv, ConfirmLeader, durableVars,
     executorVars, canonizerVars, applierVars
<1>4. ASSUME NEW n \in Nodes, Apply(n) PROVE FenceInv'
  <2>1. /\ log \in Seq(Block) /\ canonized_blocks_rx[n] \in Seq(Block)
        /\ applied[n] + 1 \in 1 .. Len(log)
    BY <1>4 DEF TypeOK, RaftType, CanonizerType, Apply
  <2>2. log[applied[n] + 1] \in Elems(log) /\ log[applied[n] + 1] \in Block
    BY <2>1 DEF Elems
  <2>3. Elems(Append(canonized_blocks_rx[n], log[applied[n] + 1]))
           = Elems(canonized_blocks_rx[n]) \cup {log[applied[n] + 1]}
    BY <2>1, <2>2, ElemsAppend
  <2>4. CanonizedQueues'
    BY <1>4, <2>2, <2>3, Zenon DEF TypeOK, CanonizerType, FenceInv, CanonizedQueues, Apply,
       raftVars, sourceVars, applierVars
  <2> QED
    BY <1>4, <2>4, FenceUnchanged, Zenon DEF FenceInv, Apply, sourceVars, executorVars
<1>5. ASSUME NEW n \in Nodes, ForwardWalReplay(n) PROVE FenceInv'
  <2>1. WalBlock(n, wal_cursor[n]) \in Elems(log) \cup {Genesis}
    <3>1. wal[n] \in Seq(Block) /\ wal_cursor[n] \in Nat /\ replay_until[n] \in Nat
      BY Zenon DEF TypeOK, SourceType, DurableType, AtMostMaxLog
    <3>2. wal_cursor[n] <= Len(wal[n])
      BY <1>5, <3>1 DEF ForwardWalReplay, ReplayingWal, ReplayUntilInWal
    <3>3. wal_cursor[n] # 0 => wal[n][wal_cursor[n]] \in Elems(wal[n])
      BY <3>1, <3>2 DEF Elems
    <3> QED
      BY <3>3, Zenon DEF WalBlock, FenceInv, OnlyCanonizedPersisted
  <2>2. Elems(commands'[n]) = {Replay(WalBlock(n, wal_cursor[n]))}
    BY <1>5 DEF TypeOK, SourceType, ForwardWalReplay, SendCommand, Elems
  <2> HIDE DEF TypeInv
  <2>3. /\ UNCHANGED <<log, executing, executed>>
        /\ \A m \in Nodes : m # n => commands'[m] = commands[m]
    BY <1>5, Zenon DEF TypeInv, TypeOK, SourceType, ForwardWalReplay, SendCommand, raftVars,
       executorVars
  <2>4. CanonizedReplays'
    BY <2>1, <2>2, <2>3 DEF FenceInv, CanonizedReplays, Replay
  <2> QED
    BY <1>5, <2>4, FenceUnchanged, Zenon DEF FenceInv, ForwardWalReplay, durableVars,
       canonizerVars, applierVars
<1>6. ASSUME NEW n \in Nodes, ForwardReplay(n) PROVE FenceInv'
  <2>1. /\ Head(replays_to_execute[n]) \in Elems(replays_to_execute[n])
        /\ Elems(Tail(replays_to_execute[n])) \subseteq Elems(replays_to_execute[n])
    BY <1>6, ElemsHead, ElemsTail, Zenon DEF TypeOK, SourceType, ForwardReplay
  <2>2. Elems(commands'[n]) = {Replay(Head(replays_to_execute[n]))}
    BY <1>6 DEF TypeOK, SourceType, ForwardReplay, SendCommand, Elems
  <2>3. /\ UNCHANGED <<log, executing, executed>>
        /\ \A m \in Nodes : m # n => commands'[m] = commands[m]
    BY <1>6, Zenon DEF TypeOK, SourceType, ForwardReplay, SendCommand, raftVars, executorVars
  <2>4. CanonizedReplays'
    BY <2>1, <2>2, <2>3 DEF FenceInv, CanonizedQueues, CanonizedReplays, Replay
  <2>5. CanonizedQueues'
    BY <1>6, <2>1, Zenon DEF TypeOK, SourceType, FenceInv, CanonizedQueues, ForwardReplay,
       raftVars, canonizerVars, applierVars
  <2> QED
    BY <1>6, <2>4, <2>5, FenceUnchanged, Zenon DEF FenceInv, ForwardReplay, durableVars
<1>7. ASSUME NEW n \in Nodes, SendProduce(n) PROVE FenceInv'
  <2>1. Elems(commands'[n]) = {Produce}
    BY <1>7 DEF TypeOK, SourceType, SendProduce, SendCommand, Elems
  <2>2. /\ UNCHANGED <<log, executing, executed>>
        /\ \A m \in Nodes : m # n => commands'[m] = commands[m]
    BY <1>7, Zenon DEF TypeOK, SourceType, SendProduce, SendCommand, raftVars, executorVars
  <2>3. CanonizedReplays'
    BY <2>1, <2>2 DEF FenceInv, CanonizedReplays, Produce
  <2> QED
    BY <1>7, <2>3, FenceUnchanged, Zenon DEF FenceInv, SendProduce, durableVars,
       canonizerVars, applierVars
<1>8. ASSUME NEW n \in Nodes, ReceiveCommand(n) PROVE FenceInv'
  <2>1. commands[n] \in Seq(Command) /\ commands[n] # << >>
    BY <1>8, Zenon DEF TypeOK, SourceType, ReceiveCommand, AtMostOne
  <2>2. /\ Head(commands[n]) \in Elems(commands[n])
        /\ Elems(Tail(commands[n])) \subseteq Elems(commands[n])
        /\ Elems(<< Head(commands[n]) >>) = {Head(commands[n])}
    BY <2>1, ElemsHead, ElemsTail, ElemsSingle, Zenon
  <2>3. CanonizedReplays'
    BY <1>8, <2>2, Zenon DEF TypeOK, SourceType, ExecutorType, FenceInv, CanonizedReplays,
       ReceiveCommand, raftVars
  <2> QED
    BY <1>8, <2>3, FenceUnchanged, Zenon DEF FenceInv, ReceiveCommand, durableVars,
       canonizerVars, applierVars
<1>9. ASSUME NEW n \in Nodes, ExecuteProduce(n) PROVE FenceInv'
  <2>1. PICK p \in Payloads : Seal(n, "Produce", Append(last_block[n], p))
    BY <1>9, Zenon DEF ExecuteProduce
  <2> DEFINE e == [type |-> "Produce", block |-> Append(last_block[n], p)]
  <2>2. e \in Payload
    <3>1. Append(last_block[n], p) \in Block
      BY <1>9 DEF TypeOK, ExecutorType, ExecuteProduce, Block
    <3> QED
      BY <3>1, Zenon DEF Payload
  <2>3. e.type # "Replay" /\ executed[n] \in Seq(Payload)
    BY Zenon DEF TypeOK, ExecutorType
  <2>4. /\ executing'[n] = << >> /\ executed'[n] = Append(executed[n], e)
        /\ \A m \in Nodes : m # n => /\ executing'[m] = executing[m]
                                     /\ executed'[m] = executed[m]
        /\ UNCHANGED <<log, commands>>
    BY <1>9, <2>1, Zenon DEF TypeOK, ExecutorType, ExecuteProduce, Seal, raftVars, sourceVars
  <2> HIDE DEF e
  <2>5. Elems(executed'[n]) = Elems(executed[n]) \cup {e}
    BY <2>2, <2>3, <2>4, ElemsAppend
  <2>6. CanonizedReplays'
    BY <2>3, <2>4, <2>5, ElemsEmpty, Zenon DEF FenceInv, CanonizedReplays
  <2> QED
    BY <1>9, <2>6, FenceUnchanged, Zenon DEF FenceInv, ExecuteProduce, durableVars,
       sourceVars, canonizerVars, applierVars
<1>10. ASSUME NEW n \in Nodes, ReplayGenesis(n) PROVE FenceInv'
  <2>1. CanonizedReplays'
    BY <1>10, ElemsEmpty DEF TypeOK, ExecutorType, FenceInv, CanonizedReplays,
       ReplayGenesis, raftVars, sourceVars
  <2> QED
    BY <1>10, <2>1, FenceUnchanged, Zenon DEF FenceInv, ReplayGenesis, durableVars,
       sourceVars, canonizerVars, applierVars
<1>11. ASSUME NEW n \in Nodes, ExecuteReplay(n) PROVE FenceInv'
  <2> DEFINE b == executing[n][1].block
             e == [type |-> "Replay", block |-> b]
  <2>1. executing[n][1] \in Command /\ executing[n][1] \in Elems(executing[n])
    BY <1>11 DEF TypeOK, ExecutorType, ExecuteReplay, HasCommand, AtMostOne, Elems
  <2>2. b \in Block /\ e \in Payload
    BY <2>1, Zenon DEF Command, Payload
  <2>3. b \in Elems(log)
    BY <1>11, <2>1, Zenon DEF FenceInv, CanonizedReplays, ExecuteReplay, HasCommand
  <2>4. Elems(Append(executed[n], e)) = Elems(executed[n]) \cup {e}
    BY <2>2, ElemsAppend DEF TypeOK, ExecutorType
  <2>5. CanonizedReplays'
    BY <1>11, <2>3, <2>4, ElemsEmpty DEF TypeOK, ExecutorType, FenceInv,
       CanonizedReplays, ExecuteReplay, Seal, raftVars, sourceVars
  <2> QED
    BY <1>11, <2>5, FenceUnchanged, Zenon DEF FenceInv, ExecuteReplay, durableVars,
       sourceVars, canonizerVars, applierVars
<1>12. ASSUME NEW n \in Nodes, MatchCanonized(n) PROVE FenceInv'
  <2> DEFINE b == Head(canonized_blocks_rx[n])
  <2>1. /\ b \in Elems(canonized_blocks_rx[n]) /\ b \in Block
        /\ Elems(Tail(canonized_blocks_rx[n])) \subseteq Elems(canonized_blocks_rx[n])
    BY <1>12, ElemsHead, ElemsTail, Zenon DEF TypeOK, CanonizerType, MatchCanonized
  <2>2. Elems(Append(canonical[n], b)) = Elems(canonical[n]) \cup {b}
    BY <2>1, ElemsAppend DEF TypeOK, ApplierType
  <2>3. CanonizedQueues'
    BY <1>12, <2>1, <2>2, Zenon DEF TypeOK, CanonizerType, ApplierType, FenceInv,
       CanonizedQueues, MatchCanonized, SendToApplier, raftVars, sourceVars
  <2> QED
    BY <1>12, <2>3, FenceUnchanged, Zenon DEF FenceInv, MatchCanonized, durableVars,
       sourceVars, executorVars
<1>13. ASSUME NEW n \in Nodes, ForwardCanonized(n) PROVE FenceInv'
  <2> DEFINE b == Head(canonized_blocks_rx[n])
  <2>1. /\ b \in Elems(canonized_blocks_rx[n]) /\ b \in Block
        /\ Elems(Tail(canonized_blocks_rx[n])) \subseteq Elems(canonized_blocks_rx[n])
    BY <1>13, ElemsHead, ElemsTail, Zenon DEF TypeOK, CanonizerType, ForwardCanonized
  <2>2. Elems(Append(replays_to_execute[n], b)) = Elems(replays_to_execute[n]) \cup {b}
    BY <2>1, ElemsAppend DEF TypeOK, SourceType
  <2>3. CanonizedQueues'
    BY <1>13, <2>1, <2>2, Zenon DEF TypeOK, CanonizerType, SourceType, FenceInv,
       CanonizedQueues, ForwardCanonized, raftVars, applierVars
  <2> QED
    BY <1>13, <2>3, FenceUnchanged, Zenon DEF FenceInv, ForwardCanonized, durableVars,
       executorVars
<1>14. ASSUME NEW n \in Nodes, CanReceiveExecuted(n, "Replay"), PassReplay(n)
       PROVE FenceInv'
  <2> DEFINE b == Head(executed[n]).block
  <2>1. /\ Head(executed[n]) \in Elems(executed[n]) /\ Head(executed[n]) \in Payload
        /\ Elems(Tail(executed[n])) \subseteq Elems(executed[n])
    BY <1>14, ElemsHead, ElemsTail, Zenon DEF TypeOK, ExecutorType, CanReceiveExecuted
  <2>2. b \in Elems(log) /\ b \in Block
    BY <1>14, <2>1, HeadExecuted, Zenon DEF FenceInv, CanonizedReplays, CanReceiveExecuted
  <2>3. Elems(Append(canonical[n], b)) = Elems(canonical[n]) \cup {b}
    BY <2>2, ElemsAppend DEF TypeOK, ApplierType
  <2>4. CanonizedQueues'
    BY <1>14, <2>2, <2>3, Zenon DEF TypeOK, ApplierType, FenceInv, CanonizedQueues,
       PassReplay, SendToApplier, raftVars, sourceVars, canonizerVars
  <2>5. CanonizedReplays'
    BY <1>14, <2>1, Zenon DEF TypeOK, ExecutorType, FenceInv, CanonizedReplays, PassReplay,
       raftVars, sourceVars
  <2> QED
    BY <1>14, <2>4, <2>5, FenceUnchanged, Zenon DEF FenceInv, PassReplay, durableVars
<1>15. ASSUME NEW n \in Nodes, ProposeBlock(n) PROVE FenceInv'
  <2>1. Elems(Tail(executed[n])) \subseteq Elems(executed[n])
    BY <1>15, ElemsTail, Zenon DEF TypeOK, ExecutorType, ProposeBlock, CanReceiveExecuted
  <2>2. CanonizedReplays'
    BY <1>15, <2>1, Zenon DEF TypeOK, ExecutorType, FenceInv, CanonizedReplays, ProposeBlock,
       sourceVars
  <2> QED
    BY <1>15, <2>2, FenceUnchanged, Zenon DEF FenceInv, ProposeBlock, durableVars,
       sourceVars, applierVars
<1>16. ASSUME NEW n \in Nodes, ProposeReturns(n) PROVE FenceInv'
  BY <1>16, FenceUnchanged, Zenon DEF FenceInv, ProposeReturns, durableVars, sourceVars,
     executorVars, applierVars
<1>17. ASSUME NEW n \in Nodes, ApplyBlock(n) PROVE FenceInv'
  <2> DEFINE b == Head(canonical[n])
  <2>1. /\ b \in Elems(canonical[n]) /\ b \in Block
        /\ Elems(Tail(canonical[n])) \subseteq Elems(canonical[n])
    BY <1>17, ElemsHead, ElemsTail, Zenon DEF TypeOK, ApplierType, ApplyBlock
  <2>2. Elems(Append(wal[n], b)) = Elems(wal[n]) \cup {b}
    BY <2>1, ElemsAppend DEF TypeOK, DurableType, AtMostMaxLog
  <2>3. OnlyCanonizedPersisted'
    BY <1>17, <2>1, <2>2, Zenon DEF TypeOK, DurableType, FenceInv, OnlyCanonizedPersisted,
       CanonizedQueues, ApplyBlock, raftVars
  <2>4. CanonizedQueues'
    BY <1>17, <2>1, Zenon DEF TypeOK, ApplierType, FenceInv, CanonizedQueues, ApplyBlock,
       raftVars, sourceVars, canonizerVars
  <2> QED
    BY <1>17, <2>3, <2>4, FenceUnchanged, Zenon DEF FenceInv, ApplyBlock, sourceVars,
       executorVars
<1>18. ASSUME NEW n \in Nodes, Restart(n) PROVE FenceInv'
  BY <1>18, RestartFence, Zenon
<1>19. CASE UNCHANGED vars
  BY <1>19, FenceUnchanged, Zenon DEF FenceInv, vars, durableVars, sourceVars,
     executorVars, canonizerVars, applierVars
<1> QED
  BY <1>1, <1>2, <1>3, <1>4, <1>5, <1>6, <1>7, <1>8, <1>9, <1>10, <1>11, <1>12, Zenon,
     <1>13, <1>14, <1>15, <1>16, <1>17, <1>18, <1>19
     DEF Next, Openraft, NodeStep, StateMachine, LeadershipMonitor,
     CommandSource, BlockExecutor, BlockCanonizer, BlockApplier, Crash, Exit, PassReplay,
     LoseLeadership, RefuseReplay, MismatchCanonized, ProposeOnReplica,
     ProposeFails

\* The canonization fence holds in every behaviour, timely or not: a node's WAL
\* holds only blocks that the raft log has committed.
THEOREM CanonizationFence == Spec => []OnlyCanonizedPersisted
<1>1. Init => TypeInv /\ FenceInv
  <2>1. Init => TypeOK /\ ReplayUntilInWal
    BY InitType DEF Init, ReplayUntilInWal
  <2>2. Init => \A n \in Nodes :
                  /\ wal[n] = << >> /\ canonized_blocks_rx[n] = << >>
                  /\ replays_to_execute[n] = << >> /\ canonical[n] = << >>
                  /\ commands[n] = << >> /\ executing[n] = << >>
                  /\ executed[n] = << >>
    BY Zenon DEF Init
  <2>3. Init => FenceInv
    BY <2>2, ElemsEmpty, Zenon DEF FenceInv, OnlyCanonizedPersisted, CanonizedQueues,
       CanonizedReplays
  <2> QED
    BY <2>1, <2>3, Zenon DEF TypeInv
<1>2. TypeInv /\ FenceInv /\ [Next]_vars => TypeInv' /\ FenceInv'
  BY NextType, NextReplayUntil, NextFence, Zenon DEF TypeInv
<1>3. FenceInv => OnlyCanonizedPersisted
  BY Zenon DEF FenceInv
<1> QED
  BY <1>1, <1>2, <1>3, PTL DEF Spec


-----------------------------------------------------------------------------
(***************************************************************************)
(* The executor waits for the applier: a node never has two blocks between *)
(* the two, whatever the other nodes, raft and restarts do.                *)
(***************************************************************************)

Inv == TypeInv /\ FenceInv /\ FlightInv

\* Lengths and types of a node's queues.
LEMMA QueueTypes ==
  ASSUME TypeInv, NEW n \in Nodes
  PROVE  /\ executed[n] \in Seq(Payload) /\ proposing[n] \in Seq(Proposal)
         /\ produced_queue[n] \in Seq(Block) /\ canonical[n] \in Seq(Block)
         /\ Len(executed[n]) \in Nat /\ Len(proposing[n]) \in Nat
         /\ Len(produced_queue[n]) \in Nat /\ Len(canonical[n]) \in Nat
         /\ applied_block_number[n] \in Nat
         /\ last_block[n] \in Block \cup {NoBlock}
  BY DEF TypeInv, TypeOK, ExecutorType, CanonizerType, ApplierType, AtMostOne

\* A block in flight is last_block, and it is not genesis.
LEMMA InFlightBlock ==
  ASSUME Inv, NEW n \in Nodes, NEW b \in InFlightBlocks(n), InFlight(n) = 1
  PROVE  b = last_block[n] /\ b \in Block /\ Len(b) > 0
<1>1. b = last_block[n] /\ last_block[n] # NoBlock
  BY Zenon DEF Inv, FlightInv, InFlightIsLast
<1>2. last_block[n] \in Block /\ applied_block_number[n] \in Nat
  BY <1>1, QueueTypes, Zenon DEF Inv
<1>3. applied_block_number[n] < Len(last_block[n])
  BY Zenon DEF Inv, FlightInv, InFlightIsLast
<1> QED
  BY <1>1, <1>2, <1>3 DEF Block

\* A node whose pipeline does not move keeps its part of the invariant.
LEMMA FlightFrame ==
  ASSUME FlightInv, NEW n \in Nodes,
         executed'[n] = executed[n], proposing'[n] = proposing[n],
         produced_queue'[n] = produced_queue[n], canonical'[n] = canonical[n],
         last_block'[n] = last_block[n],
         applied_block_number'[n] = applied_block_number[n]
  PROVE  InFlightIsLast(n)' /\ AppliedUpToLast(n)'
  BY Zenon DEF FlightInv, InFlightIsLast, AppliedUpToLast, InFlight, InFlightBlocks

LEMMA GenesisFrame ==
  ASSUME FlightInv, NEW n \in Nodes,
         wal_cursor'[n] = wal_cursor[n], commands'[n] = commands[n],
         executing'[n] = executing[n], last_block'[n] = last_block[n]
  PROVE  GenesisFirst(n)'
  BY Zenon DEF FlightInv, GenesisFirst

LEMMA ProposedFrame ==
  ASSUME FlightInv, UNCHANGED <<log, tail>>
  PROVE  GenesisNotProposed'
  BY Zenon DEF FlightInv, GenesisNotProposed

\* A block that moves from one queue to the next stays the only one in flight.
LEMMA FlightMove ==
  ASSUME Inv, NEW n \in Nodes,
         InFlight(n)' = InFlight(n), InFlightBlocks(n)' \subseteq InFlightBlocks(n),
         last_block'[n] = last_block[n],
         applied_block_number'[n] = applied_block_number[n]
  PROVE  InFlightIsLast(n)' /\ AppliedUpToLast(n)'
  BY Zenon DEF Inv, FlightInv, InFlightIsLast, AppliedUpToLast

\* wait_for_block_applier: when it is over, nothing is in flight.
LEMMA CaughtUpEmpty ==
  ASSUME Inv, NEW n \in Nodes, CaughtUp(n)
  PROVE  /\ executed[n] = << >> /\ proposing[n] = << >>
         /\ produced_queue[n] = << >> /\ canonical[n] = << >>
<1>1. InFlight(n) # 1
  <2>1. SUFFICES ASSUME InFlight(n) = 1 PROVE FALSE
    BY Zenon
  <2>2. last_block[n] # NoBlock /\ applied_block_number[n] < Len(last_block[n])
    BY <2>1, Zenon DEF Inv, FlightInv, InFlightIsLast
  <2>3. last_block[n] \in Block /\ applied_block_number[n] \in Nat
    BY <2>2, QueueTypes, Zenon DEF Inv
  <2>4. Len(last_block[n]) \in Nat
    BY <2>3 DEF Block
  <2>5. applied_block_number[n] >= Len(last_block[n])
    BY <2>2, Zenon DEF CaughtUp
  <2> QED
    BY <2>2, <2>3, <2>4, <2>5
<1>2. /\ executed[n] \in Seq(Payload) /\ proposing[n] \in Seq(Proposal)
      /\ produced_queue[n] \in Seq(Block) /\ canonical[n] \in Seq(Block)
  BY QueueTypes, Zenon DEF Inv
<1>3. InFlight(n) <= 1
  BY Zenon DEF Inv, FlightInv, InFlightIsLast
<1> DEFINE i == Len(executed[n])
           j == Len(proposing[n])
           k == Len(produced_queue[n])
           l == Len(canonical[n])
<1>4. i \in Nat /\ j \in Nat /\ k \in Nat /\ l \in Nat
  BY QueueTypes, Zenon DEF Inv
<1>5. i + j + k + l # 1 /\ i + j + k + l <= 1
  BY <1>1, <1>3, Zenon DEF InFlight
<1>6. i = 0 /\ j = 0 /\ k = 0 /\ l = 0
  <2> HIDE DEF i, j, k, l
  <2> QED
    BY <1>4, <1>5
<1> QED
  BY <1>2, <1>6

\* A block sealed by the executor becomes the only one in flight.
LEMMA SealFlight ==
  ASSUME Inv, NEW n \in Nodes, CaughtUp(n), NEW type, NEW b \in Block, Len(b) > 0,
         Seal(n, type, b),
         last_block[n] # NoBlock => Len(b) = Len(last_block[n]) + 1,
         UNCHANGED <<proposing, produced_queue, canonical, applied_block_number>>
  PROVE  InFlightIsLast(n)' /\ AppliedUpToLast(n)'
<1> DEFINE e == [type |-> type, block |-> b]
<1>1. /\ executed[n] = << >> /\ proposing[n] = << >>
      /\ produced_queue[n] = << >> /\ canonical[n] = << >>
  BY CaughtUpEmpty, Zenon
<1>2. /\ executed'[n] = << e >> /\ proposing'[n] = << >>
      /\ produced_queue'[n] = << >> /\ canonical'[n] = << >>
      /\ last_block'[n] = b /\ applied_block_number'[n] = applied_block_number[n]
  BY <1>1 DEF Inv, TypeInv, TypeOK, ExecutorType, Seal
<1>3. applied_block_number[n] < Len(b) /\ applied_block_number[n] \in Nat
      /\ Len(b) \in Nat
  <2>1. applied_block_number[n] \in Nat /\ last_block[n] \in Block \cup {NoBlock}
    BY QueueTypes, Zenon DEF Inv
  <2>2. Len(b) \in Nat /\ (last_block[n] # NoBlock => Len(last_block[n]) \in Nat)
    BY <2>1 DEF Block
  <2>3. AppliedUpToLast(n)
    BY Zenon DEF Inv, FlightInv
  <2> QED
    BY <2>1, <2>2, <2>3 DEF AppliedUpToLast
<1>4. b # NoBlock
  BY NoBlockAssumption, Zenon DEF Block
<1>5. InFlight(n)' = 1
  BY <1>2 DEF InFlight
<1>6. InFlightBlocks(n)' = {b}
  <2>1. Elems(<< e >>) = {e}
    BY ElemsSingle, Zenon
  <2> QED
    BY <1>2, <2>1, ElemsEmpty DEF InFlightBlocks
<1>7. InFlightIsLast(n)'
  BY <1>2, <1>3, <1>4, <1>5, <1>6 DEF InFlightIsLast
<1>8. AppliedUpToLast(n)'
  BY <1>2, <1>3, <1>4 DEF AppliedUpToLast
<1> QED
  BY <1>7, <1>8, Zenon

LEMMA RestartFlight ==
  ASSUME Inv, NEW n \in Nodes, Restart(n)
  PROVE  FlightInv'
<1>1. GenesisNotProposed'
  BY ProposedFrame, Zenon DEF Inv, Restart
<1>2. /\ wal_cursor'[n] \in Nat /\ commands'[n] = << >> /\ executing'[n] = << >>
      /\ last_block'[n] = NoBlock /\ applied_block_number'[n] = 0
      /\ executed'[n] = << >> /\ proposing'[n] = << >>
      /\ produced_queue'[n] = << >> /\ canonical'[n] = << >>
  BY DEF Inv, TypeInv, TypeOK, SourceType, ExecutorType, CanonizerType, ApplierType,
     DurableType, AtMostMaxLog, Restart
<1>3. InFlightIsLast(n)' /\ AppliedUpToLast(n)' /\ GenesisFirst(n)'
  BY <1>2, ElemsEmpty DEF InFlightIsLast, AppliedUpToLast, GenesisFirst, InFlight,
     InFlightBlocks
<1>4. ASSUME NEW m \in Nodes, m # n
      PROVE  /\ wal_cursor'[m] = wal_cursor[m] /\ commands'[m] = commands[m]
             /\ executing'[m] = executing[m] /\ last_block'[m] = last_block[m]
             /\ applied_block_number'[m] = applied_block_number[m]
             /\ executed'[m] = executed[m] /\ proposing'[m] = proposing[m]
             /\ produced_queue'[m] = produced_queue[m] /\ canonical'[m] = canonical[m]
  BY <1>4 DEF Inv, TypeInv, TypeOK, SourceType, ExecutorType, CanonizerType,
     ApplierType, Restart
<1>5. \A m \in Nodes : m # n => InFlightIsLast(m)' /\ AppliedUpToLast(m)' /\ GenesisFirst(m)'
  BY <1>4, FlightFrame, GenesisFrame, Zenon DEF Inv
<1> QED
  BY <1>1, <1>3, <1>5, Zenon DEF FlightInv

\* What other nodes keep when node n moves.
PipelineKept(m) ==
    /\ executed'[m] = executed[m] /\ proposing'[m] = proposing[m]
    /\ produced_queue'[m] = produced_queue[m] /\ canonical'[m] = canonical[m]
    /\ last_block'[m] = last_block[m]
    /\ applied_block_number'[m] = applied_block_number[m]

SourceKept(m) ==
    /\ wal_cursor'[m] = wal_cursor[m] /\ commands'[m] = commands[m]
    /\ executing'[m] = executing[m] /\ last_block'[m] = last_block[m]

OthersKept(n) == \A m \in Nodes : m # n => PipelineKept(m) /\ SourceKept(m)

LEMMA NodeFlight ==
  ASSUME Inv, NEW n \in Nodes, OthersKept(n), GenesisNotProposed',
         InFlightIsLast(n)', AppliedUpToLast(n)', GenesisFirst(n)'
  PROVE  FlightInv'
<1>1. ASSUME NEW m \in Nodes, m # n
      PROVE  InFlightIsLast(m)' /\ AppliedUpToLast(m)' /\ GenesisFirst(m)'
  BY <1>1, FlightFrame, GenesisFrame, Zenon DEF Inv, OthersKept, PipelineKept, SourceKept
<1> QED
  BY <1>1, Zenon DEF FlightInv

\* A queue with a block in it holds the one block in flight.
LEMMA OnlyQueue ==
  ASSUME Inv, NEW n \in Nodes
  PROVE  /\ InFlight(n) = 1 \/ (executed[n] = << >> /\ proposing[n] = << >>
                                /\ produced_queue[n] = << >> /\ canonical[n] = << >>)
         /\ canonical[n] # << >> => /\ Len(canonical[n]) = 1 /\ executed[n] = << >>
                                    /\ proposing[n] = << >> /\ produced_queue[n] = << >>
<1> DEFINE i == Len(executed[n])
           j == Len(proposing[n])
           k == Len(produced_queue[n])
           l == Len(canonical[n])
<1>1. /\ executed[n] \in Seq(Payload) /\ proposing[n] \in Seq(Proposal)
      /\ produced_queue[n] \in Seq(Block) /\ canonical[n] \in Seq(Block)
  BY QueueTypes, Zenon DEF Inv
<1>2. i \in Nat /\ j \in Nat /\ k \in Nat /\ l \in Nat
  BY QueueTypes, Zenon DEF Inv
<1>3. i + j + k + l <= 1
  BY Zenon DEF Inv, FlightInv, InFlightIsLast, InFlight
<1>4. /\ i + j + k + l = 1 \/ (i = 0 /\ j = 0 /\ k = 0 /\ l = 0)
      /\ l # 0 => l = 1 /\ i = 0 /\ j = 0 /\ k = 0
  <2> HIDE DEF i, j, k, l
  <2> QED
    BY <1>2, <1>3
<1>5. InFlight(n) = i + j + k + l
  BY Zenon DEF InFlight
<1>6. /\ i = 0 => executed[n] = << >>
      /\ j = 0 => proposing[n] = << >>
      /\ k = 0 => produced_queue[n] = << >>
      /\ l = 0 => canonical[n] = << >>
  BY <1>1
<1>7. canonical[n] # << >> => l # 0
  BY <1>1
<1> HIDE DEF i, j, k, l
<1>8. /\ InFlight(n) = 1 \/ (executed[n] = << >> /\ proposing[n] = << >>
                             /\ produced_queue[n] = << >> /\ canonical[n] = << >>)
      /\ canonical[n] # << >> => /\ l = 1 /\ executed[n] = << >>
                                 /\ proposing[n] = << >> /\ produced_queue[n] = << >>
  BY <1>4, <1>5, <1>6, <1>7, Zenon
<1> QED
  BY <1>8, Zenon DEF l

\* A block that leaves one queue and enters another: the number stays the same.
LEMMA SameInFlight ==
  ASSUME Inv, NEW n \in Nodes,
         \/ /\ Len(executed'[n]) = Len(executed[n]) - 1
            /\ Len(proposing'[n]) = Len(proposing[n]) + 1
            /\ UNCHANGED <<produced_queue, canonical>>
         \/ /\ Len(executed'[n]) = Len(executed[n]) - 1
            /\ Len(canonical'[n]) = Len(canonical[n]) + 1
            /\ UNCHANGED <<proposing, produced_queue>>
         \/ /\ Len(proposing'[n]) = Len(proposing[n]) - 1
            /\ Len(produced_queue'[n]) = Len(produced_queue[n]) + 1
            /\ UNCHANGED <<executed, canonical>>
         \/ /\ Len(produced_queue'[n]) = Len(produced_queue[n]) - 1
            /\ Len(canonical'[n]) = Len(canonical[n]) + 1
            /\ UNCHANGED <<executed, proposing>>
  PROVE  InFlight(n)' = InFlight(n)
<1> DEFINE i == Len(executed[n])
           j == Len(proposing[n])
           k == Len(produced_queue[n])
           l == Len(canonical[n])
<1>1. i \in Nat /\ j \in Nat /\ k \in Nat /\ l \in Nat
  BY QueueTypes, Zenon DEF Inv
<1>2. InFlight(n) = i + j + k + l /\ InFlight(n)' = i' + j' + k' + l'
  BY Zenon DEF InFlight
<1>3. \/ i' = i - 1 /\ j' = j + 1 /\ k' = k /\ l' = l
      \/ i' = i - 1 /\ j' = j /\ k' = k /\ l' = l + 1
      \/ i' = i /\ j' = j - 1 /\ k' = k + 1 /\ l' = l
      \/ i' = i /\ j' = j /\ k' = k - 1 /\ l' = l + 1
  BY Zenon
<1> HIDE DEF i, j, k, l
<1>4. i' + j' + k' + l' = i + j + k + l
  BY <1>1, <1>3
<1> QED
  BY <1>2, <1>4, Zenon

LEMMA OnlyElement ==
  ASSUME NEW S, NEW s \in AtMostOne(S), s # << >>
  PROVE  Len(s) = 1 /\ s[1] \in S /\ s[1] \in Elems(s)
<1>1. s \in Seq(S) /\ Len(s) <= 1
  BY Zenon DEF AtMostOne
<1>2. Len(s) = 1
  <2> DEFINE k == Len(s)
  <2>1. k # 0 /\ k \in Nat /\ k <= 1
    BY <1>1
  <2> HIDE DEF k
  <2>2. k = 1
    BY <2>1
  <2> QED
    BY <2>2, Zenon DEF k
<1>3. s[1] \in S
  BY <1>1, <1>2
<1> QED
  BY <1>2, <1>3 DEF Elems

\* Steps that leave the pipelines, the commands and the raft log alone.
LEMMA FlightUnchanged ==
  ASSUME FlightInv,
         UNCHANGED <<log, tail, executed, proposing, produced_queue, canonical,
                     last_block, applied_block_number, wal_cursor, commands, executing>>
  PROVE  FlightInv'
  BY FlightFrame, GenesisFrame, ProposedFrame, Zenon DEF FlightInv

\* The steps of the source: genesis is forwarded first or not at all.
LEMMA SourceFlight ==
  ASSUME Inv, NEW n \in Nodes, CommandSource(n)
  PROVE  FlightInv'
<1>1. /\ UNCHANGED <<log, tail, executed, proposing, produced_queue, canonical,
                     last_block, applied_block_number, executing>>
      /\ \A m \in Nodes : m # n => /\ commands'[m] = commands[m]
                                   /\ wal_cursor'[m] = wal_cursor[m]
  BY Zenon DEF Inv, TypeInv, TypeOK, SourceType, CommandSource, ForwardWalReplay,
     ForwardReplay, SendProduce, SendCommand, raftVars, executorVars, canonizerVars,
     applierVars
<1>2. /\ wal_cursor[n] \in Nat /\ replay_until[n] \in Nat /\ wal[n] \in Seq(Block)
      /\ replay_until[n] <= Len(wal[n]) /\ replays_to_execute[n] \in Seq(Block)
  BY Zenon DEF Inv, TypeInv, TypeOK, SourceType, DurableType, AtMostMaxLog, ReplayUntilInWal
<1>3. Genesis \notin Elems(log) /\ GenesisFirst(n)
  BY Zenon DEF Inv, FlightInv, GenesisNotProposed
<1>4. wal_cursor'[n] # 0
  BY <1>2 DEF Inv, TypeInv, TypeOK, SourceType, CommandSource, ForwardWalReplay,
     ForwardReplay, SendProduce, ReplayingWal
<1>5. Replay(Genesis) \in Elems(commands'[n]) => executing[n] = << >> /\ last_block[n] = NoBlock
  <2>1. CASE ForwardWalReplay(n)
    <3>1. Elems(commands'[n]) = {Replay(WalBlock(n, wal_cursor[n]))}
      BY <2>1 DEF Inv, TypeInv, TypeOK, SourceType, ForwardWalReplay, SendCommand, Elems
    <3>2. wal_cursor[n] # 0 => wal[n][wal_cursor[n]] \in Elems(wal[n])
      BY <1>2, <2>1 DEF ForwardWalReplay, ReplayingWal, Elems
    <3>3. wal_cursor[n] # 0 => WalBlock(n, wal_cursor[n]) # Genesis
      BY <1>3, <3>2, Zenon DEF WalBlock, Inv, FenceInv, OnlyCanonizedPersisted
    <3>4. Replay(Genesis) \in Elems(commands'[n]) => wal_cursor[n] = 0
      BY <3>1, <3>3, Zenon DEF Replay
    <3> QED
      BY <1>3, <3>4, Zenon DEF GenesisFirst
  <2>2. CASE ForwardReplay(n)
    <3>1. Elems(commands'[n]) = {Replay(Head(replays_to_execute[n]))}
      BY <2>2 DEF Inv, TypeInv, TypeOK, SourceType, ForwardReplay, SendCommand, Elems
    <3>2. Head(replays_to_execute[n]) \in Elems(replays_to_execute[n])
      BY <1>2, <2>2, ElemsHead, Zenon DEF ForwardReplay
    <3>3. Head(replays_to_execute[n]) # Genesis
      BY <1>3, <3>2, Zenon DEF Inv, FenceInv, CanonizedQueues
    <3> QED
      BY <3>1, <3>3, Zenon DEF Replay
  <2>3. CASE SendProduce(n)
    <3>1. Elems(commands'[n]) = {Produce}
      BY <2>3 DEF Inv, TypeInv, TypeOK, SourceType, SendProduce, SendCommand, Elems
    <3> QED
      BY <3>1, Zenon DEF Replay, Produce
  <2> QED
    BY <2>1, <2>2, <2>3, Zenon DEF CommandSource
<1>6. GenesisFirst(n)'
  BY <1>1, <1>3, <1>4, <1>5, Zenon DEF GenesisFirst
<1>7. InFlightIsLast(n)' /\ AppliedUpToLast(n)' /\ GenesisNotProposed'
  BY <1>1, FlightFrame, ProposedFrame, Zenon DEF Inv
<1>8. OthersKept(n)
  BY <1>1, Zenon DEF OthersKept, PipelineKept, SourceKept
<1> QED
  BY <1>6, <1>7, <1>8, NodeFlight, Zenon

LEMMA NextBlock ==
  ASSUME NEW b \in Block, NEW p \in Payloads, Len(b) < MaxLog
  PROVE  /\ Append(b, p) \in Block /\ Len(Append(b, p)) = Len(b) + 1
         /\ Len(Append(b, p)) > 0
<1>1. b \in Seq(Payloads)
  BY Zenon DEF Block
<1>2. /\ Append(b, p) \in Seq(Payloads) /\ Len(Append(b, p)) = Len(b) + 1
      /\ Len(b) \in Nat
  BY <1>1
<1>3. Len(Append(b, p)) <= MaxLog /\ Len(Append(b, p)) > 0
  BY <1>2, MaxLogAssumption
<1> QED
  BY <1>2, <1>3, Zenon DEF Block

\* The steps of the executor: it builds on a pipeline that is empty.
LEMMA ExecutorFlight ==
  ASSUME Inv, NEW n \in Nodes,
         ReceiveCommand(n) \/ ExecuteProduce(n) \/ ReplayGenesis(n) \/ ExecuteReplay(n)
  PROVE  FlightInv'
<1>1. /\ UNCHANGED <<log, tail, proposing, produced_queue, canonical,
                     applied_block_number, wal_cursor>>
      /\ \A m \in Nodes : m # n => /\ commands'[m] = commands[m]
                                   /\ executing'[m] = executing[m]
                                   /\ last_block'[m] = last_block[m]
                                   /\ executed'[m] = executed[m]
  <2>1. CASE ReceiveCommand(n)
    BY <2>1, Zenon DEF Inv, TypeInv, TypeOK, SourceType, ExecutorType, ReceiveCommand,
       raftVars, canonizerVars, applierVars
  <2>2. CASE ExecuteProduce(n)
    BY <2>2, Zenon DEF Inv, TypeInv, TypeOK, ExecutorType, ExecuteProduce, Seal, raftVars,
       sourceVars, canonizerVars, applierVars
  <2>3. CASE ReplayGenesis(n)
    BY <2>3, Zenon DEF Inv, TypeInv, TypeOK, ExecutorType, ReplayGenesis, raftVars,
       sourceVars, canonizerVars, applierVars
  <2>4. CASE ExecuteReplay(n)
    BY <2>4, Zenon DEF Inv, TypeInv, TypeOK, ExecutorType, ExecuteReplay, Seal, raftVars,
       sourceVars, canonizerVars, applierVars
  <2> QED
    BY <2>1, <2>2, <2>3, <2>4, Zenon
<1>2. OthersKept(n) /\ GenesisNotProposed'
  BY <1>1, ProposedFrame, Zenon DEF Inv, OthersKept, PipelineKept, SourceKept
<1>3. GenesisFirst(n) /\ InFlightIsLast(n) /\ AppliedUpToLast(n)
  BY Zenon DEF Inv, FlightInv
<1>4. /\ commands[n] \in Seq(Command) /\ Len(commands[n]) <= 1
      /\ executing[n] \in Seq(Command) /\ Len(executing[n]) <= 1
  BY Zenon DEF Inv, TypeInv, TypeOK, SourceType, ExecutorType, AtMostOne
<1>5. ASSUME executing[n] # << >>, commands'[n] = commands[n], executing'[n] = << >>
      PROVE  GenesisFirst(n)'
  BY <1>1, <1>3, <1>5, ElemsEmpty, Zenon DEF GenesisFirst
<1>6. CASE ReceiveCommand(n)
  <2>1. /\ commands[n] # << >> /\ executing'[n] = << Head(commands[n]) >>
        /\ commands'[n] = Tail(commands[n]) /\ UNCHANGED <<last_block, executed>>
    BY <1>6, Zenon DEF Inv, TypeInv, TypeOK, SourceType, ExecutorType, ReceiveCommand
  <2>2. commands'[n] = << >>
    BY <1>4, <2>1
  <2>3. Elems(executing'[n]) = {Head(commands[n])} /\ Head(commands[n]) \in Elems(commands[n])
    BY <1>4, <2>1, ElemsSingle, ElemsHead, Zenon
  <2>4. GenesisFirst(n)'
    BY <1>1, <1>3, <2>1, <2>2, <2>3, ElemsEmpty, Zenon DEF GenesisFirst
  <2>5. InFlightIsLast(n)' /\ AppliedUpToLast(n)'
    BY <1>1, <2>1, FlightFrame, Zenon DEF Inv
  <2> QED
    BY <1>2, <2>4, <2>5, NodeFlight, Zenon
<1>7. CASE ExecuteProduce(n)
  <2>1. PICK p \in Payloads : Seal(n, "Produce", Append(last_block[n], p))
    BY <1>7, Zenon DEF ExecuteProduce
  <2>2. /\ CaughtUp(n) /\ executing[n] # << >> /\ last_block[n] # NoBlock
        /\ last_block[n] \in Block /\ Len(last_block[n]) < MaxLog
        /\ commands'[n] = commands[n]
    BY <1>7, Zenon DEF ExecuteProduce, HasCommand, Inv, TypeInv, TypeOK, ExecutorType, sourceVars
  <2>3. /\ Append(last_block[n], p) \in Block
        /\ Len(Append(last_block[n], p)) = Len(last_block[n]) + 1
        /\ Len(Append(last_block[n], p)) > 0
    BY <2>2, NextBlock, Zenon
  <2>4. InFlightIsLast(n)' /\ AppliedUpToLast(n)'
    BY <1>1, <2>1, <2>2, <2>3, SealFlight, Zenon
  <2>5. executing'[n] = << >>
    BY <2>1, Zenon DEF Seal, Inv, TypeInv, TypeOK, ExecutorType
  <2> QED
    BY <1>2, <1>5, <2>2, <2>4, <2>5, NodeFlight, Zenon
<1>8. CASE ExecuteReplay(n)
  <2> DEFINE b == executing[n][1].block
  <2>1. /\ CaughtUp(n) /\ executing[n] # << >> /\ b # Genesis
        /\ MayReplayOn(last_block[n], b) /\ Seal(n, "Replay", b)
        /\ commands'[n] = commands[n]
    BY <1>8, Zenon DEF ExecuteReplay, HasCommand, sourceVars
  <2>2. b \in Block
    <3>1. executing[n][1] \in Command
      BY <1>4, <2>1
    <3> QED
      BY <3>1, Zenon DEF Command
  <2>3. executing'[n] = << >>
    BY <2>1, Zenon DEF Seal, Inv, TypeInv, TypeOK, ExecutorType
  <2> HIDE DEF b
  <2>4. Len(b) > 0
    BY <2>1, <2>2 DEF Block, Genesis
  <2>5. last_block[n] # NoBlock => Len(b) = Len(last_block[n]) + 1
    BY <2>1, Zenon DEF MayReplayOn
  <2>6. InFlightIsLast(n)' /\ AppliedUpToLast(n)'
    BY <1>1, <2>1, <2>2, <2>4, <2>5, SealFlight, Zenon
  <2> QED
    BY <1>2, <1>5, <2>1, <2>3, <2>6, NodeFlight, Zenon
<1>9. CASE ReplayGenesis(n)
  <2>1. /\ CaughtUp(n) /\ executing[n] # << >> /\ executing[n][1].type = "Replay"
        /\ executing[n][1].block = Genesis /\ executed' = executed
        /\ commands'[n] = commands[n] /\ last_block'[n] = Genesis /\ executing'[n] = << >>
    BY <1>9, Zenon DEF ReplayGenesis, HasCommand, sourceVars, Inv, TypeInv, TypeOK, ExecutorType
  <2>2. executing[n][1] \in Command /\ executing[n][1] \in Elems(executing[n])
    BY <1>4, <2>1 DEF Elems
  <2>3. executing[n][1] = Replay(Genesis)
    BY <2>1, <2>2, Zenon DEF Command, Replay
  <2>4. last_block[n] = NoBlock
    BY <1>3, <2>2, <2>3, Zenon DEF GenesisFirst
  <2>5. applied_block_number'[n] = 0
    BY <1>1, <1>3, <2>4, Zenon DEF AppliedUpToLast
  <2>6. /\ executed'[n] = << >> /\ proposing'[n] = << >>
        /\ produced_queue'[n] = << >> /\ canonical'[n] = << >>
    BY <1>1, <2>1, CaughtUpEmpty, Zenon
  <2>7. InFlightIsLast(n)'
    BY <2>6, ElemsEmpty DEF InFlightIsLast, InFlight, InFlightBlocks
  <2>8. AppliedUpToLast(n)'
    BY <2>1, <2>5 DEF AppliedUpToLast, Genesis
  <2> QED
    BY <1>2, <1>5, <2>1, <2>7, <2>8, NodeFlight, Zenon
<1> QED
  BY <1>6, <1>7, <1>8, <1>9, Zenon

LEMMA LenTail ==
  ASSUME NEW S, NEW s \in Seq(S), s # << >>
  PROVE  Len(Tail(s)) = Len(s) - 1
  OBVIOUS

LEMMA TailOfOne ==
  ASSUME NEW S, NEW s \in Seq(S), s # << >>, Len(s) = 1
  PROVE  Tail(s) = << >>
<1>1. Tail(s) \in Seq(S) /\ Len(Tail(s)) = 0
  BY LenTail
<1>2. \A t \in Seq(S) : Len(t) = 0 => t = << >>
  OBVIOUS
<1> QED
  BY <1>1, <1>2, Zenon

LEMMA LenAppend ==
  ASSUME NEW S, NEW s \in Seq(S), NEW e \in S
  PROVE  Len(Append(s, e)) = Len(s) + 1
  OBVIOUS

\* The steps of the canonizer: a block moves from one queue to the next.
LEMMA CanonizerFlight ==
  ASSUME Inv, NEW n \in Nodes,
         MatchCanonized(n) \/ PassReplay(n) \/ ProposeBlock(n) \/ ProposeReturns(n)
  PROVE  FlightInv'
<1>1. /\ executed[n] \in Seq(Payload) /\ proposing[n] \in AtMostOne(Proposal)
      /\ produced_queue[n] \in Seq(Block) /\ canonical[n] \in Seq(Block)
  BY Zenon DEF Inv, TypeInv, TypeOK, ExecutorType, CanonizerType, ApplierType
<1>2. UNCHANGED <<wal_cursor, commands, executing, last_block, applied_block_number, log>>
  BY Zenon DEF MatchCanonized, PassReplay, ProposeBlock, ProposeReturns, raftVars, sourceVars,
     executorVars, applierVars
<1>3. GenesisFirst(n)'
  BY <1>2, GenesisFrame, Zenon DEF Inv
<1>4. OthersKept(n)
  <2>1. \A m \in Nodes : m # n => /\ executed'[m] = executed[m]
                                  /\ proposing'[m] = proposing[m]
                                  /\ produced_queue'[m] = produced_queue[m]
                                  /\ canonical'[m] = canonical[m]
    <3>1. CASE MatchCanonized(n)
      BY <3>1, Zenon DEF Inv, TypeInv, TypeOK, CanonizerType, ApplierType, MatchCanonized,
         SendToApplier, executorVars
    <3>2. CASE PassReplay(n)
      BY <3>2, Zenon DEF Inv, TypeInv, TypeOK, ExecutorType, ApplierType, PassReplay,
         SendToApplier, canonizerVars
    <3>3. CASE ProposeBlock(n)
      BY <3>3, Zenon DEF Inv, TypeInv, TypeOK, ExecutorType, CanonizerType, ProposeBlock,
         applierVars
    <3>4. CASE ProposeReturns(n)
      BY <3>4, Zenon DEF Inv, TypeInv, TypeOK, CanonizerType, ProposeReturns, executorVars,
         applierVars
    <3> QED
      BY <3>1, <3>2, <3>3, <3>4, Zenon
  <2> QED
    BY <1>2, <2>1, Zenon DEF OthersKept, PipelineKept, SourceKept
<1>5. CASE MatchCanonized(n)
  <2> DEFINE b == Head(produced_queue[n])
  <2>1. /\ produced_queue[n] # << >> /\ UNCHANGED <<executed, proposing, tail>>
        /\ produced_queue'[n] = Tail(produced_queue[n])
        /\ canonical'[n] = Append(canonical[n], b)
    BY <1>5, Zenon DEF Inv, TypeInv, TypeOK, CanonizerType, ApplierType, MatchCanonized,
       SendToApplier, executorVars, raftVars
  <2>2. /\ b \in Elems(produced_queue[n]) /\ b \in Block
        /\ Elems(Tail(produced_queue[n])) \subseteq Elems(produced_queue[n])
    BY <1>1, <2>1, ElemsHead, ElemsTail, Zenon
  <2>3. Elems(canonical'[n]) = Elems(canonical[n]) \cup {b}
    BY <1>1, <2>1, <2>2, ElemsAppend
  <2>4. InFlightBlocks(n)' \subseteq InFlightBlocks(n)
    BY <2>1, <2>2, <2>3, Zenon DEF InFlightBlocks
  <2>5. /\ Len(produced_queue'[n]) = Len(produced_queue[n]) - 1
        /\ Len(canonical'[n]) = Len(canonical[n]) + 1
    BY <1>1, <2>1, <2>2, LenTail, LenAppend
  <2>7. InFlight(n)' = InFlight(n)
    BY <2>1, <2>5, SameInFlight, Zenon
  <2> QED
    BY <1>2, <1>3, <1>4, <2>1, <2>4, <2>7, FlightMove, ProposedFrame, NodeFlight, Zenon DEF Inv
<1>6. CASE PassReplay(n)
  <2> DEFINE e == Head(executed[n])
  <2>1. /\ executed[n] # << >> /\ UNCHANGED <<produced_queue, proposing, tail>>
        /\ executed'[n] = Tail(executed[n])
        /\ canonical'[n] = Append(canonical[n], e.block)
    BY <1>6, Zenon DEF Inv, TypeInv, TypeOK, ExecutorType, ApplierType, PassReplay,
       CanReceiveExecuted, SendToApplier, canonizerVars, raftVars
  <2>2. /\ e \in Elems(executed[n]) /\ e.block \in Block
        /\ Elems(Tail(executed[n])) \subseteq Elems(executed[n])
    <3>1. e \in Payload /\ e \in Elems(executed[n])
      BY <1>1, <2>1, ElemsHead, Zenon
    <3>2. e.block \in Block
      BY <3>1, Zenon DEF Payload
    <3> QED
      BY <1>1, <2>1, <3>1, <3>2, ElemsTail, Zenon
  <2>3. Elems(canonical'[n]) = Elems(canonical[n]) \cup {e.block}
    BY <1>1, <2>1, <2>2, ElemsAppend
  <2>4. InFlightBlocks(n)' \subseteq InFlightBlocks(n)
    BY <2>1, <2>2, <2>3, Zenon DEF InFlightBlocks
  <2>5. /\ Len(executed'[n]) = Len(executed[n]) - 1
        /\ Len(canonical'[n]) = Len(canonical[n]) + 1
    BY <1>1, <2>1, <2>2, LenTail, LenAppend
  <2>7. InFlight(n)' = InFlight(n)
    BY <2>1, <2>5, SameInFlight, Zenon
  <2> QED
    BY <1>2, <1>3, <1>4, <2>1, <2>4, <2>7, FlightMove, ProposedFrame, NodeFlight, Zenon DEF Inv
<1>7. CASE ProposeReturns(n)
  <2> DEFINE p == proposing[n][1]
  <2>1. /\ proposing[n] # << >> /\ UNCHANGED <<executed, canonical, tail>>
        /\ produced_queue'[n] = Append(produced_queue[n], p.block)
        /\ proposing'[n] = << >>
    BY <1>7, Zenon DEF Inv, TypeInv, TypeOK, CanonizerType, ProposeReturns, executorVars,
       applierVars, raftVars
  <2>2. p \in Elems(proposing[n]) /\ p \in Proposal /\ Len(proposing[n]) = 1
    BY <1>1, <2>1, OnlyElement, Zenon
  <2>3. p.block \in Block
    BY <2>2, Zenon DEF Proposal
  <2> HIDE DEF p
  <2>4. Elems(produced_queue'[n]) = Elems(produced_queue[n]) \cup {p.block}
    BY <1>1, <2>1, <2>3, ElemsAppend
  <2>5. InFlightBlocks(n)' \subseteq InFlightBlocks(n)
    BY <2>1, <2>2, <2>4, ElemsEmpty, Zenon DEF InFlightBlocks
  <2>6. /\ Len(proposing'[n]) = Len(proposing[n]) - 1
        /\ Len(produced_queue'[n]) = Len(produced_queue[n]) + 1
    BY <1>1, <2>1, <2>2, <2>3, LenAppend
  <2>8. InFlight(n)' = InFlight(n)
    BY <2>1, <2>6, SameInFlight, Zenon
  <2> QED
    BY <1>2, <1>3, <1>4, <2>1, <2>5, <2>8, FlightMove, ProposedFrame, NodeFlight, Zenon DEF Inv
<1>8. CASE ProposeBlock(n)
  <2> DEFINE e == Head(executed[n])
             p == [block |-> e.block, index |-> Len(log) + 1, term |-> term]
  <2>1. /\ executed[n] # << >> /\ proposing[n] = << >> /\ tail' = << e.block >>
        /\ UNCHANGED <<produced_queue, canonical>>
        /\ executed'[n] = Tail(executed[n]) /\ proposing'[n] = << p >>
    BY <1>8, Zenon DEF Inv, TypeInv, TypeOK, ExecutorType, CanonizerType, ProposeBlock,
       CanReceiveExecuted, Selecting, applierVars
  <2>2. /\ e \in Elems(executed[n])
        /\ Elems(Tail(executed[n])) \subseteq Elems(executed[n])
    BY <1>1, <2>1, ElemsHead, ElemsTail, Zenon
  <2>3. Elems(proposing'[n]) = {p} /\ p.block = e.block
    BY <2>1, ElemsSingle, Zenon
  <2> HIDE DEF p
  <2>4. InFlightBlocks(n)' \subseteq InFlightBlocks(n)
    BY <2>1, <2>2, <2>3, Zenon DEF InFlightBlocks
  <2>5. /\ Len(executed'[n]) = Len(executed[n]) - 1
        /\ Len(proposing'[n]) = Len(proposing[n]) + 1
    BY <1>1, <2>1, LenTail
  <2>7. InFlight(n)' = InFlight(n)
    BY <2>1, <2>5, SameInFlight, Zenon
  <2>8. e.block # Genesis
    <3>1. InFlight(n) = 1 /\ e.block \in InFlightBlocks(n)
      BY <2>1, <2>2, OnlyQueue, Zenon DEF InFlightBlocks
    <3>2. e.block \in Block /\ Len(e.block) > 0
      BY <3>1, InFlightBlock, Zenon
    <3> QED
      BY <3>2 DEF Genesis, Block
  <2>9. GenesisNotProposed'
    BY <1>2, <2>1, <2>8, ElemsSingle DEF Inv, FlightInv, GenesisNotProposed
  <2> QED
    BY <1>2, <1>3, <1>4, <2>4, <2>7, <2>9, FlightMove, NodeFlight, Zenon
<1> QED
  BY <1>5, <1>6, <1>7, <1>8, Zenon

\* The applier: once it is done with the block in flight, nothing is in flight.
LEMMA ApplierFlight ==
  ASSUME Inv, NEW n \in Nodes, ApplyBlock(n)
  PROVE  FlightInv'
<1> DEFINE b == Head(canonical[n])
<1>1. /\ canonical[n] # << >> /\ canonical'[n] = Tail(canonical[n])
      /\ applied_block_number'[n] = Len(b)
      /\ UNCHANGED <<log, tail, executed, proposing, produced_queue, last_block,
                     wal_cursor, commands, executing>>
      /\ \A m \in Nodes : m # n => /\ canonical'[m] = canonical[m]
                                   /\ applied_block_number'[m] = applied_block_number[m]
  BY Zenon DEF Inv, TypeInv, TypeOK, ApplierType, ApplyBlock, raftVars, sourceVars,
     executorVars, canonizerVars
<1>2. canonical[n] \in Seq(Block)
  BY QueueTypes, Zenon DEF Inv
<1>3. InFlight(n) = 1 /\ Len(canonical[n]) = 1
  BY <1>1, OnlyQueue, Zenon
<1>4. /\ executed'[n] = << >> /\ proposing'[n] = << >>
      /\ produced_queue'[n] = << >>
  BY <1>1, OnlyQueue, Zenon
<1>5. canonical'[n] = << >>
  BY <1>1, <1>2, <1>3, TailOfOne, Zenon
<1>6. b \in InFlightBlocks(n)
  BY <1>1, <1>2, ElemsHead, Zenon DEF InFlightBlocks
<1>7. b = last_block[n] /\ b \in Block
  BY <1>3, <1>6, InFlightBlock, Zenon
<1>8. InFlightIsLast(n)'
  BY <1>4, <1>5, ElemsEmpty DEF InFlightIsLast, InFlight, InFlightBlocks
<1>9. AppliedUpToLast(n)'
  <2>1. /\ last_block'[n] = b /\ b # NoBlock /\ Len(b) \in Nat
        /\ applied_block_number'[n] = Len(b)
    BY <1>1, <1>7, NoBlockAssumption DEF Block
  <2> HIDE DEF b
  <2> QED
    BY <2>1 DEF AppliedUpToLast
<1>10. GenesisFirst(n)' /\ GenesisNotProposed'
  BY <1>1, GenesisFrame, ProposedFrame, Zenon DEF Inv
<1>11. OthersKept(n)
  BY <1>1, Zenon DEF OthersKept, PipelineKept, SourceKept
<1> QED
  BY <1>8, <1>9, <1>10, <1>11, NodeFlight, Zenon

LEMMA ElemsOfConcat ==
  ASSUME NEW S, NEW s \in Seq(S), NEW t \in Seq(S)
  PROVE  Elems(s \o t) \subseteq Elems(s) \cup Elems(t)
  BY DEF Elems

LEMMA NextFlight == Inv /\ [Next]_vars => FlightInv'
<1> SUFFICES ASSUME Inv, [Next]_vars PROVE FlightInv'
  BY Zenon
<1>1. CASE Establish \/ Commit
  <2>1. log \in Seq(Block) /\ tail \in Seq(Block)
    BY Zenon DEF Inv, TypeInv, TypeOK, RaftType, AtMostOne
  <2>2. /\ log' = log \o tail \/ log' = log
        /\ tail' = << >>
        /\ UNCHANGED <<executed, proposing, produced_queue, canonical, last_block,
                       applied_block_number, wal_cursor, commands, executing>>
    BY <1>1, Zenon DEF Establish, Commit, sourceVars, executorVars, canonizerVars, applierVars
  <2>3. GenesisNotProposed'
    BY <2>1, <2>2, ElemsOfConcat, ElemsEmpty, Zenon DEF Inv, FlightInv, GenesisNotProposed
  <2> QED
    BY <2>2, <2>3, FlightFrame, GenesisFrame, Zenon DEF Inv, FlightInv
<1>2. ASSUME NEW n \in Nodes, Elect(n) PROVE FlightInv'
  BY <1>2, FlightUnchanged, Zenon DEF Inv, Elect, sourceVars, executorVars, canonizerVars,
     applierVars
<1>3. ASSUME NEW n \in Nodes, ConfirmLeader(n) PROVE FlightInv'
  BY <1>3, FlightUnchanged, Zenon DEF Inv, ConfirmLeader, raftVars, executorVars,
     canonizerVars, applierVars
<1>4. ASSUME NEW n \in Nodes, Apply(n) PROVE FlightInv'
  BY <1>4, FlightUnchanged, Zenon DEF Inv, Apply, raftVars, sourceVars, executorVars,
     applierVars
<1>5. ASSUME NEW n \in Nodes, ForwardCanonized(n) PROVE FlightInv'
  BY <1>5, FlightUnchanged, Zenon DEF Inv, ForwardCanonized, raftVars, executorVars, applierVars
<1>6. ASSUME NEW n \in Nodes, Restart(n) PROVE FlightInv'
  BY <1>6, RestartFlight, Zenon
<1>7. CASE UNCHANGED vars
  BY <1>7, FlightUnchanged, Zenon DEF Inv, vars, raftVars, sourceVars, executorVars,
     canonizerVars, applierVars
<1> QED
  BY <1>1, <1>2, <1>3, <1>4, <1>5, <1>6, <1>7, SourceFlight, ExecutorFlight,
     CanonizerFlight, ApplierFlight, Zenon DEF Next, Openraft, NodeStep, StateMachine,
     LeadershipMonitor, BlockExecutor, BlockCanonizer, BlockApplier,
     Crash, Exit, LoseLeadership, RefuseReplay,
     MismatchCanonized, ProposeOnReplica, ProposeFails

LEMMA InitInv == Init => Inv
<1>1. Init => TypeInv
  BY InitType DEF Init, ReplayUntilInWal, TypeInv
<1>2. Init => \A n \in Nodes :
                /\ wal[n] = << >> /\ canonized_blocks_rx[n] = << >>
                /\ replays_to_execute[n] = << >> /\ canonical[n] = << >>
                /\ commands[n] = << >> /\ executing[n] = << >>
                /\ executed[n] = << >> /\ proposing[n] = << >>
                /\ produced_queue[n] = << >> /\ last_block[n] = NoBlock
                /\ applied_block_number[n] = 0
  BY Zenon DEF Init
<1>3. Init => FenceInv
  BY <1>2, ElemsEmpty, Zenon DEF FenceInv, OnlyCanonizedPersisted, CanonizedQueues,
     CanonizedReplays
<1>4. Init => GenesisNotProposed
  BY ElemsEmpty, Zenon DEF Init, GenesisNotProposed
<1>5. Init => FlightInv
  <2> SUFFICES ASSUME Init, NEW n \in Nodes
               PROVE  InFlightIsLast(n) /\ AppliedUpToLast(n) /\ GenesisFirst(n)
    BY <1>4, Zenon DEF FlightInv
  <2>1. InFlight(n) = 0
    <3>1. /\ Len(executed[n]) = 0 /\ Len(proposing[n]) = 0
          /\ Len(produced_queue[n]) = 0 /\ Len(canonical[n]) = 0
      BY <1>2
    <3>2. InFlight(n) = 0 + 0 + 0 + 0
      BY <3>1, Zenon DEF InFlight
    <3> QED
      BY <3>2
  <2>2. InFlightBlocks(n) = {}
    BY <1>2, ElemsEmpty, Zenon DEF InFlightBlocks
  <2> QED
    BY <1>2, <2>1, <2>2, ElemsEmpty DEF InFlightIsLast, AppliedUpToLast, GenesisFirst
<1> QED
  BY <1>1, <1>3, <1>5, Zenon DEF Inv

LEMMA NextInv == Inv /\ [Next]_vars => Inv'
  BY NextType, NextReplayUntil, NextFence, NextFlight, Zenon DEF Inv, TypeInv

\* wait_for_block_applier paces the pipeline: a node never has more than one
\* block between its executor and its applier.
THEOREM OneBlockPipeline == Spec => []OneBlockInFlight
<1>1. Inv => OneBlockInFlight
  BY Zenon DEF Inv, FlightInv, InFlightIsLast, OneBlockInFlight
<1> QED
  BY <1>1, InitInv, NextInv, PTL DEF Spec

=============================================================================
