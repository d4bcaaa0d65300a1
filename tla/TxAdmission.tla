---------------------------- MODULE TxAdmission ----------------------------
(***************************************************************************)
(* How a raw transaction enters the chain through RPC: eth_sendRaw-        *)
(* Transaction and eth_sendRawTransactionSync (lib/rpc/src/tx_handler.rs), *)
(* the forwarding of an accepted transaction to the consensus leader       *)
(* (lib/rpc/src/tx_forwarder.rs) and the executed-gas rate limiter in      *)
(* front of the L2 subpool (lib/mempool/.../rate_limited_l2.rs).           *)
(*                                                                         *)
(* The model follows ONE transaction through the pools of several nodes.   *)
(* A call is a record of taReq; a forwarded call is a call of its own on   *)
(* the leader, with the forwarding call as its parent.  What a node thinks *)
(* of the leadership (a watch channel) may lag behind who really builds.   *)
(***************************************************************************)
EXTENDS Integers, FiniteSets

CONSTANTS
  TaNodes,        \* consensus nodes, each with its own pool and RPC server
  TaFirstLeader,  \* the node that leads at first
  TaMaxCalls,     \* bound: calls, the forwarded ones included
  TaMaxClient,    \* bound: calls made by clients
  TaMaxMoves,     \* bound: changes of the leader
  TaMaxRejects,   \* bound: times execution rejects the transaction
  TaLimited,      \* nodes with the executed-gas rate limiter configured
  TaMaxCredit, TaReopenCredit, TaDeficit, TaRate, TaBlockGas  \* its configuration

VARIABLES
  taReq,      \* the calls, in the order they were made
  taPool,     \* nodes whose L2 pool holds the transaction
  taLeader,   \* the node that builds blocks
  taStatus,   \* per node: the last RaftConsensusStatus it saw
  taIncluded, \* the transaction is in a canonical block
  taApplied,  \* nodes that applied that block
  taPurged,   \* nodes whose block building purged the transaction
  taBank,     \* per limited node: the rate limiter
  taMoves, taRejects

taVars == <<taReq, taPool, taLeader, taStatus, taIncluded, taApplied, taPurged,
            taBank, taMoves, taRejects>>

Calls == 1 .. TaMaxCalls

NoParent == 0

\* RaftConsensusStatus: whether this node leads, and the leader it knows of.
Leads(n) == [isLeader |-> TRUE, leader |-> n]
Follows(l) == [isLeader |-> FALSE, leader |-> l]
Unknown == [isLeader |-> FALSE, leader |-> "none"]

\* A call not made yet.
Unused == [node |-> "none", sync |-> FALSE, parent |-> NoParent,
           phase |-> "unused", seen |-> "nothing"]

Ended == {"ok", "err", "timeout"}

-----------------------------------------------------------------------------
(* TxGasRateLimiter.  Levels and rates are small integers; time passes in  *)
(* Tick.                                                                   *)

Clamp(x, hi) == IF x > hi THEN hi ELSE x

\* update_gate: close when the bank is empty, reopen at the reopen credit.
UpdateGate(b) ==
  [b EXCEPT !.open = IF b.open THEN b.level > 0 ELSE b.level >= TaReopenCredit]

\* on_block_at: drain the block's gas down to the floor; replayed blocks older
\* than the arming of the limiter do not drain (limiter_to_drain).
DrainBank(b) ==
  IF ~b.armed THEN b
  ELSE UpdateGate([b EXCEPT !.level = IF b.level - TaBlockGas < -TaDeficit
                                      THEN -TaDeficit ELSE b.level - TaBlockGas])

\* The gate as try_admit_at sees it, after its own update_gate.
GateOpen(n) == n \in TaLimited => UpdateGate(taBank[n]).open

\* try_admit_at updates the gate whether or not it admits.
TryAdmit(n) ==
  taBank' = IF n \in TaLimited
            THEN [taBank EXCEPT ![n] = UpdateGate(taBank[n])]
            ELSE taBank

\* TxGasRateLimiter::new: a full bank and an open gate; not armed yet.
NewBank == [level |-> TaMaxCredit, open |-> TRUE, armed |-> FALSE]

-----------------------------------------------------------------------------

AdmissionInit ==
  /\ taReq = [i \in Calls |-> Unused]
  /\ taPool = {}
  /\ taLeader = TaFirstLeader
  /\ taStatus = [n \in TaNodes |-> IF n = taLeader THEN Leads(n) ELSE Follows(taLeader)]
  /\ taIncluded = FALSE
  /\ taApplied = {}
  /\ taPurged = {}
  /\ taBank = [n \in TaLimited |-> NewBank]
  /\ taMoves = 0
  /\ taRejects = 0

Free(i) == taReq[i].phase = "unused" /\ (i > 1 => taReq[i - 1].phase # "unused")

ClientCalls == {i \in Calls : taReq[i].phase # "unused" /\ taReq[i].parent = NoParent}

\* A call arrives.  The sync call subscribes to the node's blocks BEFORE it
\* admits the transaction; the plain one never subscribes.
Arrive(i, n, sync, parent) ==
  [taReq EXCEPT ![i] = [node |-> n, sync |-> sync, parent |-> parent,
                        phase |-> "admit", seen |-> "nothing"]]

SendRawTransaction(i, n, sync) ==
  /\ Free(i)
  /\ Cardinality(ClientCalls) < TaMaxClient
  /\ taReq' = Arrive(i, n, sync, NoParent)
  /\ UNCHANGED <<taPool, taLeader, taStatus, taIncluded, taApplied, taPurged,
                 taBank, taMoves, taRejects>>

\* A call is answered; nothing else of it is kept.
Answer(i, verdict) == [taReq EXCEPT ![i].phase = verdict, ![i].seen = "nothing",
                                   ![i].sync = FALSE]

\* admit_to_local_mempool fails: the node is not accepting, the bytes do not
\* decode, the signer is unknown or blacklisted, the policy denies, or the
\* pool refuses for a reason of its own.
AdmitRejected(i) ==
  /\ taReq[i].phase = "admit"
  /\ taReq' = Answer(i, "err")
  /\ UNCHANGED <<taPool, taLeader, taStatus, taIncluded, taApplied, taPurged,
                 taBank, taMoves, taRejects>>

\* The pool refuses what it holds already, and, once the block is applied, the
\* spent nonce.
PoolAccepts(n) == n \notin taPool /\ n \notin taApplied

\* The rate limiter, then the pool.
AdmitToLocalMempool(i) ==
  LET n == taReq[i].node IN
  /\ taReq[i].phase = "admit"
  /\ TryAdmit(n)
  /\ IF GateOpen(n) /\ PoolAccepts(n)
     THEN /\ taPool' = taPool \cup {n}
          /\ taReq' = [taReq EXCEPT ![i].phase = "forward"]
     ELSE /\ taReq' = Answer(i, "err")
          /\ UNCHANGED taPool
  /\ UNCHANGED <<taLeader, taStatus, taIncluded, taApplied, taPurged, taMoves, taRejects>>

\* TxForwarder::forward, the leader's own case: nothing is forwarded.  A plain
\* call is done, a sync call waits for a block of this node.
KeepLocal(i) ==
  /\ taReq[i].phase = "forward"
  /\ taStatus[taReq[i].node].isLeader
  /\ taReq' = IF taReq[i].sync THEN [taReq EXCEPT ![i].phase = "wait"]
              ELSE Answer(i, "ok")
  /\ UNCHANGED <<taPool, taLeader, taStatus, taIncluded, taApplied, taPurged,
                 taBank, taMoves, taRejects>>

\* Mutant: an error leaves the mirror in the pool.
MutDropMirror(i) == taPool' = taPool

\* RemoveOnDrop, still armed when the handler returns or is dropped.
DropMirror(i) == taPool' = taPool \ {taReq[i].node}

\* NoKnownLeader: no leader is known, or the status names this very node
\* without saying that it leads.
NoKnownLeader(i) ==
  LET s == taStatus[taReq[i].node] IN
  /\ taReq[i].phase = "forward"
  /\ ~s.isLeader
  /\ s.leader \in {"none", taReq[i].node}
  /\ taReq' = Answer(i, "err")
  /\ DropMirror(i)
  /\ UNCHANGED <<taLeader, taStatus, taIncluded, taApplied, taPurged,
                 taBank, taMoves, taRejects>>

\* forward_to_endpoint: the same call, made to the leader.
ForwardToEndpoint(i, j) ==
  LET s == taStatus[taReq[i].node] IN
  /\ taReq[i].phase = "forward"
  /\ Free(j)
  /\ ~s.isLeader
  /\ s.leader \notin {"none", taReq[i].node}
  /\ taReq' = [Arrive(j, s.leader, taReq[i].sync, i) EXCEPT ![i].phase = "forwarded"]
  /\ UNCHANGED <<taPool, taLeader, taStatus, taIncluded, taApplied, taPurged,
                 taBank, taMoves, taRejects>>

\* Mutant: the cleanup is never disarmed.
MutForwarded(i, j) ==
  /\ taReq[i].phase = "forwarded"
  /\ taReq[j].parent = i
  /\ taReq[j].phase \in Ended
  /\ taReq' = Answer(i, taReq[j].phase)
  /\ DropMirror(i)
  /\ UNCHANGED <<taLeader, taStatus, taIncluded, taApplied, taPurged,
                 taBank, taMoves, taRejects>>

\* The leader's answer: a success or an EIP-7966 timeout disarms the cleanup,
\* anything else drops the local mirror.
Forwarded(i, j) ==
  /\ taReq[i].phase = "forwarded"
  /\ taReq[j].parent = i
  /\ taReq[j].phase \in Ended
  /\ LET verdict == taReq[j].phase IN
     IF verdict = "ok" \/ (verdict = "timeout" /\ taReq[i].sync)
     THEN taReq' = Answer(i, verdict) /\ UNCHANGED taPool
     ELSE taReq' = Answer(i, "err") /\ DropMirror(i)
  /\ UNCHANGED <<taLeader, taStatus, taIncluded, taApplied, taPurged,
                 taBank, taMoves, taRejects>>

\* The connection to the leader breaks, or the client goes away: the handler
\* is over while the leader's call goes on.
GiveUp(i) ==
  /\ taReq[i].phase = "forwarded"
  /\ taReq' = Answer(i, "err")
  /\ DropMirror(i)
  /\ UNCHANGED <<taLeader, taStatus, taIncluded, taApplied, taPurged,
                 taBank, taMoves, taRejects>>

\* The wait of a sync call on the leader: a block with the transaction, a block
\* that rejected it, or the timeout (also a lagging subscription).
SyncReceipt(i) ==
  /\ taReq[i].phase = "wait"
  /\ \/ taReq[i].seen = "included" /\ taReq' = Answer(i, "ok")
     \/ taReq[i].seen = "failed" /\ taReq' = Answer(i, "err")
  /\ UNCHANGED <<taPool, taLeader, taStatus, taIncluded, taApplied, taPurged,
                 taBank, taMoves, taRejects>>

SyncTimeout(i) ==
  /\ taReq[i].phase = "wait"
  /\ taReq' = Answer(i, "timeout")
  /\ UNCHANGED <<taPool, taLeader, taStatus, taIncluded, taApplied, taPurged,
                 taBank, taMoves, taRejects>>

-----------------------------------------------------------------------------
(* Blocks and leadership.                                                  *)

\* Mutant: a sync call subscribes only once its transaction is admitted.
MutNotify(n, event) ==
  [i \in Calls |->
     IF taReq[i].node = n /\ taReq[i].sync /\ taReq[i].phase = "wait"
     THEN [taReq[i] EXCEPT !.seen = event] ELSE taReq[i]]

\* Every sync call that subscribed on node n sees the block; its loop ends at
\* the first block that names the transaction.
Notify(n, event) ==
  [i \in Calls |->
     IF taReq[i].node = n /\ taReq[i].sync /\ taReq[i].phase \notin Ended
          /\ taReq[i].seen = "nothing"
     THEN [taReq[i] EXCEPT !.seen = event] ELSE taReq[i]]

Include ==
  /\ ~taIncluded
  /\ taLeader \in taPool
  /\ taIncluded' = TRUE
  /\ UNCHANGED <<taReq, taPool, taLeader, taStatus, taApplied, taPurged,
                 taBank, taMoves, taRejects>>

\* A node applies the block: the pool forgets the transaction, the limiter
\* drains, subscribers are told.
ApplyIncluded(n) ==
  /\ taIncluded
  /\ n \notin taApplied
  /\ taApplied' = taApplied \cup {n}
  /\ taPool' = taPool \ {n}
  /\ taReq' = Notify(n, "included")
  /\ taBank' = IF n \in TaLimited THEN [taBank EXCEPT ![n] = DrainBank(@)] ELSE taBank
  /\ UNCHANGED <<taLeader, taStatus, taIncluded, taPurged, taMoves, taRejects>>

\* Another block: only the limiter notices.
ApplyOther(n) ==
  /\ n \in TaLimited
  /\ taBank' = [taBank EXCEPT ![n] = DrainBank(@)]
  /\ UNCHANGED <<taReq, taPool, taLeader, taStatus, taIncluded, taApplied, taPurged,
                 taMoves, taRejects>>

\* Execution finds the transaction invalid: the builder purges it, and its own
\* subscribers learn of it from failed_transactions.
Purge ==
  /\ ~taIncluded
  /\ taLeader \in taPool
  /\ taRejects < TaMaxRejects
  /\ taRejects' = taRejects + 1
  /\ taPool' = taPool \ {taLeader}
  /\ taPurged' = taPurged \cup {taLeader}
  /\ taReq' = Notify(taLeader, "failed")
  /\ UNCHANGED <<taLeader, taStatus, taIncluded, taApplied, taBank, taMoves>>

\* A new leader, which has applied every block before it builds.
MoveLeader(n) ==
  /\ taMoves < TaMaxMoves
  /\ n # taLeader
  /\ taIncluded => n \in taApplied
  /\ taLeader' = n
  /\ taMoves' = taMoves + 1
  /\ UNCHANGED <<taReq, taPool, taStatus, taIncluded, taApplied, taPurged, taBank, taRejects>>

\* The status watch of a node moves: to the truth, to an election, or to a
\* leader that has not taken over yet.
SeeStatus(n) ==
  /\ \E s \in {Unknown, Follows(n),
               IF n = taLeader THEN Leads(n) ELSE Follows(taLeader)} :
       /\ s # taStatus[n]
       /\ taMoves < TaMaxMoves \/ s.leader = taLeader
       /\ taStatus' = [taStatus EXCEPT ![n] = s]
  /\ UNCHANGED <<taReq, taPool, taLeader, taIncluded, taApplied, taPurged,
                 taBank, taMoves, taRejects>>

\* The limiter is armed once the node has caught up; time refills its bank.
Arm(n) ==
  /\ n \in TaLimited /\ ~taBank[n].armed
  /\ taBank' = [taBank EXCEPT ![n].armed = TRUE]
  /\ UNCHANGED <<taReq, taPool, taLeader, taStatus, taIncluded, taApplied, taPurged,
                 taMoves, taRejects>>

Tick(n) ==
  /\ n \in TaLimited /\ taBank[n].level < TaMaxCredit
  /\ taBank' = [taBank EXCEPT ![n].level = Clamp(@ + TaRate, TaMaxCredit)]
  /\ UNCHANGED <<taReq, taPool, taLeader, taStatus, taIncluded, taApplied, taPurged,
                 taMoves, taRejects>>

-----------------------------------------------------------------------------

Handle(i) ==
  \/ AdmitToLocalMempool(i)
  \/ KeepLocal(i)
  \/ NoKnownLeader(i)
  \/ \E j \in Calls : ForwardToEndpoint(i, j)
  \/ \E j \in Calls : Forwarded(i, j)
  \/ SyncReceipt(i)
  \/ SyncTimeout(i)

AdmissionNext ==
  \/ \E i \in Calls : Handle(i)
  \/ \E i \in Calls, n \in TaNodes, sync \in BOOLEAN : SendRawTransaction(i, n, sync)
  \/ \E i \in Calls : AdmitRejected(i)
  \/ \E i \in Calls : GiveUp(i)
  \/ Include
  \/ Purge
  \/ \E n \in TaNodes : ApplyIncluded(n)
  \/ \E n \in TaNodes : ApplyOther(n)
  \/ \E n \in TaNodes : MoveLeader(n)
  \/ \E n \in TaNodes : SeeStatus(n)
  \/ \E n \in TaNodes : Arm(n)
  \/ \E n \in TaNodes : Tick(n)

-----------------------------------------------------------------------------

\* A sync call that waits on the leader cannot miss its block: once the node
\* has applied the block with the transaction, the call has a block that names
\* it in its subscription, because it subscribed before the transaction was admitted.
SyncSeesBlock ==
  \A i \in Calls : taReq[i].phase = "wait" /\ taReq[i].node \in taApplied
                     => taReq[i].seen # "nothing"

\* An acknowledged transaction is not lost by its own handler: until a block
\* with it is applied, or the node's own building purged it, the pool of every
\* node that answered "ok" holds it (RemoveOnDrop was disarmed in time).
AckedIsPooled ==
  \A i \in Calls :
    taReq[i].phase = "ok" =>
      taReq[i].node \in taPool \cup taApplied \cup taPurged

\* A call that ended with an error, or was dropped, leaves no orphan behind: if
\* every call to a node failed, its pool does not hold the transaction.  (A node
\* whose own building purged it is excepted: a second sync call, subscribed
\* before the purge and admitted after it, reports the first one's rejection.)
FailedLeavesNothing ==
  \A n \in TaNodes :
    n \in taPool \ taPurged =>
      \E i \in Calls : taReq[i].node = n
        /\ taReq[i].phase \in {"forward", "forwarded", "wait", "ok", "timeout"}

\* The pools agree with the answers the clients got.
PoolMatchesAnswers == AckedIsPooled /\ FailedLeavesNothing

\* What execution rejected can be sent again.  (Not so: the node that forwarded
\* it still holds its mirror, and refuses the resubmission as already known.)
RejectedCanBeResent ==
  \A n \in TaNodes :
    (taPurged # {} /\ ~taIncluded /\ taPool \cap taPurged = {}
       /\ (\A i \in Calls : taReq[i].phase \in Ended \cup {"unused"}))
      => PoolAccepts(n)
=============================================================================
