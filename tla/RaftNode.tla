------------------------------ MODULE RaftNode ------------------------------
(***************************************************************************)
(* What the node gives openraft to run on: the log store and the state     *)
(* machine on disk (rl...), and the RPC transport to a peer (rt...).  The  *)
(* two share no state; openraft, which drives both, is external.           *)
(***************************************************************************)
EXTENDS Integers, Sequences, FiniteSets, SequencesExt, FiniteSetsExt

(***************************************************************************)
(* The durable state of raft (lib/raft/src/storage.rs and                  *)
(* state_machine.rs): the log column family keyed by index, the vote, the  *)
(* committed log id, the membership and the block -> log id index, driven  *)
(* by the storage calls of openraft and by crashes.  Writes are synced.    *)
(* Snapshots are disabled, so openraft never purges the log.  Each block   *)
(* is in the log once: BlockCanonization models what a leadership race     *)
(* does to that.                                                           *)
(***************************************************************************)

CONSTANTS
    RlMaxIndex,       \* bound on the log
    RlMaxTerm,        \* bound on terms
    RlMaxCrashes      \* bound on restarts

VARIABLES
    rlLogs,           \* Logs: index -> entry
    rlVote,           \* Vote
    rlCommitted,      \* LogMeta: committed index, -1 if none
    rlMembership,     \* StateMachineMeta: index of the last membership entry, -1 if none
    rlBlockLogId,     \* RaftApplied: block number -> log index
    rlSent,           \* blocks sent to the pipeline since the start, in order
    rlWal,            \* latest record of the WAL
    rlApplied,        \* openraft's last applied index in memory, -1 if none
    rlLog,            \* the log as openraft sees it: what was appended and not truncated
    rlCrashes

rlVars == <<rlLogs, rlVote, rlCommitted, rlMembership, rlBlockLogId, rlSent, rlWal, rlApplied,
            rlLog, rlCrashes>>

\* An entry: its term, and the block it carries, 0 for a blank or membership one.
Entry(term, kind, block) == [term |-> term, kind |-> kind, block |-> block]

RaftStoreInit ==
    /\ rlLogs = << >> /\ rlVote = 0 /\ rlCommitted = -1 /\ rlMembership = -1
    /\ rlBlockLogId = << >> /\ rlSent = << >> /\ rlWal = 0 /\ rlApplied = -1
    /\ rlLog = << >> /\ rlCrashes = 0

\* last_log_id_from_db: the entry with the greatest key, -1 if none.
LastLogIndex == IF DOMAIN rlLogs = {} THEN -1 ELSE CHOOSE i \in DOMAIN rlLogs : \A j \in DOMAIN rlLogs : j <= i

\* try_get_log_entries for start..end: iterate from start, stop after end - 1.
\* An end of 0 has no predecessor (checked_sub) and is read as no end.
TryGetLogEntries(start, end) ==
    LET found == {i \in DOMAIN rlLogs : i >= start /\ (end = 0 \/ i <= end - 1)}
        nth(k) == CHOOSE i \in found : Cardinality({j \in found : j < i}) = k - 1
    IN  [k \in 1..Cardinality(found) |-> rlLogs[nth(k)]]

SaveVote(term) ==
    /\ term > rlVote
    /\ rlVote' = term
    /\ UNCHANGED <<rlLogs, rlCommitted, rlMembership, rlBlockLogId, rlSent, rlWal, rlApplied, rlLog, rlCrashes>>

\* append: one batch of entries, consecutive after the last one.  A block extends
\* the blocks of the log before it.
NextBlock(log) == 1 + Cardinality({i \in DOMAIN log : log[i].kind = "normal"})

AppendEntries(kinds) ==
    LET add[k \in 0..Len(kinds)] ==
          IF k = 0 THEN rlLog
          ELSE Append(add[k - 1], Entry(rlVote, kinds[k], IF kinds[k] = "normal" THEN NextBlock(add[k - 1]) ELSE 0))
    IN  /\ rlVote > 0 /\ Len(rlLog) + Len(kinds) <= RlMaxIndex + 1
        /\ rlLog' = add[Len(kinds)]
        /\ rlLogs' = [i \in DOMAIN rlLogs \cup Len(rlLog)..(Len(rlLog) + Len(kinds) - 1) |->
                       IF i \in DOMAIN rlLogs /\ i < Len(rlLog) THEN rlLogs[i] ELSE rlLog'[i + 1]]
        /\ UNCHANGED <<rlVote, rlCommitted, rlMembership, rlBlockLogId, rlSent, rlWal, rlApplied, rlCrashes>>

\* Mutant: the entry at the given index survives.
MutTruncated(index) == [i \in {j \in DOMAIN rlLogs : j <= index} |-> rlLogs[i]]

\* truncate deletes from the index on.
Truncated(index) == [i \in {j \in DOMAIN rlLogs : j < index} |-> rlLogs[i]]

\* openraft truncates entries that another leader's log conflicts with, which
\* are not committed.
Truncate(index) ==
    /\ index \in (rlCommitted + 1)..(Len(rlLog) - 1) /\ index > rlApplied
    /\ rlLogs' = Truncated(index)
    /\ rlLog' = SubSeq(rlLog, 1, index)
    /\ UNCHANGED <<rlVote, rlCommitted, rlMembership, rlBlockLogId, rlSent, rlWal, rlApplied, rlCrashes>>

SaveCommitted(index) ==
    /\ index \in (rlCommitted + 1)..(Len(rlLog) - 1)
    /\ rlCommitted' = index
    /\ UNCHANGED <<rlLogs, rlVote, rlMembership, rlBlockLogId, rlSent, rlWal, rlApplied, rlLog, rlCrashes>>

\* apply: a block's log id is saved, then the block is sent to the pipeline; a
\* membership is saved as soon as it is met.
BlockLogIds(entry, index) ==
    IF entry.kind = "normal"
    THEN [b \in DOMAIN rlBlockLogId \cup {entry.block} |-> IF b = entry.block THEN index ELSE rlBlockLogId[b]]
    ELSE rlBlockLogId

Apply ==
    /\ rlApplied < rlCommitted
    /\ LET index == rlApplied + 1  entry == rlLog[index + 1] IN
       /\ rlBlockLogId' = BlockLogIds(entry, index)
       /\ rlMembership' = IF entry.kind = "membership" THEN index ELSE rlMembership
       /\ rlSent' = IF entry.kind = "normal" THEN Append(rlSent, entry.block) ELSE rlSent
       /\ rlApplied' = index
    /\ UNCHANGED <<rlLogs, rlVote, rlCommitted, rlWal, rlLog, rlCrashes>>

\* The pipeline persists the blocks it was sent, in order.
PersistBlock ==
    /\ rlSent # << >> /\ rlWal' = IF Head(rlSent) > rlWal THEN Head(rlSent) ELSE rlWal
    /\ rlSent' = Tail(rlSent)
    /\ UNCHANGED <<rlLogs, rlVote, rlCommitted, rlMembership, rlBlockLogId, rlApplied, rlLog, rlCrashes>>

\* Mutant: the last log id saved, whether its block reached the WAL or not.
MutAppliedState == LET saved == {rlBlockLogId[b] : b \in DOMAIN rlBlockLogId}
                   IN  IF saved = {} THEN -1 ELSE CHOOSE i \in saved : \A j \in saved : j <= i

\* applied_state: the log id of the latest WAL block.
AppliedState == IF rlWal \in DOMAIN rlBlockLogId THEN rlBlockLogId[rlWal] ELSE -1

\* A crash and a restart: openraft goes on from startup_state and applied_state.
RestartRaft ==
    /\ rlCrashes < RlMaxCrashes
    /\ rlCrashes' = rlCrashes + 1
    /\ rlSent' = << >> /\ rlApplied' = AppliedState
    /\ UNCHANGED <<rlLogs, rlVote, rlCommitted, rlMembership, rlBlockLogId, rlWal, rlLog>>

\* The crash falls between save_block_log_id and the send.
CrashInApply ==
    /\ rlCrashes < RlMaxCrashes /\ rlApplied < rlCommitted
    /\ rlCrashes' = rlCrashes + 1
    /\ LET index == rlApplied + 1 IN rlBlockLogId' = BlockLogIds(rlLog[index + 1], index)
    /\ rlSent' = << >> /\ rlApplied' = AppliedState
    /\ UNCHANGED <<rlLogs, rlVote, rlCommitted, rlMembership, rlWal, rlLog>>

RaftStoreNext ==
    \/ \E term \in 1..RlMaxTerm : SaveVote(term)
    \/ \E kinds \in {<<"normal">>, <<"blank">>, <<"membership">>, <<"normal", "normal">>} : AppendEntries(kinds)
    \/ \E index \in 0..RlMaxIndex : Truncate(index) \/ SaveCommitted(index)
    \/ Apply
    \/ PersistBlock
    \/ RestartRaft
    \/ CrashInApply

-----------------------------------------------------------------------------
\* The stored log is the log: it ends where it ends and every non-empty range
\* reads back what was appended and not truncated (RaftLogStore); and after a
\* restart openraft applies again from a point that skips no block the WAL does
\* not have, nor a membership (applied_state, save_block_log_id).
StoreIsLog ==
    /\ LastLogIndex = Len(rlLog) - 1
    /\ \A start \in 0..RlMaxIndex, end \in 1..(RlMaxIndex + 1) :
         start < end => TryGetLogEntries(start, end) = SubSeq(rlLog, start + 1, IF end < Len(rlLog) THEN end ELSE Len(rlLog))
    /\ \A i \in 0..(Len(rlLog) - 1) :
         rlLog[i + 1].kind = "normal" /\ rlLog[i + 1].block > rlWal => i > AppliedState
    /\ \A i \in 0..AppliedState : rlLog[i + 1].kind = "membership" => rlMembership >= i

-----------------------------------------------------------------------------
(***************************************************************************)
(* Raft RPCs over devp2p (lib/network/src/raft, lib/raft/src/network.rs)   *)
(* from one node to one peer: RaftRouter with its connections and pending  *)
(* requests, the connection task, RaftNetworkClient::send_rpc with its     *)
(* timeout, and the wait of RaftBootstrapper.  The router's maps are       *)
(* shared by threads; each access to one of them is a step.                *)
(***************************************************************************)

CONSTANTS
    RtRpcs,           \* the RPCs the node makes, also their request ids
    RtMaxConns        \* bound on connections made

VARIABLES
    rtConns,          \* connection id -> state
    rtPeers,          \* RaftRouter::peers of the peer: sequence of connection ids
    rtPending,        \* RaftRouter::pending: request id -> connection id
    rtRpcs,           \* the RPCs
    rtWire,           \* requests sent and not yet answered, responses on the way back
    rtBoot            \* bootstrap_if_needed: "wait", "timeout" or "initialized"

rtVars == <<rtConns, rtPeers, rtPending, rtRpcs, rtWire, rtBoot>>

ConnIds == 1..RtMaxConns
NoConnId == 0

\* stage of an RPC: new, found (the senders cloned), sent, waiting, or done.
NewRpc == [stage |-> "new", senders |-> << >>, conn |-> NoConnId, result |-> "none", answer |-> NoConnId]

\* Connections: unused, open, aborted, cancelled, closed: the steps of its Drop.
TransportInit ==
    /\ rtConns = [c \in ConnIds |-> "unused"]
    /\ rtPeers = << >> /\ rtPending = << >>
    /\ rtRpcs = [r \in RtRpcs |-> NewRpc]
    /\ rtWire = {} /\ rtBoot = "wait"

\* Mutant: one slot per peer, replaced by a new connection.
MutRegisterPeer(c) == <<c>>

\* register_peer keeps the channels of all connections.
RegisterPeer(c) == Append(rtPeers, c)

\* establish_connection
EstablishRaft(c) ==
    /\ rtConns[c] = "unused" /\ \A d \in ConnIds : d < c => rtConns[d] # "unused"
    /\ Cardinality({d \in ConnIds : rtConns[d] = "open"}) < 2
    /\ rtConns' = [rtConns EXCEPT ![c] = "open"]
    /\ rtPeers' = RegisterPeer(c)
    /\ UNCHANGED <<rtPending, rtRpcs, rtWire, rtBoot>>

-----------------------------------------------------------------------------
(* Drop of RaftConnection: abort, cancel_pending_for_connection, unregister_peer *)

AbortTask(c) ==
    /\ rtConns[c] = "open"
    /\ rtConns' = [rtConns EXCEPT ![c] = "aborted"]
    /\ rtWire' = {m \in rtWire : m.conn # c}
    /\ UNCHANGED <<rtPeers, rtPending, rtRpcs, rtBoot>>

CancelPending(c) ==
    /\ rtConns[c] = "aborted"
    /\ rtConns' = [rtConns EXCEPT ![c] = "cancelled"]
    /\ LET matching == {r \in DOMAIN rtPending : rtPending[r] = c} IN
       /\ rtPending' = [r \in DOMAIN rtPending \ matching |-> rtPending[r]]
       /\ rtRpcs' = [r \in RtRpcs |-> IF r \in matching /\ rtRpcs[r].stage = "waiting"
                       THEN [rtRpcs[r] EXCEPT !.stage = "done", !.result = "dropped"] ELSE rtRpcs[r]]
    /\ UNCHANGED <<rtPeers, rtWire, rtBoot>>

UnregisterPeer(c) ==
    /\ rtConns[c] = "cancelled"
    /\ rtConns' = [rtConns EXCEPT ![c] = "closed"]
    /\ rtPeers' = SelectSeq(rtPeers, LAMBDA d : d # c)
    /\ UNCHANGED <<rtPending, rtRpcs, rtWire, rtBoot>>

-----------------------------------------------------------------------------
(* send_rpc and send_request *)

LookUpPeer(r) ==
    /\ rtRpcs[r].stage = "new"
    /\ rtRpcs' = [rtRpcs EXCEPT ![r] =
         IF rtPeers = << >> THEN [@ EXCEPT !.stage = "done", !.result = "not_connected"]
         ELSE [@ EXCEPT !.stage = "found", !.senders = rtPeers]]
    /\ UNCHANGED <<rtConns, rtPeers, rtPending, rtWire, rtBoot>>

\* The first channel whose task still receives takes the request.  An aborted
\* task keeps its channel until it is next polled.
SendRequest(r) ==
    /\ rtRpcs[r].stage = "found"
    /\ LET senders == rtRpcs[r].senders
           takes(c) == rtConns[c] \in {"open", "aborted", "cancelled"} IN
       \/ \E i \in DOMAIN senders :
            /\ takes(senders[i]) /\ \A j \in 1..(i - 1) : rtConns[senders[j]] # "open"
            /\ rtRpcs' = [rtRpcs EXCEPT ![r].stage = "sent", ![r].conn = senders[i]]
            /\ rtWire' = IF rtConns[senders[i]] = "open"
                         THEN rtWire \cup {[id |-> r, conn |-> senders[i], kind |-> "request"]} ELSE rtWire
       \/ /\ \A i \in DOMAIN senders : rtConns[senders[i]] # "open"
          /\ rtRpcs' = [rtRpcs EXCEPT ![r].stage = "done", ![r].result = "send_failed"]
          /\ UNCHANGED rtWire
    /\ UNCHANGED <<rtConns, rtPeers, rtPending, rtBoot>>

\* Only then is the request remembered.
InsertPending(r) ==
    /\ rtRpcs[r].stage = "sent"
    /\ rtPending' = [q \in DOMAIN rtPending \cup {r} |-> IF q = r THEN rtRpcs[r].conn ELSE rtPending[q]]
    /\ rtRpcs' = [rtRpcs EXCEPT ![r].stage = "waiting"]
    /\ UNCHANGED <<rtConns, rtPeers, rtWire, rtBoot>>

\* The rpc timeout of RaftNetworkClient; the pending entry stays.
RpcTimeout(r) ==
    /\ rtRpcs[r].stage = "waiting"
    /\ rtRpcs' = [rtRpcs EXCEPT ![r].stage = "done", ![r].result = "timeout"]
    /\ UNCHANGED <<rtConns, rtPeers, rtPending, rtWire, rtBoot>>

-----------------------------------------------------------------------------
(* run_raft_connection: requests are handled concurrently, so responses come *)
(* back in any order.                                                        *)

Handle(m) ==
    /\ m \in rtWire /\ m.kind = "request"
    /\ rtWire' = (rtWire \ {m}) \cup {[m EXCEPT !.kind = "response"]}
    /\ UNCHANGED <<rtConns, rtPeers, rtPending, rtRpcs, rtBoot>>

CompleteResponse(m) ==
    /\ m \in rtWire /\ m.kind = "response"
    /\ rtWire' = rtWire \ {m}
    /\ rtPending' = [q \in DOMAIN rtPending \ {m.id} |-> rtPending[q]]
    /\ rtRpcs' = IF m.id \in DOMAIN rtPending /\ rtRpcs[m.id].stage = "waiting"
                 THEN [rtRpcs EXCEPT ![m.id].stage = "done", ![m.id].result = "answered",
                                     ![m.id].answer = m.conn]
                 ELSE rtRpcs
    /\ UNCHANGED <<rtConns, rtPeers, rtBoot>>

\* bootstrap_if_needed: wait_for_peers, again after each timeout, then initialize,
\* where losing the race to another node is no error.
WaitForPeers ==
    /\ rtBoot \in {"wait", "timeout"}
    /\ rtBoot' = IF rtPeers # << >> THEN "initialized" ELSE "timeout"
    /\ UNCHANGED <<rtConns, rtPeers, rtPending, rtRpcs, rtWire>>

TransportNext ==
    \/ \E c \in ConnIds : EstablishRaft(c) \/ AbortTask(c) \/ CancelPending(c) \/ UnregisterPeer(c)
    \/ \E r \in RtRpcs : LookUpPeer(r) \/ SendRequest(r) \/ InsertPending(r) \/ RpcTimeout(r)
    \/ \E m \in rtWire : Handle(m) \/ CompleteResponse(m)
    \/ WaitForPeers

-----------------------------------------------------------------------------
(* Properties. *)

\* While a connection to the peer is up the router reaches the peer through it,
\* whichever of two simultaneous connections is closed; a closed connection is
\* not in the router; and an answer comes over the connection that carried the
\* request (RaftRouter::register_peer, unregister_peer, send_request).
PeerReachable ==
    /\ \A c \in ConnIds : (rtConns[c] \in {"open", "aborted", "cancelled"}) <=> c \in ToSet(rtPeers)
    /\ \A r \in RtRpcs : rtRpcs[r].result = "answered" => rtRpcs[r].answer = rtRpcs[r].conn

\* "when a connection drops we can cancel all requests that were routed through
\* it" (lib/network/src/raft/protocol.rs:43): once a connection is closed no
\* request waits for it.
DroppedRequestsCancelled ==
    \A r \in DOMAIN rtPending : rtConns[rtPending[r]] # "closed"

=============================================================================
