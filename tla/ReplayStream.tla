----------------------------- MODULE ReplayStream -----------------------------
(***************************************************************************)
(* The replay protocol `zks` (lib/network): an external node asks each     *)
(* main node it is connected to for replay records and forwards them to    *)
(* its sequencer.  All connections share one cursor, `starting_block`.  A  *)
(* record is its block number.                                             *)
(***************************************************************************)
EXTENDS Integers, Sequences, FiniteSets, SequencesExt

CONSTANTS
    RsMainNodes,      \* main nodes the external node dials
    RsSlots,          \* simultaneous connections to one main node: 1, or 2 for a dial race
    RsFirstBlock,     \* the starting block computed at startup
    RsMaxBlock,       \* bound on the chain
    RsPerMessage,     \* en_max_blocks_per_replay_message
    RsMaxPerMessage,  \* MAX_BLOCKS_PER_MESSAGE
    RsWire,           \* OUTBOUND_CHANNEL_CAPACITY
    RsMaxFaults       \* bound on lost connections, dead streams and broken messages

VARIABLES
    rsHeight,         \* latest_record of each main node
    rsConns,          \* the connections
    rsNext,           \* starting_block: the next block to forward
    rsForwarded,      \* the records sent to the sequencer
    rsStalls,         \* ReplayStreamStalled events: peers to disconnect
    rsFaults

rsVars == <<rsHeight, rsConns, rsNext, rsForwarded, rsStalls, rsFaults>>

Conns == RsMainNodes \X (1..RsSlots)
Least(S) == CHOOSE x \in S : \A y \in S : x <= y
Greatest(S) == CHOOSE x \in S : \A y \in S : x >= y

\* The two tasks of a connection and the messages between them.  mn: closed,
\* await (the request), stream or dead; en: closed, request, receive, check or
\* forward; request: the requested <<first block, blocks per message>>.
Closed == [mn |-> "closed", en |-> "closed", request |-> << >>, sent |-> 0, max |-> 0,
           wire |-> << >>, batch |-> << >>]

StreamInit ==
    /\ rsHeight = [m \in RsMainNodes |-> RsFirstBlock - 1]
    /\ rsConns = [c \in Conns |-> Closed]
    /\ rsNext = RsFirstBlock /\ rsForwarded = << >>
    /\ rsStalls = {} /\ rsFaults = 0

\* clamp(1, MAX_BLOCKS_PER_MESSAGE), applied by both sides.
Clamp(n) == Least({Greatest({1, n}), RsMaxPerMessage})

Open(c) == rsConns[c].en # "closed"
NewBlock(m) ==
    /\ rsHeight[m] < RsMaxBlock
    /\ rsHeight' = [rsHeight EXCEPT ![m] = @ + 1]
    /\ UNCHANGED <<rsConns, rsNext, rsForwarded, rsStalls, rsFaults>>

\* into_connection on both ends, each of which spawns its task.
IntoConnection(c) ==
    /\ ~Open(c) /\ c[1] \notin rsStalls
    /\ rsConns' = [rsConns EXCEPT ![c] = [Closed EXCEPT !.mn = "await", !.en = "request"]]
    /\ UNCHANGED <<rsHeight, rsNext, rsForwarded, rsStalls, rsFaults>>

SendReplayRequest(c) ==
    /\ rsConns[c].en = "request"
    /\ rsConns' = [rsConns EXCEPT ![c].en = "receive",
                                  ![c].request = <<rsNext, Clamp(RsPerMessage)>>]
    /\ UNCHANGED <<rsHeight, rsNext, rsForwarded, rsStalls, rsFaults>>

-----------------------------------------------------------------------------
(* run_mn_connection *)

ServeRequest(c) ==
    /\ rsConns[c].mn = "await" /\ rsConns[c].request # << >>
    /\ rsConns' = [rsConns EXCEPT ![c].mn = "stream", ![c].sent = rsConns[c].request[1],
                                  ![c].max = Clamp(rsConns[c].request[2]), ![c].request = << >>]
    /\ UNCHANGED <<rsHeight, rsNext, rsForwarded, rsStalls, rsFaults>>

Available(c) == rsConns[c].mn = "stream" /\ rsConns[c].sent <= rsHeight[c[1]]

\* One record, and the following ones that are there already, in one message.
StreamRecords(c) ==
    /\ Available(c) /\ Len(rsConns[c].wire) < RsWire
    /\ LET first == rsConns[c].sent
           last == Least({rsHeight[c[1]], first + rsConns[c].max - 1})
       IN rsConns' = [rsConns EXCEPT ![c].wire = Append(@, [i \in 1..(last - first + 1) |-> first + i - 1]),
                                     ![c].sent = last + 1]
    /\ UNCHANGED <<rsHeight, rsNext, rsForwarded, rsStalls, rsFaults>>

-----------------------------------------------------------------------------
(* receive_replays *)

ReceiveMessage(c) ==
    /\ rsConns[c].en = "receive" /\ rsConns[c].wire # << >>
    /\ rsConns' = [rsConns EXCEPT ![c].en = "check", ![c].batch = Head(rsConns[c].wire),
                                  ![c].wire = Tail(@)]
    /\ UNCHANGED <<rsHeight, rsNext, rsForwarded, rsStalls, rsFaults>>

\* report_stalled, and the task ends.
Stall(c) ==
    /\ rsStalls' = rsStalls \cup {c[1]}
    /\ rsConns' = [rsConns EXCEPT ![c].en = "ended"]

CheckRecord(c) ==
    /\ rsConns[c].en = "check"
    /\ \/ /\ rsConns[c].batch = << >>
          /\ rsConns' = [rsConns EXCEPT ![c].en = "receive"]
          /\ UNCHANGED rsStalls
       \/ /\ rsConns[c].batch # << >> /\ Head(rsConns[c].batch) = rsNext
          /\ rsConns' = [rsConns EXCEPT ![c].en = "forward"]
          /\ UNCHANGED rsStalls
       \/ /\ rsConns[c].batch # << >> /\ Head(rsConns[c].batch) # rsNext
          /\ Stall(c)
    /\ UNCHANGED <<rsHeight, rsNext, rsForwarded, rsFaults>>

\* Mutant: the cursor is advanced before the record is sent.
MutForwardRecord(c) ==
    /\ rsConns[c].en \in {"forward", "advanced"}
    /\ IF rsConns[c].en = "forward"
       THEN /\ rsNext' = rsNext + 1 /\ UNCHANGED rsForwarded
            /\ rsConns' = [rsConns EXCEPT ![c].en = "advanced"]
       ELSE /\ rsForwarded' = Append(rsForwarded, Head(rsConns[c].batch)) /\ UNCHANGED rsNext
            /\ rsConns' = [rsConns EXCEPT ![c].en = "check", ![c].batch = Tail(@)]
    /\ UNCHANGED <<rsHeight, rsStalls, rsFaults>>

\* The send waits for a place in the channel; when it returns the cursor moves
\* on, with no await in between.
ForwardRecord(c) ==
    /\ rsConns[c].en = "forward"
    /\ rsForwarded' = Append(rsForwarded, Head(rsConns[c].batch))
    /\ rsNext' = rsNext + 1
    /\ rsConns' = [rsConns EXCEPT ![c].en = "check", ![c].batch = Tail(@)]
    /\ UNCHANGED <<rsHeight, rsStalls, rsFaults>>

\* Mutant: silence is not noticed.
MutInactivityTimeout(c) == FALSE /\ rsConns[c].en = "receive" /\ UNCHANGED rsVars

\* No message for en_replay_inactivity_timeout, which exceeds the block time: the
\* main node has nothing to send, or is not sending.
InactivityTimeout(c) ==
    /\ rsConns[c].en = "receive" /\ rsConns[c].wire = << >>
    /\ rsConns[c].request = << >> /\ rsConns[c].mn # "await" /\ ~Available(c)
    /\ Stall(c)
    /\ UNCHANGED <<rsHeight, rsNext, rsForwarded, rsFaults>>

-----------------------------------------------------------------------------
(* Faults, and the session tracker. *)

\* A message that does not decode, or a record that does not convert, ends the
\* stream on this side.
BrokenMessage(c) ==
    /\ rsConns[c].en = "receive" /\ rsConns[c].wire # << >> /\ rsFaults < RsMaxFaults
    /\ Stall(c)
    /\ rsFaults' = rsFaults + 1
    /\ UNCHANGED <<rsHeight, rsNext, rsForwarded>>

\* The main node's task or the data flow dies, the session stays up.
StreamDies(c) ==
    /\ rsConns[c].mn = "stream" /\ rsFaults < RsMaxFaults
    /\ rsConns' = [rsConns EXCEPT ![c].mn = "dead", ![c].wire = << >>]
    /\ rsFaults' = rsFaults + 1
    /\ UNCHANGED <<rsHeight, rsNext, rsForwarded, rsStalls>>

\* The session ends: both tasks are aborted, at an await.
DropConnection(c) ==
    /\ Open(c) /\ rsFaults < RsMaxFaults
    /\ rsConns' = [rsConns EXCEPT ![c] = Closed]
    /\ rsFaults' = rsFaults + 1
    /\ UNCHANGED <<rsHeight, rsNext, rsForwarded, rsStalls>>

\* The tracker disconnects the peer of a stalled stream; it is dialed again.
DisconnectStalled(m) ==
    /\ m \in rsStalls
    /\ rsStalls' = rsStalls \ {m}
    /\ rsConns' = [c \in Conns |-> IF c[1] = m THEN Closed ELSE rsConns[c]]
    /\ UNCHANGED <<rsHeight, rsNext, rsForwarded, rsFaults>>

\* A step of an open connection's tasks.
TaskStep(c) ==
    \/ SendReplayRequest(c) \/ ServeRequest(c) \/ StreamRecords(c)
    \/ ReceiveMessage(c) \/ CheckRecord(c) \/ ForwardRecord(c) \/ InactivityTimeout(c)

StreamNext ==
    \/ \E m \in RsMainNodes : NewBlock(m) \/ DisconnectStalled(m)
    \/ \E c \in Conns :
         \/ IntoConnection(c) \/ TaskStep(c)
         \/ BrokenMessage(c) \/ StreamDies(c) \/ DropConnection(c)

StreamFairness ==
    /\ \A m \in RsMainNodes : WF_rsVars(NewBlock(m)) /\ WF_rsVars(DisconnectStalled(m))
    /\ \A c \in Conns : WF_rsVars(IntoConnection(c)) /\ WF_rsVars(TaskStep(c))

StreamSpec == StreamInit /\ [][StreamNext]_rsVars /\ StreamFairness

-----------------------------------------------------------------------------
(* Properties. *)

\* The sequencer gets every block once and in order, from the starting block
\* on, whatever connections are lost or stall: what was forwarded is what the
\* cursor counts (receive_replays).
ForwardedInOrder ==
    /\ \A i \in DOMAIN rsForwarded : rsForwarded[i] = RsFirstBlock + i - 1
    /\ rsNext = RsFirstBlock + Len(rsForwarded)

\* A dead stream is noticed and replaced: the external node gets every block the
\* main nodes have (inactivity timeout, ReplayStreamStalled, redial).
ReplayCatchesUp == <>(rsNext = RsMaxBlock + 1)

=============================================================================
