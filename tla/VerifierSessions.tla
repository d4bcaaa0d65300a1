--------------------------- MODULE VerifierSessions ---------------------------
(***************************************************************************)
(* The main node's side of its peers (lib/network): connection slots, the  *)
(* `zks_2fa` handshake, the events that feed PeerSessionStore, and the     *)
(* dispatch of batch verification requests to authorized peers.  The two   *)
(* lanes of a connection, `zks` and `zks_2fa`, start and end together.     *)
(***************************************************************************)
EXTENDS Integers, Sequences, FiniteSets, SequencesExt

CONSTANTS
    VsPeers,          \* external nodes
    VsTrusted,        \* the boot nodes among them
    VsAccepted,       \* peers whose signing key is an accepted verifier signer
    VsSlots,          \* connections of one peer at a time: 1, or 2 for a dial race
    VsMaxActive,      \* MAX_ACTIVE_CONNECTIONS
    VsMaxBlock,       \* bound on the blocks streamed
    VsMaxConnects,    \* bound on connections made
    VsMaxEvents       \* bound on the events not yet tracked

VARIABLES
    vsConns,          \* the connections
    vsRegistry,       \* zks_2fa_registry: peer -> connection
    vsEvents,         \* ProtocolEvents on their way to the session tracker
    vsSessions,       \* PeerSessionStore
    vsDispatched,     \* the last dispatch: connections a request was sent to
    vsConnects

vsVars == <<vsConns, vsRegistry, vsEvents, vsSessions, vsDispatched, vsConnects>>

PeerConns == VsPeers \X (1..VsSlots)

\* A connection: whether it holds a slot of each handler, how far the
\* handshake is, and what the replay task has streamed.  twofa: closed (no
\* lane), request, challenge (the nonce sent), answer, authorized, refused.
NoConn == [open |-> FALSE, permit |-> FALSE, twofa |-> "closed", nonce |-> 0, from |-> -1, sent |-> -1]
NoSession == [known |-> FALSE, from |-> -1, sent |-> -1, auth |-> "none"]

SessionsInit ==
    /\ vsConns = [c \in PeerConns |-> NoConn]
    /\ vsRegistry = [p \in VsPeers |-> << >>]
    /\ vsEvents = << >> /\ vsSessions = [p \in VsPeers |-> NoSession]
    /\ vsDispatched = {} /\ vsConnects = 0

Event(kind, p, n) == [kind |-> kind, peer |-> p, block |-> n]
Room(n) == Len(vsEvents) + n <= VsMaxEvents
Emit(events) == vsEvents' = vsEvents \o events

SlotsUsed == Cardinality({c \in PeerConns : vsConns[c].permit})
LanesUsed == Cardinality({c \in PeerConns : vsConns[c].twofa # "closed"})
SlotFree == SlotsUsed < VsMaxActive

\* try_establish_connection of the `zks` handler: a trusted peer this node dialed
\* takes no slot; an incoming peer is not known yet and always does.
MayConnect(p, outgoing) == (outgoing /\ p \in VsTrusted) \/ SlotFree

\* The `zks_2fa` handler has slots of its own, and no exception.
MayVerify == LanesUsed < VsMaxActive

\* into_connection of the `zks_2fa` handler: the peer's lane is the newest one.
RegisterLane(c) == [vsRegistry EXCEPT ![c[1]] = c]

\* into_connection of both handlers.
Establish(c, outgoing) ==
    /\ ~vsConns[c].open /\ vsConnects < VsMaxConnects /\ Room(1)
    /\ MayConnect(c[1], outgoing)
    /\ vsConns' = [vsConns EXCEPT ![c] = [NoConn EXCEPT !.open = TRUE,
                     !.permit = ~(outgoing /\ c[1] \in VsTrusted),
                     !.twofa = IF MayVerify THEN "request" ELSE "closed"]]
    /\ vsRegistry' = IF MayVerify THEN RegisterLane(c) ELSE vsRegistry
    /\ Emit(<<Event("established", c[1], 0)>>)
    /\ vsConnects' = vsConnects + 1
    /\ UNCHANGED <<vsSessions, vsDispatched>>

\* No slot: the connection is not made and only the limit is reported.
Refuse(c, outgoing) ==
    /\ ~vsConns[c].open /\ vsConnects < VsMaxConnects /\ Room(1)
    /\ ~MayConnect(c[1], outgoing)
    /\ Emit(<<Event("max_active_exceeded", c[1], 0)>>)
    /\ vsConnects' = vsConnects + 1
    /\ UNCHANGED <<vsConns, vsRegistry, vsSessions, vsDispatched>>

-----------------------------------------------------------------------------
(* run_mn_connection, seen from the store *)

RequestReplays(c, n) ==
    /\ vsConns[c].open /\ vsConns[c].from = -1 /\ Room(1)
    /\ vsConns' = [vsConns EXCEPT ![c].from = n, ![c].sent = n - 1]
    /\ Emit(<<Event("replay_requested", c[1], n)>>)
    /\ UNCHANGED <<vsRegistry, vsSessions, vsDispatched, vsConnects>>

SendReplay(c) ==
    /\ vsConns[c].open /\ vsConns[c].from # -1 /\ vsConns[c].sent < VsMaxBlock /\ Room(1)
    /\ vsConns' = [vsConns EXCEPT ![c].sent = @ + 1]
    /\ Emit(<<Event("replay_sent", c[1], vsConns[c].sent + 1)>>)
    /\ UNCHANGED <<vsRegistry, vsSessions, vsDispatched, vsConnects>>

-----------------------------------------------------------------------------
(* run_2fa_mn_connection and the peer's run_2fa_en_connection *)

\* The peer's role request, answered with a fresh nonce.
Challenge(c) ==
    /\ vsConns[c].twofa = "request" /\ Room(2)
    /\ vsConns' = [vsConns EXCEPT ![c].twofa = "challenge", ![c].nonce = vsConnects]
    /\ Emit(<<Event("role_requested", c[1], 0), Event("challenge_sent", c[1], 0)>>)
    /\ UNCHANGED <<vsRegistry, vsSessions, vsDispatched, vsConnects>>

\* The peer signs the nonce with its key.
Answer(c) ==
    /\ vsConns[c].twofa = "challenge"
    /\ vsConns' = [vsConns EXCEPT ![c].twofa = "answer"]
    /\ UNCHANGED <<vsRegistry, vsEvents, vsSessions, vsDispatched, vsConnects>>

\* Mutant: any recovered signer is accepted.
MutAccepts(p) == TRUE

\* The recovered signer is one of accepted_verifier_signers.
Accepts(p) == p \in VsAccepted

\* recover_verifier_signer for the pending nonce, which is taken.
Authorize(c) ==
    /\ vsConns[c].twofa = "answer" /\ Room(1)
    /\ vsConns' = [vsConns EXCEPT ![c].twofa = IF Accepts(c[1]) THEN "authorized" ELSE "refused",
                                  ![c].nonce = 0]
    /\ Emit(<<Event(IF Accepts(c[1]) THEN "authorized" ELSE "unauthorized", c[1], 0)>>)
    /\ UNCHANGED <<vsRegistry, vsSessions, vsDispatched, vsConnects>>

-----------------------------------------------------------------------------
\* Drop of ZksConnection and Zks2faConnection: the session is reported closed,
\* the registry entry of the peer removed and the slots given back.
Drop(c) ==
    /\ vsConns[c].open /\ Room(1)
    /\ vsConns' = [vsConns EXCEPT ![c] = NoConn]
    /\ vsRegistry' = IF vsConns[c].twofa # "closed" THEN [vsRegistry EXCEPT ![c[1]] = << >>] ELSE vsRegistry
    /\ Emit(<<Event("closed", c[1], 0)>>)
    /\ UNCHANGED <<vsSessions, vsDispatched, vsConnects>>

\* PeerSessionStore::insert replaces the entry.
InsertSession(session) == [NoSession EXCEPT !.known = TRUE]

\* The other updates of the store find no entry of an unknown peer.
SetReplay(session, n) == [session EXCEPT !.from = n, !.sent = -1]
SetSent(session, n) == IF session.from = -1 THEN session ELSE [session EXCEPT !.sent = n]
SetAuth(session, state) == [session EXCEPT !.auth = state]

Tracked(session, e) ==
    CASE e.kind = "established" -> InsertSession(session)
      [] e.kind = "closed" -> NoSession
      [] e.kind = "max_active_exceeded" \/ ~session.known -> session
      [] e.kind = "replay_requested" /\ session.known -> SetReplay(session, e.block)
      [] e.kind = "replay_sent" /\ session.known -> SetSent(session, e.block)
      [] e.kind \in {"role_requested", "challenge_sent", "authorized", "unauthorized"}
           /\ session.known -> SetAuth(session, e.kind)

\* The "p2p session tracker" task.
TrackEvent ==
    /\ vsEvents # << >>
    /\ vsSessions' = [vsSessions EXCEPT ![Head(vsEvents).peer] = Tracked(@, Head(vsEvents))]
    /\ vsEvents' = Tail(vsEvents)
    /\ UNCHANGED <<vsConns, vsRegistry, vsDispatched, vsConnects>>

\* ReplaySession::can_verify, for streams that asked for and got some blocks.
CanVerify(session, block) == session.from > block \/ session.sent >= block

AuthorizedVerifierPeers(block) ==
    {p \in VsPeers : /\ vsSessions[p].known /\ vsSessions[p].from # -1
                     /\ CanVerify(vsSessions[p], block)
                     /\ vsSessions[p].auth = "authorized"}

\* dispatch_verify_batch: to the lane the registry has for an eligible peer.
Targets(block) == {vsRegistry[p] : p \in AuthorizedVerifierPeers(block)} \ {<< >>}

DispatchVerifyBatch(block) ==
    /\ vsDispatched' = Targets(block)
    /\ UNCHANGED <<vsConns, vsRegistry, vsEvents, vsSessions, vsConnects>>

SessionsNext ==
    \/ \E c \in PeerConns :
         \/ \E outgoing \in BOOLEAN : Establish(c, outgoing) \/ Refuse(c, outgoing)
         \/ \E n \in 0..(VsMaxBlock + 1) : RequestReplays(c, n)
         \/ SendReplay(c) \/ Challenge(c) \/ Answer(c) \/ Authorize(c) \/ Drop(c)
    \/ TrackEvent
    \/ \E block \in 1..VsMaxBlock : DispatchVerifyBatch(block)

-----------------------------------------------------------------------------
(* Properties. *)

\* The connections that completed authentication and hold the block.
Verified(block) ==
    {c \in PeerConns : /\ vsConns[c].open /\ vsConns[c].twofa = "authorized"
                       /\ vsConns[c].from # -1
                       /\ CanVerify(vsConns[c], block)}

\* Once every event is tracked the store and the registry select exactly the
\* connections that authenticated with an accepted key in this session and
\* hold the block, however often the peer reconnected; and no more connections
\* hold a slot than the limit (PeerSessionStore, zks_2fa_registry).
DispatchSelectsVerified ==
    /\ vsEvents = << >> => \A block \in 1..VsMaxBlock :
         Targets(block) = {c \in Verified(block) : c[1] \in VsAccepted}
    /\ SlotsUsed <= VsMaxActive /\ LanesUsed <= VsMaxActive

\* dispatch_verify_batch: "an otherwise eligible peer is skipped if its `zks_2fa`
\* lane has already closed" (lib/network/src/service.rs:679): a peer with an
\* open lane that is authenticated and holds the block is not skipped.
LiveVerifierDispatched ==
    vsEvents = << >> => \A c \in Verified(1) : \E t \in Targets(1) : t[1] = c[1]

\* "completed verifier authentication successfully for the current session"
\* (lib/network/src/session.rs:162): a request goes to no other connection.
DispatchOnlyAuthenticated ==
    \A c \in UNION {Targets(block) : block \in 1..VsMaxBlock} : vsConns[c].twofa = "authorized"

=============================================================================
