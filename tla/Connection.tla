------------------------------ MODULE Connection ------------------------------
(***************************************************************************)
(* The extension's connection to the gateway: the bridge client with its     *)
(* reconnection (bridge/client.ts, shared/reconnect.ts), and the service      *)
(* worker's handlers that pair, disconnect and start (service-worker.ts) over  *)
(* the stored pairing (shared/storage.ts).  The gateway's side is what they    *)
(* meet: credentials that are kept in memory, an upgrade that is accepted or   *)
(* refused, a snapshot of the active session and its changes.                 *)
(*                                                                         *)
(* attachBridge and disconnect stop a client before it is replaced, and a      *)
(* stopped client does nothing more, so one client is enough.                 *)
(***************************************************************************)
EXTENDS Naturals, Sequences

CONSTANTS
    Scenarios,    \* sets of circumstances to examine
    MaxTokens,    \* bound: pairings
    MaxEvents,    \* bound: losses, restarts, revocations and failed pairings
    MaxRevision,  \* bound: changes of the active session
    MaxAttempts   \* bound on the count of reconnection attempts that is told apart

Circumstances ==
    {"badcode",   \* the user pairs with a code that is refused
     "busy",      \* something happens while a handler waits
     "worker",    \* the browser stops and starts the service worker
     "network",   \* connections are lost and attempts fail
     "revoke",    \* a credential is revoked while its connection is open
     "offline",   \* ... or while it is not
     "gateway"}   \* the gateway is restarted

ASSUME ConnectionAssumption ==
    /\ Scenarios \subseteq SUBSET Circumstances
    /\ MaxTokens \in Nat /\ MaxEvents \in Nat /\ MaxRevision \in Nat /\ MaxAttempts \in Nat

VARIABLES
    scenario,
    stored,      \* token of the stored pairing, 0 for none
    bridge,      \* the client: token, socket, and attempts of its backoff
    connection,  \* connection, as the panel shows it
    chat,        \* chat: the active session as the panel shows it
    booting,     \* waiting handlers: boot, how often, with the pairing it has read,
    pairing,     \* pair, its code accepted and its pairing saved or not yet,
    leaving,     \* and disconnect, its client stopped and the pairing cleared or not yet
    valid,       \* external: tokens the gateway accepts
    minted,      \* external: tokens the gateway has made
    session,     \* external: the gateway's active session: its start, its revision
    inbox,       \* sessions on their way to the extension
    events

workerVars == <<stored, bridge, connection, chat, booting, pairing, leaving>>
gatewayVars == <<valid, minted, session, inbox>>
vars == <<scenario, workerVars, gatewayVars, events>>

NoBridge == [token |-> 0, socket |-> "none", attempt |-> 0]
NoSession == [start |-> 0, revision |-> 0]
NotPairing == [stage |-> "none", token |-> 0]

Quiet == booting.times = 0 /\ pairing.stage = "none" /\ leaving = "no"
MayAct == Quiet \/ "busy" \in scenario

Event == events < MaxEvents /\ events' = events + 1

-------------------------------------------------------------------------------
(* The bridge client                                                       *)

\* start(): the socket is opened at once.
Start(token) == [token |-> token, socket |-> "connecting", attempt |-> 0]

\* scheduleReconnect; the timer is the socket state "timer".
Scheduled(client) ==
    [client EXCEPT !.socket = "timer",
                   !.attempt = IF @ < MaxAttempts THEN @ + 1 ELSE @]

\* Mutant: a socket that opens is sent no snapshot.
OpensWithoutSnapshot ==
    /\ bridge.socket = "connecting"
    /\ bridge.token \in valid
    /\ bridge' = [bridge EXCEPT !.socket = "open", !.attempt = 0]
    /\ connection' = "connected"
    /\ inbox' = <<>>
    /\ UNCHANGED <<scenario, stored, chat, booting, pairing, leaving, valid, minted, session, events>>

\* The upgrade is accepted and the open event handled: the gateway sends the
\* session as it is now.
Opens ==
    /\ bridge.socket = "connecting"
    /\ bridge.token \in valid
    /\ bridge' = [bridge EXCEPT !.socket = "open", !.attempt = 0]
    /\ connection' = "connected"
    /\ inbox' = <<session>>
    /\ UNCHANGED <<scenario, stored, chat, booting, pairing, leaving, valid, minted, session, events>>

\* The upgrade is refused with 401, which a WebSocket reports as a plain close.
RefusedUpgrade ==
    /\ bridge.socket = "connecting"
    /\ bridge.token \notin valid
    /\ bridge' = Scheduled(bridge)
    /\ connection' = "reconnecting"
    /\ UNCHANGED <<scenario, stored, chat, booting, pairing, leaving, gatewayVars, events>>

\* Mutant: only the loss of an open connection schedules an attempt.
LostWhenOpen ==
    /\ "network" \in scenario
    /\ Event
    /\ bridge.socket \in {"connecting", "open"}
    /\ bridge' = IF bridge.socket = "open" THEN Scheduled(bridge)
                 ELSE [bridge EXCEPT !.socket = "none"]
    /\ connection' = "reconnecting"
    /\ inbox' = <<>>
    /\ UNCHANGED <<scenario, stored, chat, booting, pairing, leaving, valid, minted, session>>

\* Mutant: the panel is not told that the connection is lost.
LostSilently ==
    /\ "network" \in scenario
    /\ Event
    /\ bridge.socket \in {"connecting", "open"}
    /\ bridge' = Scheduled(bridge)
    /\ inbox' = <<>>
    /\ UNCHANGED <<scenario, stored, connection, chat, booting, pairing, leaving, valid, minted, session>>

\* The connection is lost, or does not come about.
Lost ==
    /\ "network" \in scenario
    /\ Event
    /\ bridge.socket \in {"connecting", "open"}
    /\ bridge' = Scheduled(bridge)
    /\ connection' = "reconnecting"
    /\ inbox' = <<>>
    /\ UNCHANGED <<scenario, stored, chat, booting, pairing, leaving, valid, minted, session>>

Reconnect ==
    /\ bridge.socket = "timer"
    /\ bridge' = [bridge EXCEPT !.socket = "connecting"]
    /\ connection' = IF bridge.attempt = 0 THEN "connecting" ELSE "reconnecting"
    /\ UNCHANGED <<scenario, stored, chat, booting, pairing, leaving, gatewayVars, events>>

\* activeSession.changed: an older revision than the one that is shown is dropped.
SessionArrives ==
    /\ inbox # <<>>
    /\ inbox' = Tail(inbox)
    /\ chat' = IF Head(inbox).revision >= chat.revision THEN Head(inbox) ELSE chat
    /\ UNCHANGED <<scenario, stored, bridge, connection, booting, pairing, leaving,
                   valid, minted, session, events>>

-------------------------------------------------------------------------------
(* The service worker                                                      *)

\* boot() has read the stored pairing when the worker started.  It is called when
\* the worker is loaded, and once more when the browser has started.
BootEnds ==
    /\ booting.times > 0
    /\ booting' = [booting EXCEPT !.times = @ - 1]
    /\ IF booting.token # 0
       THEN /\ bridge' = Start(booting.token)
            /\ connection' = "connecting"
            /\ inbox' = <<>>
       ELSE connection' = "disconnected" /\ UNCHANGED <<bridge, inbox>>
    /\ UNCHANGED <<scenario, stored, chat, pairing, leaving, valid, minted, session, events>>

\* pair: the gateway accepts the code ...
PairAccepted ==
    /\ MayAct
    /\ pairing.stage = "none"
    /\ minted < MaxTokens
    /\ minted' = minted + 1
    /\ valid' = valid \cup {minted'}
    /\ pairing' = [stage |-> "accepted", token |-> minted']
    /\ UNCHANGED <<scenario, stored, bridge, connection, chat, booting, leaving,
                   session, inbox, events>>

\* ... the pairing is stored ...
PairSaved ==
    /\ pairing.stage = "accepted"
    /\ stored' = pairing.token
    /\ pairing' = [pairing EXCEPT !.stage = "saved"]
    /\ UNCHANGED <<scenario, bridge, connection, chat, booting, leaving, gatewayVars, events>>

\* ... and the client replaced.
PairEnds ==
    /\ pairing.stage = "saved"
    /\ pairing' = NotPairing
    /\ bridge' = Start(pairing.token)
    /\ connection' = "connecting"
    /\ inbox' = <<>>
    /\ UNCHANGED <<scenario, stored, chat, booting, leaving, valid, minted, session, events>>

\* The code is refused, or the gateway does not answer.
PairFails ==
    /\ "badcode" \in scenario
    /\ Event
    /\ MayAct
    /\ connection' = "re_pair_required"
    /\ UNCHANGED <<scenario, stored, bridge, chat, booting, pairing, leaving, gatewayVars>>

\* disconnect: the client is stopped ...
Disconnect ==
    /\ MayAct
    /\ leaving = "no"
    /\ leaving' = "stopped"
    /\ bridge' = NoBridge
    /\ inbox' = <<>>
    /\ connection' = IF bridge = NoBridge THEN connection ELSE "disconnected"
    /\ UNCHANGED <<scenario, stored, chat, booting, pairing, valid, minted, session, events>>

\* Mutant: the stored pairing stays.
PairingKept ==
    /\ leaving = "stopped"
    /\ leaving' = "cleared"
    /\ UNCHANGED <<scenario, stored, bridge, connection, chat, booting, pairing,
                   gatewayVars, events>>

\* ... the stored pairing removed ...
PairingCleared ==
    /\ leaving = "stopped"
    /\ leaving' = "cleared"
    /\ stored' = 0
    /\ UNCHANGED <<scenario, bridge, connection, chat, booting, pairing, gatewayVars, events>>

\* ... and the session the panel shows.
DisconnectEnds ==
    /\ leaving = "cleared"
    /\ leaving' = "no"
    /\ connection' = "disconnected"
    /\ chat' = NoSession
    /\ UNCHANGED <<scenario, stored, bridge, booting, pairing, gatewayVars, events>>

\* The browser ends the worker, also in the middle of a handler, and starts it
\* again for the next event: what it had in memory is lost, what it was doing is
\* not continued.
WorkerRestarts ==
    /\ "worker" \in scenario
    /\ Event
    /\ bridge' = NoBridge
    /\ inbox' = <<>>
    /\ connection' = "disconnected"
    /\ chat' = NoSession
    /\ pairing' = NotPairing
    /\ leaving' = "no"
    /\ \E times \in {1, 2} : booting' = [times |-> times, token |-> stored]
    /\ UNCHANGED <<scenario, stored, valid, minted, session>>

-------------------------------------------------------------------------------
(* The gateway                                                             *)

\* connection_revoke: an open connection is closed with code 4001, and the client
\* has the worker forget the pairing.
Revoke(token) ==
    /\ token \in valid
    /\ Event
    /\ MayAct
    /\ valid' = valid \ {token}
    /\ IF bridge.token = token /\ bridge.socket = "open"
       THEN /\ "revoke" \in scenario
            /\ bridge' = NoBridge
            /\ stored' = 0
            /\ connection' = "re_pair_required"
            /\ inbox' = <<>>
       ELSE "offline" \in scenario /\ UNCHANGED <<bridge, stored, connection, inbox>>
    /\ UNCHANGED <<scenario, chat, booting, pairing, leaving, minted, session>>

\* A restart of the gateway: credentials and session are gone.
GatewayRestarts ==
    /\ "gateway" \in scenario
    /\ Event
    /\ valid' = {}
    /\ session' = [start |-> session.start + 1, revision |-> 0]
    /\ inbox' = <<>>
    /\ IF bridge.socket \in {"connecting", "open"}
       THEN bridge' = Scheduled(bridge) /\ connection' = "reconnecting"
       ELSE UNCHANGED <<bridge, connection>>
    /\ UNCHANGED <<scenario, stored, chat, booting, pairing, leaving, minted>>

\* The active session changes and is told to the open connection.
SessionChanges ==
    /\ session.revision < MaxRevision
    /\ session' = [session EXCEPT !.revision = @ + 1]
    /\ inbox' = IF bridge.socket = "open" THEN Append(inbox, session') ELSE inbox
    /\ UNCHANGED <<scenario, workerVars, valid, minted, events>>

-------------------------------------------------------------------------------
(* Specification                                                           *)

Init ==
    /\ scenario \in Scenarios
    /\ stored = 0
    /\ bridge = NoBridge
    /\ connection = "disconnected"
    /\ chat = NoSession
    /\ \E times \in {1, 2} : booting = [times |-> times, token |-> 0]
    /\ pairing = NotPairing
    /\ leaving = "no"
    /\ valid = {}
    /\ minted = 0
    /\ session = NoSession
    /\ inbox = <<>>
    /\ events = 0

Next ==
    \/ Opens \/ RefusedUpgrade \/ Lost \/ Reconnect \/ SessionArrives
    \/ BootEnds \/ PairAccepted \/ PairSaved \/ PairEnds \/ PairFails
    \/ Disconnect \/ PairingCleared \/ DisconnectEnds \/ WorkerRestarts
    \/ \E token \in 1 .. MaxTokens : Revoke(token)
    \/ GatewayRestarts \/ SessionChanges

Spec == Init /\ [][Next]_vars

\* Awaited calls return, timers run out, and an attempt to connect is answered.
\* Nothing is assumed of users, losses, revocations and restarts.
Fairness ==
    /\ WF_vars(BootEnds) /\ WF_vars(PairSaved) /\ WF_vars(PairEnds)
    /\ WF_vars(PairingCleared) /\ WF_vars(DisconnectEnds)
    /\ WF_vars(Opens) /\ WF_vars(RefusedUpgrade) /\ WF_vars(Reconnect)

FairSpec == Spec /\ Fairness

-------------------------------------------------------------------------------
(* Properties                                                              *)

Without(circumstances) == scenario \cap circumstances = {}

\* The panel says "connected" exactly while the connection is open: selections are
\* sent only when it does, so a wrong "re-pair required" would keep them local.
\* A refused code while connected makes it wrong, and so does what happens while
\* a handler waits.
ConnectedMeansOpen ==
    Without({"badcode", "busy"}) =>
        (connection = "connected" <=> bridge.socket = "open")

\* What is stored is what is live: a worker that is stopped and started again, also
\* in the middle of a handler, resumes the connection that is stored, and none that
\* the gateway has revoked or whose pairing the user has removed ("Rehydrate pair
\* config", EDGE-014).  A worker stopped in a disconnect before the removal resumes
\* what the user was leaving, one stopped in a pairing before it is stored what was
\* there before.  Other things that happen while a handler waits for the storage can
\* break it.
StoredIsLive ==
    Without({"busy"}) /\ Quiet => bridge.token = stored

\* With everything delivered, the panel shows the gateway's active session, also
\* after losses and restarts of the worker ("restores the current session/status
\* after connection resumes", SCN-011).  A restarted gateway counts its revisions
\* anew, and a panel that remembers a higher one drops its sessions; a disconnect
\* that ends late clears what a new connection has brought.
ChatFollowsGateway ==
    Without({"gateway", "busy"}) /\ bridge.socket = "open" /\ inbox = <<>> => chat = session

\* A client whose credential is accepted gets its connection: after every loss it
\* tries again until it is connected, replaced, left or revoked (FR-027).
ReconnectsWhileValid ==
    \A token \in 1 .. MaxTokens :
        (bridge.token = token /\ token \in valid)
            ~> (bridge.token = token => token \notin valid \/ bridge.socket = "open")

===============================================================================
