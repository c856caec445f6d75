----------------------------- MODULE ConnectionProofs -----------------------------
(***************************************************************************)
(* Theorems about Connection for every value of its constants: the panel says    *)
(* "connected" when the connection is open, the pairing that is stored is the     *)
(* one that is live, and the panel comes to show the gateway's session.           *)
(***************************************************************************)
EXTENDS Connection, SequenceTheorems, Integers, TLAPS

-------------------------------------------------------------------------------
(* Types                                                                   *)

Client == [token : Nat, socket : {"none", "connecting", "open", "timer"}, attempt : Nat]
Session == [start : Nat, revision : Nat]
Pairings == [stage : {"none", "accepted", "saved"}, token : Nat]

\* The types of the worker's variables and of what the gateway sends.
ConnectionTypeOK ==
    /\ stored \in Nat
    /\ bridge \in Client
    /\ chat \in Session
    /\ booting \in [times : Nat, token : Nat]
    /\ pairing \in Pairings
    /\ leaving \in {"no", "stopped", "cleared"}
    /\ minted \in Nat
    /\ session \in Session
    /\ inbox \in Seq(Session)

\* A client that is started, and one that waits for its next attempt.
LEMMA ClientTypes ==
    /\ NoBridge \in Client
    /\ \A token \in Nat : Start(token) \in Client
    /\ \A client \in Client :
          /\ Scheduled(client) \in Client
          /\ Scheduled(client).token = client.token
          /\ Scheduled(client).socket = "timer"
<1>1. NoBridge \in Client /\ \A token \in Nat : Start(token) \in Client
    BY DEF NoBridge, Client, Start
<1>2. ASSUME NEW client \in Client
      PROVE  /\ Scheduled(client) \in Client
             /\ Scheduled(client).token = client.token
             /\ Scheduled(client).socket = "timer"
    <2> DEFINE next == IF client.attempt < MaxAttempts THEN client.attempt + 1 ELSE client.attempt
    <2>1. next \in Nat
        BY DEF Client
    <2>2. Scheduled(client) = [client EXCEPT !.socket = "timer", !.attempt = next]
        BY DEF Scheduled
    <2> HIDE DEF next
    <2> QED BY <2>1, <2>2 DEF Client
<1> QED BY <1>1, <1>2

\* The session before any is known, and a queue with none.
LEMMA SessionTypes ==
    /\ NoSession \in Session
    /\ <<>> \in Seq(Session)
    /\ \A s \in Session : <<s>> \in Seq(Session)
    /\ \A s \in Session, queue \in Seq(Session) : Append(queue, s) \in Seq(Session)
    /\ \A queue \in Seq(Session) :
          queue # <<>> => Head(queue) \in Session /\ Tail(queue) \in Seq(Session)
<1>1. NoSession \in Session
    BY DEF NoSession, Session
<1>2. <<>> \in Seq(Session)
    OBVIOUS
<1>3. \A s \in Session : <<s>> \in Seq(Session)
    OBVIOUS
<1>4. \A s \in Session, queue \in Seq(Session) : Append(queue, s) \in Seq(Session)
    OBVIOUS
<1>5. \A queue \in Seq(Session) :
          queue # <<>> => Head(queue) \in Session /\ Tail(queue) \in Seq(Session)
    OBVIOUS
<1> QED BY <1>1, <1>2, <1>3, <1>4, <1>5

\* Every step keeps the types.
LEMMA ConnectionStepType ==
    ASSUME ConnectionTypeOK, [Next]_vars
    PROVE  ConnectionTypeOK'
<1> USE ClientTypes, SessionTypes DEF ConnectionTypeOK, workerVars, gatewayVars
<1>1. CASE Opens
    BY <1>1 DEF Opens, Client
<1>2. CASE RefusedUpgrade
    BY <1>2 DEF RefusedUpgrade
<1>3. CASE Lost
    BY <1>3 DEF Lost
<1>4. CASE Reconnect
    BY <1>4 DEF Reconnect, Client
<1>5. CASE SessionArrives
    BY <1>5 DEF SessionArrives
<1>6. CASE BootEnds
    <2>1. bridge' \in Client /\ inbox' \in Seq(Session)
        BY <1>6 DEF BootEnds
    <2>2. booting' \in [times : Nat, token : Nat]
        BY <1>6 DEF BootEnds
    <2> QED BY <1>6, <2>1, <2>2 DEF BootEnds
<1>7. CASE PairAccepted
    BY <1>7 DEF PairAccepted, Pairings
<1>17. CASE PairSaved
    BY <1>17 DEF PairSaved, Pairings
<1>8. CASE PairEnds
    <2>1. bridge' \in Client /\ inbox' \in Seq(Session) /\ pairing' \in Pairings
        BY <1>8 DEF PairEnds, NotPairing, Pairings
    <2> QED BY <1>8, <2>1 DEF PairEnds
<1>9. CASE PairFails
    BY <1>9 DEF PairFails
<1>10. CASE Disconnect
    BY <1>10 DEF Disconnect
<1>18. CASE PairingCleared
    BY <1>18 DEF PairingCleared
<1>11. CASE DisconnectEnds
    BY <1>11 DEF DisconnectEnds
<1>12. CASE WorkerRestarts
    <2>1. bridge' \in Client /\ inbox' \in Seq(Session) /\ chat' \in Session
        BY <1>12, Zenon DEF WorkerRestarts
    <2>2. booting' \in [times : Nat, token : Nat]
        BY <1>12 DEF WorkerRestarts
    <2>3. pairing' \in Pairings
        BY <1>12 DEF WorkerRestarts, NotPairing, Pairings
    <2> QED BY <1>12, <2>1, <2>2, <2>3 DEF WorkerRestarts
<1>13. ASSUME NEW token \in 1 .. MaxTokens, Revoke(token)
       PROVE  ConnectionTypeOK'
    <2>1. /\ bridge' = NoBridge \/ bridge' = bridge
          /\ inbox' = <<>> \/ inbox' = inbox
          /\ stored' = 0 \/ stored' = stored
          /\ UNCHANGED <<chat, booting, pairing, leaving, minted, session>>
        BY <1>13 DEF Revoke
    <2>2. bridge' \in Client /\ inbox' \in Seq(Session)
        BY <2>1
    <2> QED BY <2>1, <2>2
<1>14. CASE GatewayRestarts
    BY <1>14 DEF GatewayRestarts, Session
<1>15. CASE SessionChanges
    <2>1. session' \in Session
        <3>1. session.start \in Nat /\ session.revision \in Nat
            BY DEF Session
        <3>2. session' = [session EXCEPT !.revision = session.revision + 1]
            BY <1>15 DEF SessionChanges
        <3>3. session.revision + 1 \in Nat
            BY <3>1
        <3> QED BY <3>2, <3>3, Zenon DEF Session
    <2>2. inbox' = Append(inbox, session') \/ inbox' = inbox
        BY <1>15 DEF SessionChanges
    <2>3. inbox' \in Seq(Session)
        BY <2>1, <2>2, AppendProperties, LenProperties
    <2> QED BY <1>15, <2>1, <2>3 DEF SessionChanges
<1>16. CASE UNCHANGED vars
    BY <1>16 DEF vars
<1> QED
    BY <1>1, <1>2, <1>3, <1>4, <1>5, <1>6, <1>7, <1>8, <1>9, <1>10, <1>11, <1>12, <1>13,
       <1>14, <1>15, <1>16, <1>17, <1>18 DEF Next

\* The variables of the worker always have their types.
THEOREM ConnectionTypeCorrect == Spec => []ConnectionTypeOK
<1>1. Init => ConnectionTypeOK
    <2> SUFFICES ASSUME Init PROVE ConnectionTypeOK
        OBVIOUS
    <2>1. /\ bridge \in Client /\ chat \in Session /\ session \in Session /\ inbox \in Seq(Session)
        <3>1. bridge = NoBridge /\ chat = NoSession /\ session = NoSession /\ inbox = <<>>
            BY DEF Init
        <3> QED BY <3>1, ClientTypes, SessionTypes, Zenon
    <2>2. booting \in [times : Nat, token : Nat]
        BY DEF Init
    <2>3. pairing \in Pairings
        BY DEF Init, NotPairing, Pairings
    <2>4. stored \in Nat /\ leaving = "no" /\ minted \in Nat
        BY DEF Init
    <2> QED BY <2>1, <2>2, <2>3, <2>4, Zenon DEF ConnectionTypeOK
<1>2. ConnectionTypeOK /\ [Next]_vars => ConnectionTypeOK'
    BY ConnectionStepType
<1> QED BY <1>1, <1>2, PTL DEF Spec

-------------------------------------------------------------------------------
(* What is stored and what is live                                         *)

\* While a handler waits, what is stored is what the worker has read or written: a
\* start has read the pairing, a pairing that is not stored yet has left the client
\* as it was, a stored one is the one that will be started, a disconnect has stopped
\* the client before it removes the pairing.  One handler waits at a time, and a
\* client without a credential has no socket.
HandlersInv ==
    Without({"busy"}) =>
        /\ booting.times > 0 =>
              /\ pairing.stage = "none" /\ leaving = "no"
              /\ booting.token = stored
              /\ bridge.token = stored \/ bridge = NoBridge
        /\ pairing.stage = "accepted" => leaving = "no" /\ pairing.token # 0 /\ bridge.token = stored
        /\ pairing.stage = "saved" => leaving = "no" /\ pairing.token = stored /\ stored # 0
        /\ leaving # "no" => bridge = NoBridge
        /\ leaving = "cleared" => stored = 0
        /\ Quiet => bridge.token = stored
        /\ bridge.token = 0 => bridge.socket = "none"

\* Every step keeps the handlers and the storage together.
LEMMA StepKeepsHandlers ==
    ASSUME ConnectionTypeOK, HandlersInv, [Next]_vars
    PROVE  HandlersInv'
<1>0. scenario' = scenario
    BY DEF Next, vars, Opens, RefusedUpgrade, Lost, Reconnect, SessionArrives, BootEnds,
           PairAccepted, PairSaved, PairEnds, PairFails, Disconnect, PairingCleared,
           DisconnectEnds, WorkerRestarts,
           Revoke, GatewayRestarts, SessionChanges
<1> SUFFICES ASSUME Without({"busy"}), ~("busy" \in scenario)
             PROVE  HandlersInv'
    BY <1>0 DEF HandlersInv, Without
<1> USE ClientTypes
    DEF HandlersInv, ConnectionTypeOK, Quiet, MayAct, workerVars, gatewayVars
<1>1. CASE Opens
    BY <1>1 DEF Opens, Client, NoBridge
<1>2. CASE RefusedUpgrade
    BY <1>2 DEF RefusedUpgrade, NoBridge
<1>3. CASE Lost
    BY <1>3 DEF Lost, NoBridge
<1>4. CASE Reconnect
    BY <1>4 DEF Reconnect, Client, NoBridge
<1>5. CASE SessionArrives
    BY <1>5 DEF SessionArrives
<1>6. CASE BootEnds
    BY <1>6 DEF BootEnds, Start, NoBridge
<1>7. CASE PairAccepted
    BY <1>7 DEF PairAccepted
<1>17. CASE PairSaved
    BY <1>17 DEF PairSaved, Pairings
<1>8. CASE PairEnds
    BY <1>8 DEF PairEnds, NotPairing, Start
<1>9. CASE PairFails
    BY <1>9 DEF PairFails
<1>10. CASE Disconnect
    BY <1>10 DEF Disconnect, NoBridge
<1>18. CASE PairingCleared
    BY <1>18 DEF PairingCleared, NoBridge
<1>11. CASE DisconnectEnds
    BY <1>11 DEF DisconnectEnds, NoBridge
<1>12. CASE WorkerRestarts
    <2>1. /\ booting'.token = stored /\ bridge' = NoBridge /\ pairing' = NotPairing
          /\ leaving' = "no" /\ UNCHANGED <<stored, scenario>>
          /\ booting'.times > 0
        BY <1>12 DEF WorkerRestarts
    <2>2. NoBridge.token = 0 /\ NoBridge.socket = "none" /\ NotPairing.stage = "none"
        BY DEF NoBridge, NotPairing
    <2> QED BY <2>1, <2>2
<1>13. ASSUME NEW token \in 1 .. MaxTokens, Revoke(token)
       PROVE  HandlersInv'
    BY <1>13 DEF Revoke, NoBridge
<1>14. CASE GatewayRestarts
    BY <1>14 DEF GatewayRestarts, NoBridge
<1>15. CASE SessionChanges
    BY <1>15 DEF SessionChanges
<1>16. CASE UNCHANGED vars
    BY <1>16 DEF vars
<1> QED
    BY <1>1, <1>2, <1>3, <1>4, <1>5, <1>6, <1>7, <1>8, <1>9, <1>10, <1>11, <1>12, <1>13,
       <1>14, <1>15, <1>16, <1>17, <1>18 DEF Next

\* The handlers and the storage are together from the start.
LEMMA HandlersHold == Spec => []HandlersInv
<1>1. Init => HandlersInv
    BY DEF Init, HandlersInv, Quiet, NotPairing, NoBridge
<1>2. ConnectionTypeOK /\ HandlersInv /\ [Next]_vars => HandlersInv'
    BY StepKeepsHandlers
<1> QED BY <1>1, <1>2, ConnectionTypeCorrect, PTL DEF Spec

\* While no handler waits, the client has the credential that is stored, or there is
\* neither; if nothing happens while one does.
THEOREM StoredPairingIsLive == Spec => []StoredIsLive
<1>1. HandlersInv => StoredIsLive
    BY DEF HandlersInv, StoredIsLive
<1> QED BY <1>1, HandlersHold, PTL

-------------------------------------------------------------------------------
(* What the panel shows                                                    *)

\* A connection is shown exactly when it is open: nothing that shows another state
\* leaves the client of an open one in place.
LEMMA StepKeepsShown ==
    ASSUME ConnectionTypeOK, HandlersInv, ConnectedMeansOpen, [Next]_vars
    PROVE  ConnectedMeansOpen'
<1>0. scenario' = scenario
    BY DEF Next, vars, Opens, RefusedUpgrade, Lost, Reconnect, SessionArrives, BootEnds,
           PairAccepted, PairSaved, PairEnds, PairFails, Disconnect, PairingCleared,
           DisconnectEnds, WorkerRestarts,
           Revoke, GatewayRestarts, SessionChanges
<1> SUFFICES ASSUME Without({"busy"}), Without({"badcode", "busy"})
             PROVE  (connection = "connected" <=> bridge.socket = "open")'
    BY <1>0 DEF ConnectedMeansOpen, Without
<1>a. connection = "connected" <=> bridge.socket = "open"
    BY DEF ConnectedMeansOpen
<1> USE <1>0, <1>a, ClientTypes DEF ConnectionTypeOK, workerVars, gatewayVars
<1>1. CASE Opens
    BY <1>1 DEF Opens, Client
<1>2. CASE RefusedUpgrade
    BY <1>2 DEF RefusedUpgrade
<1>3. CASE Lost
    BY <1>3 DEF Lost
<1>4. CASE Reconnect
    BY <1>4 DEF Reconnect, Client
<1>5. CASE SessionArrives
    BY <1>5 DEF SessionArrives
<1>6. CASE BootEnds
    BY <1>6 DEF BootEnds, Start, NoBridge, HandlersInv
<1>7. CASE PairAccepted
    BY <1>7 DEF PairAccepted
<1>17. CASE PairSaved
    BY <1>17 DEF PairSaved
<1>8. CASE PairEnds
    BY <1>8 DEF PairEnds, Start
<1>9. CASE PairFails
    BY <1>9 DEF PairFails, Without
<1>10. CASE Disconnect
    BY <1>10 DEF Disconnect, NoBridge
<1>18. CASE PairingCleared
    BY <1>18 DEF PairingCleared
<1>11. CASE DisconnectEnds
    BY <1>11 DEF DisconnectEnds, NoBridge, HandlersInv
<1>12. CASE WorkerRestarts
    BY <1>12 DEF WorkerRestarts, NoBridge
<1>13. ASSUME NEW token \in 1 .. MaxTokens, Revoke(token)
       PROVE  (connection = "connected" <=> bridge.socket = "open")'
    BY <1>13 DEF Revoke, NoBridge
<1>14. CASE GatewayRestarts
    BY <1>14 DEF GatewayRestarts
<1>15. CASE SessionChanges
    BY <1>15 DEF SessionChanges
<1>16. CASE UNCHANGED vars
    BY <1>16 DEF vars
<1> QED
    BY <1>1, <1>2, <1>3, <1>4, <1>5, <1>6, <1>7, <1>8, <1>9, <1>10, <1>11, <1>12, <1>13,
       <1>14, <1>15, <1>16, <1>17, <1>18 DEF Next

\* The panel says "connected" exactly while the connection is open; with no refused
\* code, and if nothing happens while a handler waits.
THEOREM ShownConnectionIsOpen == Spec => []ConnectedMeansOpen
<1>1. Init => ConnectedMeansOpen
    BY DEF Init, ConnectedMeansOpen, NoBridge
<1>2. ConnectionTypeOK /\ HandlersInv /\ ConnectedMeansOpen /\ [Next]_vars => ConnectedMeansOpen'
    BY StepKeepsShown
<1> QED BY <1>1, <1>2, ConnectionTypeCorrect, HandlersHold, PTL DEF Spec

\* What is on its way to an open connection ends with the gateway's session, and
\* nothing on its way or shown is newer: so the last to arrive is not dropped.
ChatInv ==
    Without({"gateway", "busy"}) =>
        /\ session.start = 0 /\ chat.start = 0 /\ chat.revision <= session.revision
        /\ \A i \in 1 .. Len(inbox) : inbox[i].start = 0 /\ inbox[i].revision <= session.revision
        /\ inbox # <<>> => inbox[Len(inbox)] = session
        /\ bridge.socket # "open" => inbox = <<>>
        /\ bridge.socket = "open" /\ inbox = <<>> => chat = session

\* Two sessions of one start of the gateway with the same revision are the same.
LEMMA SameSession ==
    ASSUME NEW s \in Session, NEW t \in Session, s.start = t.start, s.revision = t.revision
    PROVE  s = t
BY DEF Session

\* The arrival of a session.
LEMMA ArrivalKeepsChat ==
    ASSUME ConnectionTypeOK, ChatInv, Without({"gateway", "busy"}), SessionArrives
    PROVE  ChatInv'
<1> DEFINE n == Len(inbox)
<1>1. /\ inbox # <<>> /\ inbox' = Tail(inbox)
      /\ chat' = IF Head(inbox).revision >= chat.revision THEN Head(inbox) ELSE chat
      /\ UNCHANGED <<scenario, bridge, session>>
    BY DEF SessionArrives
<1>2. /\ n \in Nat \ {0} /\ Len(inbox') = n - 1 /\ Head(inbox) = inbox[1]
      /\ \A i \in 1 .. (n - 1) : inbox'[i] = inbox[i + 1]
      /\ inbox' = <<>> <=> n = 1
      /\ \A i \in 1 .. n : inbox[i] \in Session
    <2>1. inbox \in Seq(Session) /\ inbox # <<>> /\ inbox' = Tail(inbox)
        BY <1>1 DEF ConnectionTypeOK
    <2>2. n \in Nat \ {0} /\ Head(inbox) = inbox[1] /\ \A i \in 1 .. n : inbox[i] \in Session
        BY <2>1, EmptySeq
    <2>3. inbox' \in Seq(Session) /\ Len(inbox') = n - 1
        BY <2>1, HeadTailProperties
    <2>4. \A i \in 1 .. (n - 1) : inbox'[i] = inbox[i + 1]
        BY <2>1, <2>2, <2>3, HeadTailProperties
    <2>5. inbox' = <<>> <=> Len(inbox') = 0
        BY <2>3, EmptySeq
    <2> QED BY <2>2, <2>3, <2>4, <2>5
<1>3. /\ session.start = 0 /\ chat.start = 0 /\ chat.revision <= session.revision
      /\ \A i \in 1 .. n : inbox[i].start = 0 /\ inbox[i].revision <= session.revision
      /\ inbox[n] = session
      /\ bridge.socket = "open"
    BY <1>1 DEF ChatInv
<1> HIDE DEF n
<1>4. chat'.start = 0 /\ chat'.revision <= session.revision
    BY <1>1, <1>2, <1>3
<1>5. \A i \in 1 .. (n - 1) : inbox'[i].start = 0 /\ inbox'[i].revision <= session.revision
    BY <1>2, <1>3
<1>6. CASE n = 1
    <2>1. chat' = session
        BY <1>1, <1>2, <1>3, <1>6
    <2>2. inbox' = <<>> /\ Len(inbox') = 0
        BY <1>2, <1>6
    <2> QED BY <1>1, <1>2, <1>3, <1>4, <1>5, <2>1, <2>2 DEF ChatInv, n
<1>7. CASE n # 1
    <2>1. inbox'[n - 1] = inbox[n] /\ inbox' # <<>>
        BY <1>2, <1>7
    <2> QED BY <1>1, <1>2, <1>3, <1>4, <1>5, <2>1 DEF ChatInv
<1> QED BY <1>6, <1>7

\* Every other step empties the queue, or lets it be and the session too.
LEMMA StepKeepsChat ==
    ASSUME ConnectionTypeOK, HandlersInv, ChatInv, [Next]_vars
    PROVE  ChatInv'
<1>0. scenario' = scenario
    BY DEF Next, vars, Opens, RefusedUpgrade, Lost, Reconnect, SessionArrives, BootEnds,
           PairAccepted, PairSaved, PairEnds, PairFails, Disconnect, PairingCleared,
           DisconnectEnds, WorkerRestarts,
           Revoke, GatewayRestarts, SessionChanges
<1> SUFFICES ASSUME Without({"gateway", "busy"}), Without({"busy"}), ~("gateway" \in scenario)
             PROVE  ChatInv'
    BY <1>0 DEF ChatInv, Without
<1>a. ASSUME inbox' = <<>>, bridge'.socket # "open", UNCHANGED session,
             chat' = chat \/ chat' = NoSession
      PROVE  ChatInv'
    <2>1. session \in Session /\ NoSession.start = 0 /\ NoSession.revision = 0
        BY DEF ConnectionTypeOK, NoSession
    <2>2. chat'.start = 0 /\ chat'.revision <= session.revision
        BY <1>a, <2>1 DEF ChatInv, Session
    <2>3. Len(inbox') = 0
        BY <1>a
    <2> QED BY <1>a, <2>2, <2>3 DEF ChatInv
<1>b. ASSUME UNCHANGED <<inbox, session, chat>>,
             bridge'.socket = "open" <=> bridge.socket = "open"
      PROVE  ChatInv'
    BY <1>b DEF ChatInv
<1> USE ClientTypes DEF ConnectionTypeOK, workerVars, gatewayVars
<1>1. CASE Opens
    <2>1. inbox' = <<session>> /\ UNCHANGED <<session, chat>> /\ bridge'.socket = "open"
        BY <1>1 DEF Opens, Client
    <2>2. /\ Len(inbox') = 1 /\ inbox'[1] = session /\ inbox' # <<>>
          /\ session.revision \in Nat
        BY <2>1 DEF Session
    <2> QED BY <2>1, <2>2 DEF ChatInv
<1>2. CASE RefusedUpgrade
    BY <1>2, <1>b DEF RefusedUpgrade
<1>3. CASE Lost
    BY <1>3, <1>a DEF Lost
<1>4. CASE Reconnect
    BY <1>4, <1>b DEF Reconnect, Client
<1>5. CASE SessionArrives
    BY <1>5, ArrivalKeepsChat
<1>6. CASE BootEnds
    <2>1. CASE booting.token # 0
        BY <1>6, <1>a, <2>1 DEF BootEnds, Start
    <2>2. CASE booting.token = 0
        BY <1>6, <1>b, <2>2 DEF BootEnds
    <2> QED BY <2>1, <2>2
<1>7. CASE PairAccepted
    BY <1>7, <1>b DEF PairAccepted
<1>17. CASE PairSaved
    BY <1>17, <1>b DEF PairSaved
<1>8. CASE PairEnds
    BY <1>8, <1>a DEF PairEnds, Start
<1>9. CASE PairFails
    BY <1>9, <1>b DEF PairFails
<1>10. CASE Disconnect
    BY <1>10, <1>a DEF Disconnect, NoBridge
<1>18. CASE PairingCleared
    BY <1>18, <1>b DEF PairingCleared
<1>11. CASE DisconnectEnds
    <2>1. bridge = NoBridge /\ UNCHANGED <<bridge, inbox, session>> /\ chat' = NoSession
        BY <1>11 DEF DisconnectEnds, HandlersInv
    <2>2. bridge.socket # "open"
        BY <2>1 DEF NoBridge
    <2>3. inbox = <<>>
        BY <2>2 DEF ChatInv
    <2> QED BY <1>a, <2>1, <2>2, <2>3
<1>12. CASE WorkerRestarts
    BY <1>12, <1>a DEF WorkerRestarts, NoBridge
<1>13. ASSUME NEW token \in 1 .. MaxTokens, Revoke(token)
       PROVE  ChatInv'
    <2>1. CASE bridge.token = token /\ bridge.socket = "open"
        BY <1>13, <1>a, <2>1 DEF Revoke, NoBridge
    <2>2. CASE ~(bridge.token = token /\ bridge.socket = "open")
        BY <1>13, <1>b, <2>2 DEF Revoke
    <2> QED BY <2>1, <2>2
<1>14. CASE GatewayRestarts
    BY <1>14 DEF GatewayRestarts
<1>15. CASE SessionChanges
    <2>1. /\ session' \in Session /\ session'.start = session.start
          /\ session'.revision = session.revision + 1 /\ session.revision \in Nat
          /\ UNCHANGED <<bridge, chat>>
        <3>1. session.start \in Nat /\ session.revision \in Nat /\ session \in Session
            BY DEF Session
        <3>2. /\ session' = [session EXCEPT !.revision = session.revision + 1]
              /\ UNCHANGED <<bridge, chat>>
            BY <1>15 DEF SessionChanges
        <3>3. session' = [start |-> session.start, revision |-> session.revision + 1]
            BY <3>1, <3>2, Zenon DEF Session
        <3>4. session.revision + 1 \in Nat
            BY <3>1
        <3> QED BY <3>1, <3>2, <3>3, <3>4 DEF Session
    <2>2. CASE bridge.socket = "open"
        <3>1. inbox' = Append(inbox, session')
            BY <1>15, <2>2 DEF SessionChanges
        <3>2. /\ Len(inbox') = Len(inbox) + 1 /\ Len(inbox) \in Nat /\ inbox' # <<>>
              /\ \A i \in 1 .. Len(inbox) : inbox'[i] = inbox[i] /\ inbox[i] \in Session
              /\ inbox'[Len(inbox) + 1] = session'
            <4>1. inbox \in Seq(Session)
                BY DEF ConnectionTypeOK
            <4> QED BY <2>1, <3>1, <4>1, AppendProperties, LenProperties
        <3>3. \A i \in 1 .. Len(inbox') :
                 inbox'[i].start = 0 /\ inbox'[i].revision <= session'.revision
            <4>1. \A i \in 1 .. Len(inbox) : inbox[i].start = 0 /\ inbox[i].revision <= session.revision
                BY DEF ChatInv
            <4>2. \A i \in 1 .. Len(inbox) : inbox[i].revision \in Nat
                BY <3>2 DEF Session
            <4>3. session.start = 0 /\ session'.revision \in Nat
                BY <2>1 DEF ChatInv, Session
            <4>4. ASSUME NEW i \in 1 .. Len(inbox')
                  PROVE  inbox'[i].start = 0 /\ inbox'[i].revision <= session'.revision
                <5>1. i \in 1 .. Len(inbox) \/ i = Len(inbox) + 1
                    BY <3>2
                <5>2. CASE i \in 1 .. Len(inbox)
                    BY <5>2, <2>1, <3>2, <4>1, <4>2
                <5>3. CASE i = Len(inbox) + 1
                    BY <5>3, <2>1, <3>2, <4>3
                <5> QED BY <5>1, <5>2, <5>3
            <4> QED BY <4>4
        <3>4. chat'.start = 0 /\ session'.start = 0 /\ chat'.revision <= session'.revision
            BY <2>1 DEF ChatInv, Session
        <3> QED BY <2>1, <2>2, <3>2, <3>3, <3>4 DEF ChatInv
    <2>3. CASE bridge.socket # "open"
        <3>1. inbox' = <<>> /\ Len(inbox') = 0
            BY <1>15, <2>3 DEF SessionChanges, ChatInv
        <3>2. chat'.start = 0 /\ session'.start = 0 /\ chat'.revision <= session'.revision
            BY <2>1 DEF ChatInv, Session
        <3> QED BY <2>1, <2>3, <3>1, <3>2 DEF ChatInv
    <2> QED BY <2>2, <2>3
<1>16. CASE UNCHANGED vars
    BY <1>16, <1>b DEF vars
<1> QED
    BY <1>1, <1>2, <1>3, <1>4, <1>5, <1>6, <1>7, <1>8, <1>9, <1>10, <1>11, <1>12, <1>13,
       <1>14, <1>15, <1>16, <1>17, <1>18 DEF Next

\* With everything delivered the panel shows the gateway's session, as long as the
\* gateway is not restarted and nothing happens while a handler waits.
THEOREM ChatIsTheGateways == Spec => []ChatFollowsGateway
<1>1. Init => ChatInv
    BY DEF Init, ChatInv, NoSession, NoBridge
<1>2. ConnectionTypeOK /\ HandlersInv /\ ChatInv /\ [Next]_vars => ChatInv'
    BY StepKeepsChat
<1>3. ChatInv => ChatFollowsGateway
    BY DEF ChatInv, ChatFollowsGateway
<1> QED BY <1>1, <1>2, <1>3, ConnectionTypeCorrect, HandlersHold, PTL DEF Spec

===============================================================================
