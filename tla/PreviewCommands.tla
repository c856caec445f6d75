---------------------------- MODULE PreviewCommands ----------------------------
(***************************************************************************)
(* The agent's apply_preview: the tool's orchestration (preview-apply.ts) over *)
(* the hub that sends a command to the browser owning the selection and waits   *)
(* for its answer (class BridgeHub of bridge-routes.ts), with the sockets that   *)
(* come and go and the requests that make owners.                              *)
(*                                                                         *)
(* The browser is external: it receives a command over the socket of its        *)
(* connection that it opened last, applies it or not, and answers.  The life of  *)
(* batches is the store's affair (BatchStore); here a selection is drafted by a   *)
(* request, is in the context once it is sent, and goes by a request or otherwise. *)
(***************************************************************************)
EXTENDS Naturals, Sequences

CONSTANTS
    Scenarios,      \* sets of circumstances to examine
    Sessions, Connections, RequestIds,
    Selections,
    HomeOf,         \* the session a selection is attached to
    None,           \* no owner
    DedupMax,       \* REQUEST_DEDUP_MAX
    MaxSockets,     \* bound: sockets that are bound
    MaxCalls        \* bound: calls of the tool

Circumstances ==
    {"sameid",    \* a request id is used while it waits, in two sessions, or so late
                  \* that its result may be forgotten
     "sessions",  \* more than one session has selections
     "wrong",     \* values that are refused, selections of another session
     "slow",      \* timers run out
     "fails",     \* the browser refuses a command
     "sockets",   \* sockets close, connections are revoked
     "two",       \* there are two browsers
     "removed"}   \* selections leave the context

ASSUME PreviewAssumption ==
    /\ Scenarios \subseteq SUBSET Circumstances
    /\ HomeOf \in [Selections -> Sessions]
    /\ None \notin Connections
    /\ DedupMax \in Nat \ {0} /\ MaxSockets \in Nat /\ MaxCalls \in Nat

\* A call asks for a value of its own, its number, or for one that
\* validatePreviewStyles refuses.
Unsafe == 0
NoValue == 0

VARIABLES
    scenario,
    sockets,    \* sockets: what was bound, in order: its connection and its readyState
    revoked,    \* connections terminated by connection_revoke
    creating,   \* selection.create requests waiting for the source resolver
    drafted,    \* selections in the draft of their session
    context,    \* selections in its active context: being sent, or sent last
    owners,     \* selectionOwners
    calls,      \* calls of apply_preview, in order
    pending,    \* pendingApplies: the call a request id waits for
    recent,     \* recentResults, in Map order
    recorded,   \* the value recorded for a selection
    commands,   \* external: commands on their way to a browser
    page,       \* external: what a browser shows for a selection
    answers     \* external: answers on their way to the gateway

hubVars == <<sockets, revoked, creating, owners>>
batchVars == <<drafted, context>>
callVars == <<calls, pending, recent, recorded>>
browserVars == <<commands, page, answers>>
vars == <<scenario, hubVars, batchVars, callVars, browserVars>>

Sockets == DOMAIN sockets
Bound(c) == {s \in Sockets : sockets[s].of = c /\ sockets[s].state # "gone"}
OpenOf(c) == {s \in Bound(c) : sockets[s].state = "open"}

\* The browser itself is at the other end of the socket it opened last.
Reached(c) == \E s \in OpenOf(c) : \A t \in Sockets : sockets[t].of = c => t <= s

NoResult == [ok |-> FALSE, value |-> NoValue]
Applied(value) == [ok |-> TRUE, value |-> value]

-------------------------------------------------------------------------------
(* Sockets and owners                                                      *)

\* bindSocket of an authenticated upgrade.
Bind(c) ==
    /\ Len(sockets) < MaxSockets
    /\ c \notin revoked
    /\ Reached(c) => "sockets" \in scenario
    /\ Sockets # {} => ("two" \in scenario \/ c = sockets[1].of)
    /\ sockets' = Append(sockets, [of |-> c, state |-> "open"])
    /\ UNCHANGED <<scenario, revoked, creating, owners, batchVars, callVars, browserVars>>

\* A connection is lost or closed: readyState changes first.  What was on its way is
\* lost with it; an answer the browser has not sent yet goes over the next socket.
Lose(s) ==
    /\ "sockets" \in scenario
    /\ sockets[s].state = "open"
    /\ sockets' = [sockets EXCEPT ![s].state = "closing"]
    /\ commands' = {m \in commands : m.socket # s}
    /\ \E k \in 0 .. Len(answers[sockets[s].of]) :
         answers' = [answers EXCEPT ![sockets[s].of] = SubSeq(@, k + 1, Len(@))]
    /\ UNCHANGED <<scenario, revoked, creating, owners, batchVars, callVars, page>>

\* connection_revoke, terminateConnection.
Revoke(c) ==
    /\ "sockets" \in scenario
    /\ c \notin revoked
    /\ Bound(c) # {}
    /\ revoked' = revoked \cup {c}
    /\ sockets' = [s \in Sockets |->
                     IF s \in OpenOf(c) THEN [sockets[s] EXCEPT !.state = "closing"] ELSE sockets[s]]
    /\ UNCHANGED <<scenario, creating, owners, batchVars, callVars, browserVars>>

\* Mutant: every socket that closes drops the connection's owners.
ClosedDroppingOwners(s) ==
    /\ sockets[s].state = "closing"
    /\ sockets' = [sockets EXCEPT ![s].state = "gone"]
    /\ owners' = [e \in Selections |-> IF owners[e] = sockets[s].of THEN None ELSE owners[e]]
    /\ UNCHANGED <<scenario, revoked, creating, batchVars, callVars, browserVars>>

\* The close event: the last socket of a connection drops its selections' owners.
Closed(s) ==
    /\ sockets[s].state = "closing"
    /\ sockets' = [sockets EXCEPT ![s].state = "gone"]
    /\ owners' = [e \in Selections |->
                    IF Bound(sockets[s].of) = {s} /\ owners[e] = sockets[s].of THEN None
                    ELSE owners[e]]
    /\ UNCHANGED <<scenario, revoked, creating, batchVars, callVars, browserVars>>

\* selection.create arrives, and waits for the resolver.  A selection that calls have
\* named does not come again: a chip attached later has an id of its own.
CreateArrives(s, e) ==
    /\ sockets[s].state # "gone"
    /\ e \notin context /\ \A n \in DOMAIN calls : calls[n].selection # e
    /\ e \in drafted => "two" \in scenario
    /\ drafted \cup context \cup {x[1] : x \in creating} \subseteq {e} \/ "sessions" \in scenario
    /\ <<e, sockets[s].of>> \notin creating
    /\ creating' = creating \cup {<<e, sockets[s].of>>}
    /\ UNCHANGED <<scenario, sockets, revoked, owners, batchVars, callVars, browserVars>>

\* The chip is attached, or found in the draft, and its owner remembered, whether or
\* not the socket is still there.  If it was sent meanwhile, the new chip is another
\* selection, which is left out.
CreateEnds(e, c) ==
    /\ <<e, c>> \in creating
    /\ creating' = creating \ {<<e, c>>}
    /\ IF e \in context THEN UNCHANGED <<drafted, owners>>
       ELSE drafted' = drafted \cup {e} /\ owners' = [owners EXCEPT ![e] = c]
    /\ UNCHANGED <<scenario, sockets, revoked, context, callVars, browserVars>>

\* prepare_send: the draft of a session becomes its active context.
SendDraft(session) ==
    LET home == {e \in Selections : HomeOf[e] = session} IN
    /\ drafted \cap home # {}
    /\ context' = (context \ home) \cup (drafted \cap home)
    /\ drafted' = drafted \ home
    /\ UNCHANGED <<scenario, hubVars, callVars, browserVars>>

\* selection.remove, of a chip in the working batch: the draft, or one being sent.
RemoveArrives(s, e) ==
    /\ "removed" \in scenario
    /\ sockets[s].state # "gone"
    /\ e \in drafted \cup context
    /\ drafted' = drafted \ {e}
    /\ context' = context \ {e}
    /\ owners' = [owners EXCEPT ![e] = None]
    /\ recorded' = [recorded EXCEPT ![e] = NoValue]
    /\ UNCHANGED <<scenario, sockets, revoked, creating, calls, pending, recent, browserVars>>

\* The Send is refused and the chip a draft again, or it is removed in the composer,
\* or gone with its session: the hub is not told.
LeavesContext(e) ==
    /\ "removed" \in scenario
    /\ e \in context
    /\ context' = context \ {e}
    /\ \/ drafted' = drafted \cup {e} /\ UNCHANGED recorded
       \/ recorded' = [recorded EXCEPT ![e] = NoValue] /\ UNCHANGED drafted
    /\ UNCHANGED <<scenario, hubVars, calls, pending, recent, browserVars>>

-------------------------------------------------------------------------------
(* runApplyPreview and requestPreviewApply                                 *)

\* Mutant: only what was applied is remembered.
RememberedWhenApplied(call, result) ==
    IF ~result.ok THEN recent
    ELSE LET next == Append(recent, [key |-> <<call.session, call.id>>, result |-> result])
         IN IF Len(next) > DedupMax THEN Tail(next) ELSE next

\* remember(): Map.set keeps the place of a key it has; beyond the bound the
\* first entry goes.
Remembered(call, result) ==
    LET key == <<call.session, call.id>>
        has == {i \in DOMAIN recent : recent[i].key = key}
        next == IF has # {} THEN [i \in DOMAIN recent |->
                                    IF i \in has THEN [key |-> key, result |-> result] ELSE recent[i]]
                ELSE Append(recent, [key |-> key, result |-> result])
    IN IF Len(next) > DedupMax THEN Tail(next) ELSE next

Cached(call) == {i \in DOMAIN recent : recent[i].key = <<call.session, call.id>>}

\* What is refused before a command is sent: values, a selection that is not in the
\* context, no browser at all, no owner, no open socket of the owner.
RefusedAtOnce(call) ==
    \/ call.value = Unsafe
    \/ call.selection \notin context \/ HomeOf[call.selection] # call.session
    \/ \A c \in Connections : OpenOf(c) = {}
    \/ owners[call.selection] = None
    \/ OpenOf(owners[call.selection]) = {}

UsedBefore(call) ==
    \E n \in DOMAIN calls :
        /\ calls[n].id = call.id
        /\ \/ calls[n].session # call.session
           \/ calls[n].state = "waiting"
           \/ Len(calls) > DedupMax

Ended(call, result) ==
    [session |-> call.session, id |-> call.id, selection |-> call.selection, value |-> call.value,
     state |-> "ended", result |-> result, timer |-> FALSE, owner |-> None]

Sent(call, owner) == [Ended(call, NoResult) EXCEPT !.state = "waiting", !.timer = TRUE, !.owner = owner]

CallTool(call) ==
    /\ Len(calls) < MaxCalls
    /\ UsedBefore(call) => "sameid" \in scenario
    /\ HomeOf[call.selection] # call.session \/ call.value = Unsafe => "wrong" \in scenario
    /\ IF Cached(call) # {}
       THEN /\ \E i \in Cached(call) : calls' = Append(calls, Ended(call, recent[i].result))
            /\ UNCHANGED <<pending, recent, commands>>
       ELSE IF RefusedAtOnce(call)
       THEN /\ calls' = Append(calls, Ended(call, NoResult))
            /\ recent' = Remembered(call, NoResult)
            /\ UNCHANGED <<pending, commands>>
       ELSE LET owner == owners[call.selection] IN
            /\ calls' = Append(calls, Sent(call, owner))
            /\ pending' = [pending EXCEPT ![call.id] = Len(calls')]
            /\ commands' = commands \cup
                 {[socket |-> s, id |-> call.id, selection |-> call.selection, value |-> call.value] :
                    s \in OpenOf(owner)}
            /\ UNCHANGED recent
    /\ UNCHANGED <<scenario, hubVars, batchVars, recorded, page, answers>>

\* A call that waited gets its result, which is remembered.
Ends(n, result) ==
    /\ calls' = [calls EXCEPT ![n] = [calls[n] EXCEPT !.timer = FALSE, !.state = "ended",
                                                      !.result = result]]
    /\ recent' = Remembered(calls[n], result)

\* Mutant: the timer ends the call that its request id waits for.
TimeoutOfPending(n) ==
    /\ "slow" \in scenario
    /\ calls[n].timer
    /\ pending[calls[n].id] = n
    /\ pending' = [pending EXCEPT ![calls[n].id] = 0]
    /\ Ends(n, NoResult)
    /\ UNCHANGED <<scenario, hubVars, batchVars, recorded, browserVars>>

\* A call's timer runs out: it deletes whatever its request id waits for.
Timeout(n) ==
    /\ "slow" \in scenario
    /\ calls[n].timer
    /\ pending' = [pending EXCEPT ![calls[n].id] = 0]
    /\ Ends(n, NoResult)
    /\ UNCHANGED <<scenario, hubVars, batchVars, recorded, browserVars>>

\* Mutant: a value recorded before stays.
RecordedFirst(e, value) == IF recorded[e] = NoValue THEN value ELSE recorded[e]

\* recordPreviewApply: one change for a property, the latest value.
Recorded(e, value) == value

\* resolvePendingApply and what waits for it: an answer counts only for the call its
\* request id waits for now, and only from the connection the command went to.
AnswerArrives(c) ==
    /\ answers[c] # <<>>
    /\ Bound(c) # {}
    /\ answers' = [answers EXCEPT ![c] = Tail(@)]
    /\ LET answer == Head(answers[c])
           n == pending[answer.id]
       IN IF n # 0 /\ calls[n].owner = c
          THEN LET e == calls[n].selection
                   result == IF answer.ok /\ e \in context THEN Applied(answer.value) ELSE NoResult
               IN /\ pending' = [pending EXCEPT ![answer.id] = 0]
                  /\ Ends(n, result)
                  /\ recorded' = IF result.ok
                                 THEN [recorded EXCEPT ![e] = Recorded(e, answer.value)] ELSE recorded
          ELSE UNCHANGED callVars
    /\ UNCHANGED <<scenario, hubVars, batchVars, commands, page>>

-------------------------------------------------------------------------------
(* The browser (external here)                                             *)

Receives(m, c) ==
    /\ m \in commands
    /\ sockets[m.socket].of = c
    /\ sockets[m.socket].state = "open"
    /\ \A t \in Sockets : sockets[t].of = c => t <= m.socket
    /\ commands' = commands \ {m}

BrowserApplies(m, c) ==
    /\ Receives(m, c)
    /\ page' = [page EXCEPT ![c][m.selection] = m.value]
    /\ answers' = [answers EXCEPT ![c] = Append(@, [id |-> m.id, ok |-> TRUE, value |-> m.value])]
    /\ UNCHANGED <<scenario, hubVars, batchVars, callVars>>

BrowserRefuses(m, c) ==
    /\ "fails" \in scenario
    /\ Receives(m, c)
    /\ answers' = [answers EXCEPT ![c] = Append(@, [id |-> m.id, ok |-> FALSE, value |-> NoValue])]
    /\ UNCHANGED <<scenario, hubVars, batchVars, callVars, page>>

-------------------------------------------------------------------------------
(* Specification                                                           *)

CallSet ==
    [session : Sessions, id : RequestIds, selection : Selections, value : {Len(calls) + 1, Unsafe}]

Init ==
    /\ scenario \in Scenarios
    /\ sockets = <<>>
    /\ revoked = {}
    /\ creating = {}
    /\ drafted = {}
    /\ context = {}
    /\ owners = [e \in Selections |-> None]
    /\ calls = <<>>
    /\ pending = [id \in RequestIds |-> 0]
    /\ recent = <<>>
    /\ recorded = [e \in Selections |-> NoValue]
    /\ commands = {}
    /\ page = [c \in Connections |-> [e \in Selections |-> NoValue]]
    /\ answers = [c \in Connections |-> <<>>]

Next ==
    \/ \E c \in Connections : Bind(c) \/ Revoke(c) \/ AnswerArrives(c)
    \/ \E s \in Sockets : Lose(s) \/ Closed(s)
    \/ \E s \in Sockets, e \in Selections : CreateArrives(s, e) \/ RemoveArrives(s, e)
    \/ \E e \in Selections : LeavesContext(e)
    \/ \E e \in Selections, c \in Connections : CreateEnds(e, c)
    \/ \E session \in Sessions : SendDraft(session)
    \/ \E call \in CallSet : CallTool(call)
    \/ \E n \in DOMAIN calls : Timeout(n)
    \/ \E m \in commands, c \in Connections : BrowserApplies(m, c) \/ BrowserRefuses(m, c)

Spec == Init /\ [][Next]_vars

\* Timers run out, one at a time.  Nothing is assumed of browsers and sockets.
FairSpec == Spec /\ WF_vars(\E n \in DOMAIN calls : Timeout(n))

-------------------------------------------------------------------------------
(* Properties                                                              *)

Without(circumstances) == scenario \cap circumstances = {}

\* A call that reports success reports, and has recorded, the value it asked for:
\* no answer is taken for another call's, however late it comes.  Calls that share
\* a request id whose result is not remembered get each other's answers.
AnswersOwnCommand ==
    Without({"sameid"}) =>
        \A n \in DOMAIN calls :
            calls[n].result.ok /\ calls[n].owner # None => calls[n].result.value = calls[n].value

\* "Latest property wins": once nothing is under way, what the context records of a
\* selection is what its browser shows, also after calls that overlapped.  One browser
\* with one socket, whose answers come before their timeouts: after a timeout the page
\* shows a value that the context lacks, and so it may where an answer is lost with its
\* socket, its chip was removed meanwhile, another browser took the selection over, or
\* two calls share a request id.
LatestIsRecorded ==
    Without({"slow", "sockets", "two", "removed", "sameid"}) =>
        \A e \in context, c \in Connections :
            owners[e] = c /\ commands = {} /\ answers[c] = <<>> => recorded[e] = page[c][e]

\* The owner of a selection is dropped with the last socket of its connection, and
\* before that only with the selection or for another owner: a second socket of
\* the same browser, or a reconnect before the old one is closed, keeps previews.
OwnersDropWithLastSocket ==
    [][\A e \in Selections, c \in Connections :
          owners[e] = c =>
              /\ Bound(c) # {} /\ Bound(c)' = {} => owners'[e] # c
              /\ Bound(c)' # {} /\ owners'[e] = None => e \notin drafted' \cup context']_vars

\* Every call is answered, by its browser or by its own timer, also when another
\* call has taken its request id.
CallsAreAnswered ==
    "slow" \in scenario => []<>(\A n \in DOMAIN calls : calls[n].state = "ended")

===============================================================================
