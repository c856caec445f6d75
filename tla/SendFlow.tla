------------------------------- MODULE SendFlow -------------------------------
(***************************************************************************)
(* One explicit Send from the chip region of the composer to the agent turn  *)
(* that receives its context.  Three parties act concurrently:               *)
(*                                                                         *)
(*   - the composer UI (control-ui.ts): prepare_send, then the host's send(), *)
(*     then send_outcome, with an await after each;                          *)
(*   - the plugin (index.ts and BatchStore): the handlers of the two          *)
(*     operations and of the host's agent_turn_prepare event;                *)
(*   - the host (external): decides on send(), keeps next-turn injections,    *)
(*     runs turns.                                                           *)
(*                                                                         *)
(* What can go wrong around a Send is chosen initially: faults names the      *)
(* events the environment may produce in a behaviour.                        *)
(***************************************************************************)
EXTENDS BatchStore

CONSTANTS
    Situations,     \* sets of what may happen besides the plain course of a Send
    MaxSends,       \* bound: preparations opened by the composer
    MaxOtherTurns   \* bound: turns no composer Send has asked for

FaultKinds ==
    {"again",        \* the user sends a second time
     "throws",       \* send() rejects its promise
     "disposed",     \* the composer view is disposed
     "closed",       \* the page is closed: no continuation runs any more
     "switched",     \* the composer is updated to show another session
     "removed",      \* a chip is removed while its batch is being sent
     "early",        \* a turn starts before the outcome was reported
     "queued",       \* Send is enabled before the last accepted one's turn
     "other",        \* a turn starts that no Send has asked for
     "expired",      \* an injection outlives its ttlMs
     "unavailable"}  \* enqueueNextTurnInjection fails

ASSUME FlowAssumption ==
    /\ Situations \subseteq SUBSET FaultKinds
    /\ MaxSends \in Nat
    /\ MaxOtherTurns \in Nat

VARIABLES
    faults,      \* what may happen
    shown,       \* current.props: the session the composer shows
    mounted,     \* ~disposed
    flows,       \* per preparation: where the click handler that opened it is
    injections,  \* next-turn injections the host has queued
    deliveries,  \* contexts given to turns so far
    lastTurn,    \* turns so far
    otherTurns,  \* of those, the ones no Send has asked for
    ran          \* accepted Sends whose turn has started

flowVars == <<faults, shown, mounted, flows, injections, deliveries, lastTurn, otherTurns, ran>>
allVars == <<vars, flowVars>>

Stages == {"none",       \* not opened by the composer
           "prepared",   \* prepare_send has answered
           "sending",    \* waiting for send()
           "decided",    \* send() has answered
           "reported",   \* send_outcome has been handled
           "ended"}      \* the handler was gone before that

Flow == [stage    : Stages,
         origin   : Keys,   \* session of prepare_send
         target   : Keys,   \* session of send()
         decision : {"none", "accepted", "refused", "threw"}]

NextTurnInjection == [session : Keys, origin : Keys, prep : PreparationIds, batch : Nat]
Delivery == [turn : Nat, session : Keys, origin : Keys, prep : PreparationIds, batch : Nat]

-------------------------------------------------------------------------------
(* The user, outside the Send                                              *)

\* A chip is attached to the session the composer shows, which is the one it
\* reports as active.  Attaching the same element again only raises a revision
\* that nobody reads here.
AttachNew(element) ==
    /\ TwinsOf(EnsureDraft(shown), element) = {}
    /\ Attach(shown, element)
    /\ UNCHANGED flowVars

ClearChips ==
    /\ mounted
    /\ Clear(shown)
    /\ UNCHANGED flowVars

RemoveChip(id) ==
    /\ mounted
    /\ Preparing(shown) => "removed" \in faults
    /\ Remove(shown, id)
    /\ UNCHANGED flowVars

\* update(): the handlers read current.props after every await.
Switch(k) ==
    /\ "switched" \in faults
    /\ mounted
    /\ shown' = k
    /\ UNCHANGED <<vars, faults, mounted, flows, injections, deliveries, lastTurn, otherTurns, ran>>

Dispose ==
    /\ "disposed" \in faults
    /\ mounted' = FALSE
    /\ UNCHANGED <<vars, faults, shown, flows, injections, deliveries, lastTurn, otherTurns, ran>>

ClosePage ==
    /\ "closed" \in faults
    /\ mounted' = FALSE
    /\ flows' = [p \in PreparationIds |->
                   IF flows[p].stage \in {"none", "reported"} THEN flows[p]
                   ELSE [flows[p] EXCEPT !.stage = "ended"]]
    /\ UNCHANGED <<vars, faults, shown, injections, deliveries, lastTurn, otherTurns, ran>>

-------------------------------------------------------------------------------
(* The click handler of "Senden"                                           *)

\* props.canSend and props.sending, as the host sets them: a Send is not
\* enabled before the turn of the last accepted one has started, unless the
\* host queues messages.
SendEnabled ==
    \/ "queued" \in faults
    \/ \A p \in PreparationIds : flows[p].decision = "accepted" => p \in ran

\* The click and prepare_send, up to its answer.  A refused prepare_send shows
\* a message and ends the handler.
Click ==
    /\ mounted
    /\ SendEnabled
    /\ Cardinality({p \in PreparationIds : flows[p].stage # "none"})
         < (IF "again" \in faults THEN MaxSends ELSE 1)
    /\ PrepareSend(shown, {})
    /\ flows' = [flows EXCEPT ![lastPreparationId + 1] =
                   [stage |-> "prepared", origin |-> shown,
                    target |-> shown, decision |-> "none"]]
    /\ UNCHANGED <<faults, shown, mounted, injections, deliveries, lastTurn, otherTurns, ran>>

\* The answer of prepare_send arrives: the handler gives up when the view is
\* gone, otherwise it calls send() of the props it finds now.
AfterPrepare(p) ==
    /\ flows[p].stage = "prepared"
    /\ flows' = IF mounted
                THEN [flows EXCEPT ![p].stage = "sending", ![p].target = shown]
                ELSE [flows EXCEPT ![p].stage = "ended"]
    /\ UNCHANGED <<vars, faults, shown, mounted, injections, deliveries, lastTurn, otherTurns, ran>>

\* send() answers.  When it throws, the handler shows the error and ends.
HostDecides(p) ==
    /\ flows[p].stage = "sending"
    /\ \/ \E decision \in {"accepted", "refused"} :
             flows' = [flows EXCEPT ![p].stage = "decided", ![p].decision = decision]
       \/ /\ "throws" \in faults
          /\ flows' = [flows EXCEPT ![p].stage = "ended", ![p].decision = "threw"]
    /\ UNCHANGED <<vars, faults, shown, mounted, injections, deliveries, lastTurn, otherTurns, ran>>

\* enqueueNextTurnInjection with idempotencyKey = preparationId; a failure is
\* swallowed by the handler.
Enqueue(k, p, compact) ==
    \/ injections' = injections \cup
          {[session |-> k, origin |-> flows[p].origin, prep |-> p, batch |-> compact.batch]}
    \/ "unavailable" \in faults /\ UNCHANGED injections

\* Mutant: the injection does not depend on the outcome.
SendOutcomeInjectingAlways(k, p, admitted) ==
    \/ /\ CompleteSend(k, p, admitted)
       /\ Enqueue(k, p, CompactContext(batches[k]))
    \/ /\ ReplayOutcome(k, p, admitted)
       /\ IF admitted THEN Enqueue(k, p, completedOutcomes[p].compactContext)
                      ELSE UNCHANGED injections
    \/ /\ ~(Awaits(k, p) /\ p \notin DOMAIN completedOutcomes)
       /\ ~(p \in DOMAIN completedOutcomes /\ completedOutcomes[p].admitted = admitted)
       /\ IF mounted THEN Snapshot(k) ELSE UNCHANGED vars
       /\ UNCHANGED injections

\* Mutant: the session of the outcome is not compared with the batch's own.
SendOutcomeForAnySession(k, p, admitted) ==
    \/ \E j \in Keys :
          /\ CompleteSend(j, p, admitted)
          /\ IF admitted THEN Enqueue(k, p, PinnedContext(batches[j]))
                         ELSE UNCHANGED injections
    \/ /\ ReplayOutcome(k, p, admitted)
       /\ IF admitted THEN Enqueue(k, p, completedOutcomes[p].compactContext)
                      ELSE UNCHANGED injections
    \/ /\ \A j \in Keys : ~Awaits(j, p)
       /\ ~(p \in DOMAIN completedOutcomes /\ completedOutcomes[p].admitted = admitted)
       /\ UNCHANGED <<vars, injections>>

\* The handler of send_outcome.  A stale preparation is refused, and the view
\* then fetches the batch again.
SendOutcome(k, p, admitted) ==
    \/ /\ CompleteSend(k, p, admitted)
       /\ IF admitted THEN Enqueue(k, p, PinnedContext(batches[k]))
                      ELSE UNCHANGED injections
    \/ /\ ReplayOutcome(k, p, admitted)
       /\ IF admitted THEN Enqueue(k, p, completedOutcomes[p].compactContext)
                      ELSE UNCHANGED injections
    \/ /\ ~(Awaits(k, p) /\ p \notin DOMAIN completedOutcomes)
       /\ ~(p \in DOMAIN completedOutcomes /\ completedOutcomes[p].admitted = admitted)
       /\ IF mounted THEN Snapshot(k) ELSE UNCHANGED vars
       /\ UNCHANGED injections

\* Mutant: the handler gives up after send() when the view is gone.
ReportOutcomeWhenMounted(p) ==
    /\ flows[p].stage = "decided"
    /\ IF mounted THEN SendOutcome(shown, p, flows[p].decision = "accepted")
                  ELSE UNCHANGED <<vars, injections>>
    /\ flows' = [flows EXCEPT ![p].stage = "reported"]
    /\ UNCHANGED <<faults, shown, mounted, deliveries, lastTurn, otherTurns, ran>>

\* Mutant: only an accepted Send is reported.
ReportAccepted(p) ==
    /\ flows[p].stage = "decided"
    /\ IF flows[p].decision = "accepted" THEN SendOutcome(shown, p, TRUE)
                                         ELSE UNCHANGED <<vars, injections>>
    /\ flows' = [flows EXCEPT ![p].stage = "reported"]
    /\ UNCHANGED <<faults, shown, mounted, deliveries, lastTurn, otherTurns, ran>>

\* send() has answered: send_outcome for the session shown now.  There is no
\* check of the view between the two.
ReportOutcome(p) ==
    /\ flows[p].stage = "decided"
    /\ SendOutcome(shown, p, flows[p].decision = "accepted")
    /\ flows' = [flows EXCEPT ![p].stage = "reported"]
    /\ UNCHANGED <<faults, shown, mounted, deliveries, lastTurn, otherTurns, ran>>

-------------------------------------------------------------------------------
(* Turns                                                                   *)

\* Mutant: the hook leaves a pending Send to its outcome.
HasDraftOnly(k) ==
    /\ Existing(k)
    /\ batches[k].selections # {}
    /\ batches[k].state = "draft"

\* admitDraftForTurn has something to give.
HasDraftForTurn(k) ==
    /\ Existing(k)
    /\ batches[k].selections # {}
    /\ batches[k].state \in {"draft", "preparing"}

\* A turn of session k: the host gives it the queued injections and whatever
\* the agent_turn_prepare handler returns.
RunTurn(k) ==
    LET ready == HasDraftForTurn(k)
        prep  == IF batches[k].state = "preparing" THEN batches[k].preparationId
                                                   ELSE lastPreparationId + 1
        mine  == {i \in injections : i.session = k}
        given == {<<i.origin, i.prep, i.batch>> : i \in mine}
                 \cup (IF ready THEN {<<k, prep, batches[k].id>>} ELSE {})
    IN  /\ IF ready THEN AdmitDraftForTurn(k) ELSE UNCHANGED vars
        /\ lastTurn' = lastTurn + 1
        /\ deliveries' = deliveries \cup
             {[turn |-> lastTurn + 1, session |-> k, origin |-> g[1],
               prep |-> g[2], batch |-> g[3]] : g \in given}
        /\ injections' = injections \ mine

\* The turn an accepted Send asks for.
OwnTurn(p) ==
    /\ flows[p].decision = "accepted"
    /\ p \notin ran
    /\ flows[p].stage \in {"reported", "ended"} \/ "early" \in faults
    /\ RunTurn(flows[p].target)
    /\ ran' = ran \cup {p}
    /\ UNCHANGED <<faults, shown, mounted, flows, otherTurns>>

\* A queued message, a scheduled run, another client of the same session.
OtherTurn(k) ==
    /\ "other" \in faults
    /\ otherTurns < MaxOtherTurns
    /\ RunTurn(k)
    /\ otherTurns' = otherTurns + 1
    /\ UNCHANGED <<faults, shown, mounted, flows, ran>>

Expire(i) ==
    /\ "expired" \in faults
    /\ injections' = injections \ {i}
    /\ UNCHANGED <<vars, faults, shown, mounted, flows, deliveries, lastTurn, otherTurns, ran>>

-------------------------------------------------------------------------------
(* Specification                                                           *)

FlowInit ==
    /\ Init
    /\ faults \in Situations
    /\ shown \in Keys
    /\ mounted = TRUE
    /\ flows = [p \in PreparationIds |->
                  [stage |-> "none", origin |-> shown, target |-> shown, decision |-> "none"]]
    /\ injections = {}
    /\ deliveries = {}
    /\ lastTurn = 0
    /\ otherTurns = 0
    /\ ran = {}

FlowNext ==
    \/ \E element \in Elements : AttachNew(element)
    \/ \E id \in SelectionIds : RemoveChip(id)
    \/ ClearChips
    \/ \E k \in Keys : Switch(k) \/ OtherTurn(k)
    \/ Dispose
    \/ ClosePage
    \/ Click
    \/ \E p \in PreparationIds :
          AfterPrepare(p) \/ HostDecides(p) \/ ReportOutcome(p) \/ OwnTurn(p)
    \/ \E i \in injections : Expire(i)

FlowSpec == FlowInit /\ [][FlowNext]_allVars

\* Continuations of resolved promises run, and the host answers every send()
\* and starts the turn of every Send it has accepted.  Nothing is assumed of
\* the user, of other turns or of faults.
FlowFairness ==
    \A p \in PreparationIds :
        /\ WF_allVars(AfterPrepare(p))
        /\ WF_allVars(HostDecides(p))
        /\ WF_allVars(ReportOutcome(p))
        /\ WF_allVars(OwnTurn(p))

FairFlowSpec == FlowSpec /\ FlowFairness

-------------------------------------------------------------------------------
(* Properties                                                              *)

\* Whatever happens around a Send, the plugin enqueues an injection only for a
\* Send the host has accepted, and what it enqueues is the text recorded for
\* that very preparation (RISK-004; "Zero injections on reject").
InjectionsFollowAdmission ==
    \A i \in injections :
        /\ flows[i.prep].decision = "accepted"
        /\ i.prep \in DOMAIN completedOutcomes
        /\ completedOutcomes[i.prep].admitted
        /\ i.batch = completedOutcomes[i.prep].compactContext.batch

\* A turn follows the outcome of the Send that asked for it.
Orderly == faults \cap {"early", "queued", "other"} = {}
OneSession == "switched" \notin faults
OneSend == "again" \notin faults

\* The context of one Send reaches at most one turn, and so does the context of
\* one batch, however often it was refused and sent again: "exactly that
\* VisualBatch available to the corresponding next agent turn" (FR-021).
ContextDeliveredOnce ==
    \A c, d \in deliveries : c.prep = d.prep \/ c.batch = d.batch => c = d

\* A turn sees context of its own session only (FR-010, BR-006).
ContextStaysInSession ==
    /\ \A d \in deliveries : d.session = d.origin
    /\ \A i \in injections : i.session = i.origin

\* When turns follow outcomes, a user who switches sessions at any moment of a Send
\* brings no context into the other session.  With a second Send in that session the
\* two can cross: the turn one of them asks for consumes the other, whose outcome is
\* then replayed, and its context enqueued, for the session shown at that moment.
OrderlyContextStays == Orderly /\ (OneSend \/ OneSession) => ContextStaysInSession

\* When turns follow outcomes and the user stays in a session, a context is delivered
\* once whatever else happens: refusals, retries, a host that throws, a view that
\* goes away, injections that expire or cannot be queued.
OrderlyDelivery == Orderly /\ OneSession => ContextDeliveredOnce

\* Whatever happens around a Send, a turn is given only what the plugin has recorded as
\* handed over, and the recorded text: once a refusal has been recorded, no later turn
\* and no injection brings that context, however early, unrelated or numerous the turns
\* are.  A turn that starts before the refusal is reported may still take the context
\* of the pending Send (store.ts:334); where every turn belongs to a Send and follows its
\* outcome, and the user stays in the session, what the host refused is given to none.
RefusedNotDelivered ==
    \A d \in deliveries :
        /\ d.prep \in DOMAIN completedOutcomes
        /\ completedOutcomes[d.prep].admitted
        /\ d.batch = completedOutcomes[d.prep].compactContext.batch
        /\ Orderly /\ OneSession => flows[d.prep].decision # "refused"

\* Once send_outcome has been handled, the plugin's record of the outcome is
\* what the host decided: a refused Send has left its chips in the draft, an
\* accepted one has handed them over (SCN-014, SCN-021).
OutcomeAgreesWithHost ==
    Orderly /\ OneSession =>
        \A p \in PreparationIds :
            flows[p].stage = "reported" =>
                /\ p \in DOMAIN completedOutcomes
                /\ completedOutcomes[p].admitted = (flows[p].decision = "accepted")

\* A Send does not stay pending: the batch leaves "preparing", in which the
\* user can neither clear it nor send it again (SCN-014, EDGE-009: "On
\* rejected/admission-blocked send, chips stay in draft; retry").
PendingSendsEnd ==
    \A k \in Keys, p \in PreparationIds : Awaits(k, p) ~> ~Awaits(k, p)

\* The context of every accepted Send reaches a turn (FR-021).
AcceptedSendsDelivered ==
    \A p \in PreparationIds :
        flows[p].decision = "accepted" ~> \E d \in deliveries : d.prep = p

===============================================================================
