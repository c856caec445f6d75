----------------------------- MODULE SendFlowProofs -----------------------------
(***************************************************************************)
(* Theorems about SendFlow for every value of its constants.  A Send flow is      *)
(* first shown to be a behaviour of the store, so that the theorems about         *)
(* BatchStore hold of it; then the invariants that tie the composer, the host     *)
(* and the store to each other are proved inductive.                              *)
(***************************************************************************)
EXTENDS SendFlow, BatchStoreProofs, FiniteSetTheorems

-------------------------------------------------------------------------------
(* The inductive invariant                                                 *)

\* Type correctness of what SendFlow adds to the store.
FlowTypeOK ==
    /\ faults \subseteq FaultKinds
    /\ shown \in Keys
    /\ mounted \in BOOLEAN
    /\ flows \in [PreparationIds -> Flow]
    /\ injections \subseteq NextTurnInjection
    /\ deliveries \subseteq Delivery
    /\ lastTurn \in Nat
    /\ otherTurns \in Nat
    /\ ran \subseteq PreparationIds
    /\ lastPreparationId <= MaxPreparations

Accepted(p) == flows[p].decision = "accepted"
Active(p) == flows[p].stage \in {"prepared", "sending", "decided"}
Finished(p) == flows[p].stage \in {"reported", "ended"}

\* The host decides a Send once, and only preparations that were minted are Sends.
FlowShape ==
    \A p \in PreparationIds :
        /\ flows[p].stage \in {"none", "prepared", "sending"} => flows[p].decision = "none"
        /\ flows[p].stage \in {"decided", "reported"} =>
              flows[p].decision \in {"accepted", "refused"}
        /\ flows[p].stage # "none" => p <= lastPreparationId

\* What the plugin waits for is a Send of the composer, in the session it was opened in.
AwaitedAreFlows ==
    \A k \in Keys, p \in PreparationIds :
        Awaits(k, p) => flows[p].stage # "none" /\ flows[p].origin = k

\* The part of the invariant that holds whatever happens around a Send.
FlowInv ==
    /\ FlowShape
    /\ AwaitedAreFlows
    /\ InjectionsFollowAdmission

\* A turn starts only for a Send that was accepted, and after its outcome.
RanInOrder ==
    Orderly => \A p \in ran : Accepted(p) /\ Finished(p)

\* With one Send, its outcome is recorded when it is reported and not before, unless
\* its turn has started.
OneSendInOrder ==
    Orderly /\ OneSend =>
        /\ \A p, q \in PreparationIds :
              flows[p].stage # "none" /\ flows[q].stage # "none" => p = q
        /\ \A p \in PreparationIds : Active(p) => p \notin DOMAIN completedOutcomes

\* In one session, what the composer has under way is what the plugin waits for.
InStep ==
    /\ \A p \in PreparationIds : flows[p].origin = shown /\ flows[p].target = shown
    /\ \A p \in PreparationIds : Active(p) => Awaits(shown, p)
    /\ \A p, q \in PreparationIds :
          Awaits(shown, p) /\ Accepted(q) /\ q # p => q \in ran
    /\ \A p, q \in PreparationIds \ ran : Accepted(p) /\ Accepted(q) => p = q

\* A context is queued until the turn of its Send, and is what was recorded for it.
QueuedInStep ==
    \A i \in injections :
        /\ i.session = shown /\ i.origin = shown
        /\ i.prep \notin ran
        /\ \A d \in deliveries : d.prep # i.prep

DeliveredInStep ==
    \A d \in deliveries :
        /\ Admitted(d.prep)
        /\ d.batch = completedOutcomes[d.prep].compactContext.batch
        /\ flows[d.prep].stage = "none" \/ Accepted(d.prep)

DeliveredOnce == \A c, d \in deliveries : c.prep = d.prep => c = d

\* The body of OutcomeAgreesWithHost.
ReportedAgrees ==
    \A p \in PreparationIds :
        flows[p].stage = "reported" =>
            /\ p \in DOMAIN completedOutcomes
            /\ completedOutcomes[p].admitted = Accepted(p)

InOrder ==
    /\ InStep
    /\ QueuedInStep
    /\ DeliveredInStep
    /\ DeliveredOnce
    /\ ReportedAgrees

OneSessionInOrder == Orderly /\ OneSession => InOrder

\* The whole invariant.
FlowOrder ==
    /\ FlowInv
    /\ RanInOrder
    /\ OneSendInOrder
    /\ OrderlyContextStays
    /\ OneSessionInOrder

-------------------------------------------------------------------------------
(* A Send flow is a behaviour of the store                                 *)

\* What a step does to the store is an operation of the store, or nothing.
LEMMA StoreStep ==
    ASSUME TypeOK, FlowTypeOK, [FlowNext]_allVars
    PROVE  [Next]_vars
<1> USE DEF FlowTypeOK
<1>1. ASSUME NEW k \in Keys, Draft(k) \/ Send(k)
      PROVE  [Next]_vars
    BY <1>1 DEF Next
<1>2. ASSUME NEW element \in Elements, AttachNew(element)
      PROVE  [Next]_vars
    BY <1>1, <1>2 DEF AttachNew, Draft
<1>3. ASSUME NEW id \in SelectionIds, RemoveChip(id)
      PROVE  [Next]_vars
    BY <1>1, <1>3 DEF RemoveChip, Draft
<1>4. CASE ClearChips
    BY <1>1, <1>4 DEF ClearChips, Draft
<1>5. ASSUME NEW k \in Keys, RunTurn(k)
      PROVE  [Next]_vars
    <2>1. AdmitDraftForTurn(k) \/ UNCHANGED vars
        BY <1>5 DEF RunTurn
    <2> QED BY <1>1, <2>1 DEF Send
<1>6. CASE Click
    <2>1. PrepareSend(shown, {}) /\ {} \in OptionalRevision
        BY <1>6 DEF Click, OptionalRevision
    <2> QED BY <1>1, <2>1 DEF Send
<1>7. ASSUME NEW p \in PreparationIds, ReportOutcome(p)
      PROVE  [Next]_vars
    <2> DEFINE admitted == flows[p].decision = "accepted"
    <2>1. \/ CompleteSend(shown, p, admitted)
          \/ ReplayOutcome(shown, p, admitted)
          \/ Snapshot(shown)
          \/ UNCHANGED vars
        BY <1>7 DEF ReportOutcome, SendOutcome
    <2>2. admitted \in BOOLEAN
        OBVIOUS
    <2> HIDE DEF admitted
    <2> QED BY <1>1, <2>1, <2>2 DEF Send, Draft
<1>8. ASSUME NEW p \in PreparationIds, AfterPrepare(p) \/ HostDecides(p) \/ OwnTurn(p)
      PROVE  [Next]_vars
    <2>1. CASE OwnTurn(p)
        <3>1. flows[p].target \in Keys /\ RunTurn(flows[p].target)
            BY <2>1 DEF OwnTurn, Flow
        <3> QED BY <1>5, <3>1
    <2>2. CASE AfterPrepare(p) \/ HostDecides(p)
        <3>1. UNCHANGED vars
            BY <2>2 DEF AfterPrepare, HostDecides
        <3> QED BY <3>1
    <2> QED BY <1>8, <2>1, <2>2
<1>9. ASSUME NEW k \in Keys, Switch(k) \/ OtherTurn(k)
      PROVE  [Next]_vars
    <2>1. UNCHANGED vars \/ RunTurn(k)
        BY <1>9 DEF Switch, OtherTurn
    <2> QED BY <1>5, <2>1
<1>10. ASSUME Dispose \/ ClosePage \/ (\E i \in injections : Expire(i)) \/ UNCHANGED allVars
       PROVE  [Next]_vars
    <2>1. UNCHANGED vars
        BY <1>10 DEF Dispose, ClosePage, Expire, allVars
    <2> QED BY <2>1
<1> QED
    BY <1>2, <1>3, <1>4, <1>6, <1>7, <1>8, <1>9, <1>10 DEF FlowNext

-------------------------------------------------------------------------------
(* What the operations of a Send do to the store                           *)

\* Nothing the composer and the host can see of the Sends changes.
SameAwaited ==
    \A k \in Keys, p \in PreparationIds : Awaits(k, p)' <=> Awaits(k, p)

Quiet == SameAwaited /\ UNCHANGED <<completedOutcomes, lastPreparationId>>

\* Preparation q of session k is consumed with an outcome.
Consumes(k, q, admitted) ==
    /\ q \in PreparationIds
    /\ q \notin DOMAIN completedOutcomes
    /\ DOMAIN completedOutcomes' = DOMAIN completedOutcomes \cup {q}
    /\ \A p \in DOMAIN completedOutcomes : completedOutcomes'[p] = completedOutcomes[p]
    /\ completedOutcomes'[q].admitted = admitted
    /\ admitted => completedOutcomes'[q].compactContext.batch = batches[k].id
    /\ \/ Awaits(k, q) /\ UNCHANGED lastPreparationId
       \/ /\ q = lastPreparationId + 1
          /\ lastPreparationId' = q
          /\ \A p \in PreparationIds : ~Awaits(k, p)
    /\ \A j \in Keys, p \in PreparationIds : Awaits(j, p)' <=> Awaits(j, p) /\ j # k

\* The store's part of the invariant, which every step keeps.
StoreOK == TypeOK /\ SendInv /\ PinnedTextNamesItsBatch /\ BatchIdInv

\* A pending preparation has been minted, has no outcome, and is the only one of its
\* session.
LEMMA AwaitedFacts ==
    ASSUME StoreOK, lastPreparationId <= MaxPreparations, NEW k \in Keys
    PROVE  /\ lastPreparationId \in Nat
           /\ Preparing(k) => /\ batches[k].preparationId \in PreparationIds
                              /\ batches[k].preparationId <= lastPreparationId
                              /\ Awaits(k, batches[k].preparationId)
           /\ \A p \in PreparationIds :
                 Awaits(k, p) => /\ Preparing(k)
                                 /\ p <= lastPreparationId
                                 /\ p \notin DOMAIN completedOutcomes
           /\ \A p, q : Awaits(k, p) /\ Awaits(k, q) => p = q
<1>1. lastPreparationId \in Nat /\ MaxPreparations \in Nat
    BY BoundsAssumption DEF StoreOK, TypeOK
<1>2. Preparing(k) => /\ batches[k].preparationId \in Nat \ {0}
                      /\ batches[k].preparationId <= lastPreparationId
                      /\ batches[k].preparationId \notin DOMAIN completedOutcomes
    BY DEF StoreOK, TypeOK, IsMap, Batch, SendInv, PendingIffAwaited, Preparing, Existing,
           NoPreparation
<1> QED
    BY <1>1, <1>2 DEF Preparing, Awaits, PreparationIds

\* An edit of a working batch is quiet, and so is a step that leaves the store alone.
LEMMA EditsAreQuiet ==
    ASSUME TypeOK, SendInv, NEW k \in Keys, NEW batch, Edited(k, batch)
    PROVE  Quiet
<1>1. /\ batches'[k] = batch
      /\ k \in DOMAIN batches'
      /\ \A j \in Keys \ {k} : /\ j \in DOMAIN batches' <=> j \in DOMAIN batches
                               /\ j \in DOMAIN batches => batches'[j] = batches[j]
    BY DEF Edited, MapSet
<1>2. /\ batch.state = "preparing" <=> Preparing(k)
      /\ Preparing(k) => batch.preparationId = batches[k].preparationId
    BY DEF Edited, SameSend, GetOrCreate, NewBatch, Preparing, Existing
<1>3. SameAwaited
    BY <1>1, <1>2 DEF SameAwaited, Awaits, Preparing, Existing
<1> QED
    BY <1>3 DEF Quiet, Edited

\* A step that changes nothing changes nothing of the Sends.
LEMMA StillIsQuiet ==
    ASSUME UNCHANGED vars
    PROVE  Quiet
BY DEF vars, Quiet, SameAwaited, Awaits, Existing

\* prepareSend makes the store wait for the next preparation.
LEMMA PrepareFacts ==
    ASSUME StoreOK, NEW k \in Keys, PrepareSend(k, {})
    PROVE  /\ lastPreparationId + 1 \in PreparationIds
           /\ lastPreparationId' = lastPreparationId + 1
           /\ UNCHANGED completedOutcomes
           /\ \A p : ~Awaits(k, p)
           /\ \A j \in Keys, p \in PreparationIds :
                 Awaits(j, p)' <=> Awaits(j, p) \/ (j = k /\ p = lastPreparationId + 1)
<1>1. PICK batch, text : Opened(k, batch, text)
    BY PrepareOpens DEF StoreOK
<1>2. lastPreparationId + 1 \in PreparationIds
    BY <1>1, BoundsAssumption DEF Opened, StoreOK, TypeOK, PreparationIds
<1>3. /\ batches'[k] = batch
      /\ k \in DOMAIN batches'
      /\ \A j \in Keys \ {k} : /\ j \in DOMAIN batches' <=> j \in DOMAIN batches
                               /\ j \in DOMAIN batches => batches'[j] = batches[j]
    BY <1>1 DEF Opened, MapSet
<1> QED
    BY <1>1, <1>2, <1>3 DEF Opened, Awaits, Existing

\* Settling the pending preparation of a session consumes it.
LEMMA SettlingConsumes ==
    ASSUME StoreOK, lastPreparationId <= MaxPreparations, NEW k \in Keys, NEW batch,
           NEW outcome, Settled(k, batch, outcome)
    PROVE  Consumes(k, batches[k].preparationId, outcome.admitted)
<1> DEFINE q == batches[k].preparationId
<1>1. q \in PreparationIds /\ Awaits(k, q)
    BY AwaitedFacts DEF Settled
<1>2. /\ q \notin DOMAIN completedOutcomes
      /\ DOMAIN completedOutcomes' = DOMAIN completedOutcomes \cup {q}
      /\ completedOutcomes'[q] = outcome
      /\ \A p \in DOMAIN completedOutcomes : completedOutcomes'[p] = completedOutcomes[p]
      /\ UNCHANGED lastPreparationId
    BY DEF Settled, MapSet
<1>3. outcome.admitted => outcome.compactContext.batch = batches[k].id
    BY DEF Settled, StoreOK, PinnedTextNamesItsBatch
<1>4. \A j \in Keys, p \in PreparationIds : Awaits(j, p)' <=> Awaits(j, p) /\ j # k
    BY DEF Settled, IsDraft, MapSet, Awaits, Existing
<1> QED
    BY <1>1, <1>2, <1>3, <1>4 DEF Consumes

\* completeSend consumes the preparation it is told about.
LEMMA CompletionConsumes ==
    ASSUME StoreOK, lastPreparationId <= MaxPreparations, NEW k \in Keys,
           NEW p \in PreparationIds, NEW admitted \in BOOLEAN, CompleteSend(k, p, admitted)
    PROVE  Consumes(k, p, admitted)
<1>1. p = batches[k].preparationId
    BY DEF CompleteSend, Awaits
<1>2. \E batch, outcome : Settled(k, batch, outcome) /\ outcome.admitted = admitted
    BY CompletionSettles DEF StoreOK
<1> QED
    BY <1>1, <1>2, SettlingConsumes

\* The preparation a turn of session k consumes.
TurnPreparation(k) ==
    IF batches[k].state = "preparing" THEN batches[k].preparationId ELSE lastPreparationId + 1

\* A draft admitted for a turn consumes the preparation that waits, or one made for it.
LEMMA TurnConsumes ==
    ASSUME StoreOK, lastPreparationId <= MaxPreparations, NEW k \in Keys, AdmitDraftForTurn(k)
    PROVE  Consumes(k, TurnPreparation(k), TRUE)
<1>1. ASSUME NEW batch, NEW outcome, Settled(k, batch, outcome),
             outcome = AdmittedOutcome(batches[k])
      PROVE  Consumes(k, TurnPreparation(k), TRUE)
    <2>1. outcome.admitted = TRUE
        BY <1>1 DEF AdmittedOutcome
    <2>2. TurnPreparation(k) = batches[k].preparationId
        BY <1>1 DEF TurnPreparation, Settled, Preparing
    <2> QED BY <1>1, <2>1, <2>2, SettlingConsumes
<1>2. ASSUME NEW batch, NEW outcome, AdmittedAtOnce(k, batch, outcome)
      PROVE  Consumes(k, TurnPreparation(k), TRUE)
    <2> DEFINE q == lastPreparationId + 1
    <2>1. TurnPreparation(k) = q
        BY <1>2 DEF TurnPreparation, AdmittedAtOnce
    <2>2. q \in PreparationIds /\ q \notin DOMAIN completedOutcomes
        BY <1>2, BoundsAssumption, FreshIsUnused
        DEF AdmittedAtOnce, StoreOK, TypeOK, PreparationIds
    <2>3. /\ DOMAIN completedOutcomes' = DOMAIN completedOutcomes \cup {q}
          /\ completedOutcomes'[q] = outcome
          /\ \A p \in DOMAIN completedOutcomes : completedOutcomes'[p] = completedOutcomes[p]
        BY <1>2, <2>2 DEF AdmittedAtOnce, MapSet
    <2>4. /\ \A p \in PreparationIds : ~Awaits(k, p)
          /\ \A j \in Keys, p \in PreparationIds : Awaits(j, p)' <=> Awaits(j, p) /\ j # k
        BY <1>2 DEF AdmittedAtOnce, IsDraft, MapSet, Awaits, Existing
    <2>5. outcome.admitted = TRUE /\ outcome.compactContext.batch = batches[k].id
          /\ lastPreparationId' = q
        BY <1>2 DEF AdmittedAtOnce
    <2> HIDE DEF q
    <2> QED BY <2>1, <2>2, <2>3, <2>4, <2>5 DEF Consumes, q
<1> QED
    BY <1>1, <1>2, TurnAdmits DEF StoreOK

-------------------------------------------------------------------------------
(* What a turn is given                                                    *)

GivenInjection(k, i) ==
    [turn |-> lastTurn + 1, session |-> k, origin |-> i.origin, prep |-> i.prep, batch |-> i.batch]

GivenBatch(k) ==
    [turn |-> lastTurn + 1, session |-> k, origin |-> k, prep |-> TurnPreparation(k),
     batch |-> batches[k].id]

\* A turn gets the injections of its session, which are gone then, and the batch it
\* admits.
LEMMA TurnFacts ==
    ASSUME StoreOK, lastPreparationId <= MaxPreparations, NEW k \in Keys, RunTurn(k)
    PROVE  /\ injections' = {i \in injections : i.session # k}
           /\ lastTurn' = lastTurn + 1
           /\ \A d \in deliveries' :
                 \/ d \in deliveries
                 \/ \E i \in injections : i.session = k /\ d = GivenInjection(k, i)
                 \/ d = GivenBatch(k) /\ Consumes(k, TurnPreparation(k), TRUE)
           /\ Consumes(k, TurnPreparation(k), TRUE) \/ UNCHANGED vars
<1> DEFINE ready == HasDraftForTurn(k)
           mine  == {i \in injections : i.session = k}
           given == {<<i.origin, i.prep, i.batch>> : i \in mine}
                    \cup (IF ready THEN {<<k, TurnPreparation(k), batches[k].id>>} ELSE {})
<1>1. /\ IF ready THEN AdmitDraftForTurn(k) ELSE UNCHANGED vars
      /\ lastTurn' = lastTurn + 1
      /\ deliveries' = deliveries \cup
           {[turn |-> lastTurn + 1, session |-> k, origin |-> g[1],
             prep |-> g[2], batch |-> g[3]] : g \in given}
      /\ injections' = injections \ mine
    BY DEF RunTurn, TurnPreparation
<1>2. ready => Consumes(k, TurnPreparation(k), TRUE)
    BY <1>1, TurnConsumes
<1>3. \A g \in given :
          \/ \E i \in injections : i.session = k /\ g = <<i.origin, i.prep, i.batch>>
          \/ ready /\ g = <<k, TurnPreparation(k), batches[k].id>>
    <2> HIDE DEF ready
    <2> QED OBVIOUS
<1>4. \A d \in deliveries' :
          \/ d \in deliveries
          \/ \E g \in given : d = [turn |-> lastTurn + 1, session |-> k, origin |-> g[1],
                                   prep |-> g[2], batch |-> g[3]]
    <2> HIDE DEF given, mine, ready
    <2> QED BY <1>1
<1>5. \A d \in deliveries' :
          \/ d \in deliveries
          \/ \E i \in injections : i.session = k /\ d = GivenInjection(k, i)
          \/ d = GivenBatch(k) /\ ready
    <2> HIDE DEF given, mine, ready
    <2> QED BY <1>3, <1>4 DEF GivenInjection, GivenBatch
<1>6. injections' = {i \in injections : i.session # k}
    BY <1>1
<1>7. ready \/ UNCHANGED vars
    BY <1>1
<1> HIDE DEF ready, given, mine
<1> QED
    BY <1>1, <1>2, <1>5, <1>6, <1>7

-------------------------------------------------------------------------------
(* What a reported outcome queues                                          *)

QueuedFor(p) ==
    [session |-> shown, origin |-> flows[p].origin, prep |-> p,
     batch |-> completedOutcomes'[p].compactContext.batch]

\* send_outcome completes the Send, answers from the record, or is stale; what it
\* queues is what is recorded for that Send.
LEMMA ReportFacts ==
    ASSUME StoreOK, FlowTypeOK, NEW p \in PreparationIds, ReportOutcome(p)
    PROVE  /\ \A i \in injections' :
                 \/ i \in injections
                 \/ /\ i = QueuedFor(p) /\ Accepted(p)
                    /\ Admitted(p)'
           /\ \/ Consumes(shown, p, Accepted(p)) /\ Awaits(shown, p)
              \/ /\ Quiet
                 /\ ~Awaits(shown, p)
                 /\ \/ p \in DOMAIN completedOutcomes
                    \/ injections' = injections
<1> USE DEF Accepted
<1>0. shown \in Keys /\ lastPreparationId <= MaxPreparations
    BY DEF FlowTypeOK
<1>1. CASE /\ CompleteSend(shown, p, Accepted(p))
           /\ IF Accepted(p) THEN Enqueue(shown, p, PinnedContext(batches[shown]))
                             ELSE UNCHANGED injections
    <2>1. Consumes(shown, p, Accepted(p)) /\ Awaits(shown, p)
        BY <1>0, <1>1, CompletionConsumes DEF CompleteSend
    <2>2. PinnedContext(batches[shown]).batch = batches[shown].id
        BY <1>0, <2>1 DEF StoreOK, SendInv, PendingIffAwaited, PinnedTextNamesItsBatch,
                          PinnedContext, Awaits, Preparing
    <2>3. Accepted(p) => /\ completedOutcomes'[p].compactContext.batch = batches[shown].id
                         /\ completedOutcomes'[p].admitted
                         /\ p \in DOMAIN completedOutcomes'
        BY <2>1 DEF Consumes
    <2>4. \A i \in injections' :
              \/ i \in injections
              \/ Accepted(p) /\ i = [session |-> shown, origin |-> flows[p].origin, prep |-> p,
                                    batch |-> PinnedContext(batches[shown]).batch]
        BY <1>1 DEF Enqueue
    <2> QED BY <2>1, <2>2, <2>3, <2>4 DEF QueuedFor, Admitted
<1>2. CASE /\ ReplayOutcome(shown, p, Accepted(p))
           /\ IF Accepted(p) THEN Enqueue(shown, p, completedOutcomes[p].compactContext)
                             ELSE UNCHANGED injections
    <2>1. /\ p \in DOMAIN completedOutcomes
          /\ completedOutcomes[p].admitted = Accepted(p)
        BY <1>2 DEF ReplayOutcome
    <2>2. Quiet
        BY <1>0, <1>2, ReplayEdits, EditsAreQuiet DEF StoreOK
    <2>3. completedOutcomes' = completedOutcomes
        BY <2>2 DEF Quiet
    <2>4. ~Awaits(shown, p)
        BY <1>0, <2>1, AwaitedFacts
    <2>5. \A i \in injections' :
              \/ i \in injections
              \/ Accepted(p) /\ i = [session |-> shown, origin |-> flows[p].origin, prep |-> p,
                                    batch |-> completedOutcomes[p].compactContext.batch]
        BY <1>2 DEF Enqueue
    <2> QED BY <2>1, <2>2, <2>3, <2>4, <2>5 DEF QueuedFor, Admitted
<1>3. CASE /\ ~(Awaits(shown, p) /\ p \notin DOMAIN completedOutcomes)
           /\ IF mounted THEN Snapshot(shown) ELSE UNCHANGED vars
           /\ UNCHANGED injections
    <2>1. ~Awaits(shown, p)
        BY <1>0, <1>3, AwaitedFacts
    <2>2. CASE Snapshot(shown)
        <3>1. Draft(shown)
            BY <2>2 DEF Draft
        <3> QED BY <1>0, <1>3, <2>1, <3>1, DraftEdits, EditsAreQuiet DEF StoreOK
    <2>3. CASE UNCHANGED vars
        BY <1>3, <2>1, <2>3, StillIsQuiet
    <2> QED BY <1>3, <2>2, <2>3
<1> QED
    BY <1>1, <1>2, <1>3 DEF ReportOutcome, SendOutcome

-------------------------------------------------------------------------------
(* Type correctness                                                        *)

\* Drafting by the user is quiet and leaves the flow alone.
UserDrafts ==
    \/ \E element \in Elements : AttachNew(element)
    \/ \E id \in SelectionIds : RemoveChip(id)
    \/ ClearChips

\* What the user does to the draft changes nothing of the Sends and of the flows.
LEMMA DraftingIsQuiet ==
    ASSUME StoreOK, shown \in Keys, UserDrafts
    PROVE  Quiet /\ UNCHANGED flowVars
<1>1. Draft(shown)
    BY DEF UserDrafts, AttachNew, RemoveChip, ClearChips, Draft
<1> QED
    BY <1>1, DraftEdits, EditsAreQuiet DEF StoreOK, UserDrafts, AttachNew, RemoveChip, ClearChips

\* The invariant of the store is kept by every step of a Send flow.
LEMMA StoreStepOK ==
    ASSUME StoreOK, FlowTypeOK, [FlowNext]_allVars
    PROVE  StoreOK'
<1>1. [Next]_vars
    BY StoreStep DEF StoreOK
<1>2. TypeOK'
    BY <1>1, StepKeepsType DEF StoreOK
<1>3. SendInv'
    <2>1. CASE Idle
        BY <2>1 DEF Idle, sendState, StoreOK, SendInv, PendingIffAwaited, Preparing, Existing
    <2> QED BY <1>1, <2>1, StepEffect, EffectKeepsSendInv DEF StoreOK
<1>4. PinnedTextNamesItsBatch'
    BY <1>1, StepKeepsPinned DEF StoreOK
<1>5. BatchIdInv'
    BY <1>1, StepKeepsIds DEF StoreOK
<1> QED
    BY <1>2, <1>3, <1>4, <1>5 DEF StoreOK

\* The next state of the flow of one Send.
LEMMA FlowTypeStep ==
    ASSUME StoreOK, FlowTypeOK, [FlowNext]_allVars
    PROVE  FlowTypeOK'
<1> USE DEF FlowTypeOK
<1>0. lastPreparationId \in Nat /\ MaxPreparations \in Nat
    BY BoundsAssumption DEF StoreOK, TypeOK
<1>1. CASE UserDrafts
    BY <1>1, DraftingIsQuiet DEF flowVars, Quiet
<1>2. ASSUME NEW k \in Keys, Switch(k)
      PROVE  FlowTypeOK'
    BY <1>2 DEF Switch, vars
<1>3. ASSUME NEW k \in Keys, RunTurn(k),
             UNCHANGED <<faults, shown, mounted, flows>>,
             otherTurns' \in Nat, ran' \subseteq PreparationIds
      PROVE  FlowTypeOK'
    <2>0. /\ injections' = {i \in injections : i.session # k}
          /\ lastTurn' = lastTurn + 1
          /\ \A d \in deliveries' :
                \/ d \in deliveries
                \/ \E i \in injections : i.session = k /\ d = GivenInjection(k, i)
                \/ d = GivenBatch(k) /\ Consumes(k, TurnPreparation(k), TRUE)
          /\ Consumes(k, TurnPreparation(k), TRUE) \/ UNCHANGED vars
        <3>1. lastPreparationId <= MaxPreparations
            OBVIOUS
        <3> HIDE DEF FlowTypeOK
        <3> QED BY <1>3, <3>1, TurnFacts
    <2>1. lastTurn' \in Nat /\ injections' \subseteq NextTurnInjection
        BY <2>0
    <2>2. lastPreparationId' <= MaxPreparations
        BY <1>0, <2>0 DEF Consumes, PreparationIds, vars
    <2>3. \A i \in injections : GivenInjection(k, i) \in Delivery
        <3>1. \A i \in NextTurnInjection : /\ i.origin \in Keys /\ i.prep \in PreparationIds
                                 /\ i.batch \in Nat
            BY DEF NextTurnInjection
        <3> QED BY <3>1 DEF GivenInjection, Delivery
    <2>4. Consumes(k, TurnPreparation(k), TRUE) => GivenBatch(k) \in Delivery
        <3>1. ASSUME Consumes(k, TurnPreparation(k), TRUE)
              PROVE  batches[k].id \in Nat /\ TurnPreparation(k) \in PreparationIds
            <4>1. DOMAIN completedOutcomes' \subseteq Nat /\ TypeOK'
                BY StoreStepOK DEF StoreOK, TypeOK, IsMap
            <4>2. completedOutcomes'[TurnPreparation(k)].compactContext.batch \in Nat
                BY <3>1, <4>1 DEF TypeOK, IsMap, Outcome, Compact, Consumes
            <4> QED BY <3>1, <4>2 DEF Consumes
        <3> QED BY <3>1 DEF GivenBatch, Delivery
    <2>5. deliveries' \subseteq Delivery
        BY <2>0, <2>3, <2>4
    <2> QED BY <1>3, <2>1, <2>2, <2>5
<1>4. CASE Dispose
    BY <1>4 DEF Dispose, vars
<1>5. CASE ClosePage
    <2>1. flows' \in [PreparationIds -> Flow]
        BY <1>5 DEF ClosePage, Flow, Stages
    <2> QED BY <1>5, <2>1 DEF ClosePage, vars
<1>6. CASE Click
    <2>1. /\ lastPreparationId + 1 \in PreparationIds
          /\ lastPreparationId' = lastPreparationId + 1
        BY <1>6, PrepareFacts DEF Click
    <2>2. flows' \in [PreparationIds -> Flow]
        BY <1>6 DEF Click, Flow, Stages
    <2> QED BY <1>6, <2>1, <2>2 DEF Click, PreparationIds
<1>7. ASSUME NEW p \in PreparationIds, AfterPrepare(p) \/ HostDecides(p)
      PROVE  FlowTypeOK'
    <2>1. flows' \in [PreparationIds -> Flow]
        BY <1>7 DEF AfterPrepare, HostDecides, Flow, Stages
    <2> QED BY <1>7, <2>1 DEF AfterPrepare, HostDecides, vars
<1>8. ASSUME NEW p \in PreparationIds, ReportOutcome(p)
      PROVE  FlowTypeOK'
    <2>1. flows' \in [PreparationIds -> Flow]
        BY <1>8 DEF ReportOutcome, Flow, Stages
    <2>2. lastPreparationId' <= MaxPreparations
        <3>1. Awaits(shown, p) => p <= lastPreparationId
            BY AwaitedFacts
        <3> QED BY <1>0, <1>8, <3>1, ReportFacts DEF Consumes, Quiet
    <2>3. Admitted(p)' => QueuedFor(p) \in NextTurnInjection
        <3>1. TypeOK'
            BY StoreStepOK DEF StoreOK
        <3>2. Admitted(p)' => completedOutcomes'[p].compactContext.batch \in Nat
            BY <3>1 DEF TypeOK, IsMap, Outcome, Compact, Admitted
        <3>3. flows[p].origin \in Keys
            BY DEF Flow
        <3> QED BY <3>2, <3>3 DEF QueuedFor, NextTurnInjection
    <2>4. injections' \subseteq NextTurnInjection
        BY <1>8, <2>3, ReportFacts
    <2> QED BY <1>8, <2>1, <2>2, <2>4 DEF ReportOutcome
<1>9. ASSUME NEW p \in PreparationIds, OwnTurn(p)
      PROVE  FlowTypeOK'
    <2>1. flows[p].target \in Keys
        BY DEF Flow
    <2> QED BY <1>3, <1>9, <2>1 DEF OwnTurn
<1>10. ASSUME NEW k \in Keys, OtherTurn(k)
       PROVE  FlowTypeOK'
    BY <1>3, <1>10 DEF OtherTurn
<1>11. ASSUME NEW i \in injections, Expire(i)
       PROVE  FlowTypeOK'
    BY <1>11 DEF Expire, vars
<1>12. CASE UNCHANGED allVars
    BY <1>12 DEF allVars, vars, flowVars
<1> QED
    BY <1>1, <1>2, <1>4, <1>5, <1>6, <1>7, <1>8, <1>9, <1>10, <1>11, <1>12
    DEF FlowNext, UserDrafts

\* The empty store and the composer's first view are well typed.
LEMMA FlowInitType == FlowInit => FlowTypeOK
<1> SUFFICES ASSUME FlowInit PROVE FlowTypeOK
    OBVIOUS
<1>1. faults \subseteq FaultKinds
    BY FlowAssumption DEF FlowInit
<1>2. flows \in [PreparationIds -> Flow]
    BY DEF FlowInit, Flow, Stages
<1>3. lastPreparationId <= MaxPreparations
    BY BoundsAssumption DEF FlowInit, Init
<1> QED
    BY <1>1, <1>2, <1>3 DEF FlowInit, FlowTypeOK

\* The invariants of the store hold when it is empty.
LEMMA StoreInit == Init => StoreOK
<1>1. Init => TypeOK
    BY EmptyIsMap DEF Init, TypeOK, EmptyMap
<1>2. Init => SendInv
    BY SendInvInit
<1>3. Init => PinnedTextNamesItsBatch
    BY EmptyIsMap DEF Init, PinnedTextNamesItsBatch, Preparing, Existing
<1>4. Init => BatchIdInv
    BY EmptyIsMap DEF Init, BatchIdInv, HandedOverOnce
<1> QED
    BY <1>1, <1>2, <1>3, <1>4 DEF StoreOK

\* Around a Send every variable holds what its declaration says, and the store keeps
\* the invariants it has on its own.
THEOREM FlowTypeCorrect == FlowSpec => [](FlowTypeOK /\ StoreOK)
<1>1. FlowInit => FlowTypeOK /\ StoreOK
    BY FlowInitType, StoreInit DEF FlowInit
<1>2. FlowTypeOK /\ StoreOK /\ [FlowNext]_allVars => FlowTypeOK' /\ StoreOK'
    BY FlowTypeStep, StoreStepOK
<1> QED
    BY <1>1, <1>2, PTL DEF FlowSpec

\* Whatever the composer, the host and the user do around a Send is a behaviour of the
\* store, so every theorem about the store holds of it.
THEOREM FlowIsStore == FlowSpec => Spec
<1>1. FlowInit => Init
    BY DEF FlowInit
<1>2. FlowTypeOK /\ StoreOK /\ [FlowNext]_allVars => [Next]_vars
    BY StoreStep DEF StoreOK
<1> QED
    BY <1>1, <1>2, FlowTypeCorrect, PTL DEF FlowSpec, Spec

-------------------------------------------------------------------------------
(* What a step does to the Sends                                           *)

\* The steps that leave the handlers of the composer where they are.
Elsewhere ==
    \/ UserDrafts
    \/ \E k \in Keys : Switch(k) \/ OtherTurn(k)
    \/ Dispose
    \/ \E p \in PreparationIds : OwnTurn(p)
    \/ \E i \in injections : Expire(i)
    \/ UNCHANGED allVars

\* A step is one of the composer's handlers or of the page, or happens elsewhere.
LEMMA StepCases ==
    ASSUME [FlowNext]_allVars
    PROVE  \/ Elsewhere
           \/ ClosePage
           \/ Click
           \/ \E p \in PreparationIds : AfterPrepare(p) \/ HostDecides(p) \/ ReportOutcome(p)
BY DEF FlowNext, Elsewhere, UserDrafts

OtherFlowsStay(p) == \A q \in PreparationIds \ {p} : flows'[q] = flows[q]

SameSessions(p) == flows'[p].origin = flows[p].origin /\ flows'[p].target = flows[p].target

\* Where each of them takes the handler of a Send.
LEMMA ElsewhereFlows ==
    ASSUME Elsewhere
    PROVE  UNCHANGED flows
BY DEF Elsewhere, UserDrafts, AttachNew, RemoveChip, ClearChips, Switch, OtherTurn, Dispose,
       OwnTurn, Expire, flowVars, allVars

\* Closing the page ends every Send that is under way, and no other.
LEMMA ClosePageFlows ==
    ASSUME FlowTypeOK, ClosePage, NEW p \in PreparationIds
    PROVE  /\ SameSessions(p)
           /\ flows'[p].decision = flows[p].decision
           /\ IF flows[p].stage \in {"none", "reported"} THEN flows'[p].stage = flows[p].stage
                                                        ELSE flows'[p].stage = "ended"
BY DEF FlowTypeOK, Flow, ClosePage, SameSessions

\* A click starts one flow, in the session shown, and leaves the others.
LEMMA ClickFlows ==
    ASSUME StoreOK, FlowTypeOK, Click
    PROVE  LET p == lastPreparationId + 1
           IN  /\ p \in PreparationIds
               /\ flows'[p] = [stage |-> "prepared", origin |-> shown,
                               target |-> shown, decision |-> "none"]
               /\ OtherFlowsStay(p)
<1>1. lastPreparationId + 1 \in PreparationIds
    BY PrepareFacts DEF Click, FlowTypeOK
<1> QED
    BY <1>1 DEF FlowTypeOK, Click, OtherFlowsStay

\* When the answer to prepare_send is back, the flow goes on to the host, for the session it
\* knows or the one shown by now, or ends.
LEMMA AfterPrepareFlows ==
    ASSUME FlowTypeOK, NEW p \in PreparationIds, AfterPrepare(p)
    PROVE  /\ OtherFlowsStay(p)
           /\ flows[p].stage = "prepared"
           /\ flows'[p].stage \in {"sending", "ended"}
           /\ flows'[p].origin = flows[p].origin
           /\ flows'[p].target \in {flows[p].target, shown}
           /\ flows'[p].decision = flows[p].decision
BY DEF FlowTypeOK, Flow, AfterPrepare, OtherFlowsStay

\* The host accepts or refuses the message, or throws, which ends the flow.
LEMMA HostDecidesFlows ==
    ASSUME FlowTypeOK, NEW p \in PreparationIds, HostDecides(p)
    PROVE  /\ OtherFlowsStay(p)
           /\ SameSessions(p)
           /\ flows[p].stage = "sending"
           /\ \/ /\ flows'[p].stage = "decided"
                 /\ flows'[p].decision \in {"accepted", "refused"}
              \/ flows'[p].stage = "ended" /\ flows'[p].decision = "threw"
BY DEF FlowTypeOK, Flow, HostDecides, OtherFlowsStay, SameSessions

\* A flow is reported after the host has decided.
LEMMA ReportFlows ==
    ASSUME FlowTypeOK, NEW p \in PreparationIds, ReportOutcome(p)
    PROVE  /\ OtherFlowsStay(p)
           /\ SameSessions(p)
           /\ flows[p].stage = "decided"
           /\ flows'[p].stage = "reported"
           /\ flows'[p].decision = flows[p].decision
BY DEF FlowTypeOK, Flow, ReportOutcome, OtherFlowsStay, SameSessions

\* Preparation ids only grow.
LEMMA StepGrows ==
    ASSUME TypeOK, SendInv, [Next]_vars
    PROVE  lastPreparationId' \in Nat /\ lastPreparationId <= lastPreparationId'
<1>1. lastPreparationId \in Nat
    BY DEF TypeOK
<1>2. UNCHANGED lastPreparationId \/ lastPreparationId' = lastPreparationId + 1
    <2>1. ASSUME NEW k \in Keys, Effect(k)
          PROVE  UNCHANGED lastPreparationId \/ lastPreparationId' = lastPreparationId + 1
        BY <2>1 DEF Effect, Edited, Opened, Settled, AdmittedAtOnce, Dropped, Idle, sendState
    <2>2. Idle => UNCHANGED lastPreparationId
        BY DEF Idle, sendState
    <2> QED BY <2>1, <2>2, StepEffect
<1> QED
    BY <1>1, <1>2

\* Once opened a Send stays the composer's, in the session it was opened in, and a
\* decision of the host is final.
LEMMA FlowsStay ==
    ASSUME StoreOK, FlowTypeOK, FlowShape, [FlowNext]_allVars, NEW p \in PreparationIds
    PROVE  /\ flows[p].stage # "none" => /\ flows'[p].stage # "none"
                                         /\ flows'[p].origin = flows[p].origin
           /\ flows[p].decision # "none" => flows'[p].decision = flows[p].decision
           /\ Finished(p) => Finished(p)'
<1> USE DEF Finished
<1>0. lastPreparationId \in Nat
    BY DEF StoreOK, TypeOK
<1>1. CASE Elsewhere
    BY <1>1, ElsewhereFlows
<1>2. CASE ClosePage
    BY <1>2, ClosePageFlows DEF SameSessions
<1>3. CASE Click
    <2>1. flows[lastPreparationId + 1].stage = "none"
          /\ flows[lastPreparationId + 1].decision = "none"
        BY <1>0, <1>3, ClickFlows DEF FlowShape
    <2> QED BY <1>3, <2>1, ClickFlows DEF OtherFlowsStay
<1>4. ASSUME NEW q \in PreparationIds, AfterPrepare(q)
      PROVE  /\ flows[p].stage # "none" => /\ flows'[p].stage # "none"
                                           /\ flows'[p].origin = flows[p].origin
             /\ flows[p].decision # "none" => flows'[p].decision = flows[p].decision
             /\ Finished(p) => Finished(p)'
    BY <1>4, AfterPrepareFlows DEF OtherFlowsStay
<1>5. ASSUME NEW q \in PreparationIds, HostDecides(q)
      PROVE  /\ flows[p].stage # "none" => /\ flows'[p].stage # "none"
                                           /\ flows'[p].origin = flows[p].origin
             /\ flows[p].decision # "none" => flows'[p].decision = flows[p].decision
             /\ Finished(p) => Finished(p)'
    BY <1>5, HostDecidesFlows DEF OtherFlowsStay, SameSessions, FlowShape
<1>6. ASSUME NEW q \in PreparationIds, ReportOutcome(q)
      PROVE  /\ flows[p].stage # "none" => /\ flows'[p].stage # "none"
                                           /\ flows'[p].origin = flows[p].origin
             /\ flows[p].decision # "none" => flows'[p].decision = flows[p].decision
             /\ Finished(p) => Finished(p)'
    BY <1>6, ReportFlows DEF OtherFlowsStay, SameSessions
<1> QED
    BY <1>1, <1>2, <1>3, <1>4, <1>5, <1>6, StepCases

\* Steps elsewhere, of the page and of the handlers up to the report make the store
\* wait for nothing new, and queue nothing.
LEMMA ElsewhereFacts ==
    ASSUME StoreOK, FlowTypeOK, Elsewhere
    PROVE  /\ injections' \subseteq injections
           /\ \A k \in Keys, p \in PreparationIds : Awaits(k, p)' => Awaits(k, p)
<1>1. ASSUME NEW k \in Keys, RunTurn(k)
      PROVE  /\ injections' \subseteq injections
             /\ \A j \in Keys, p \in PreparationIds : Awaits(j, p)' => Awaits(j, p)
    <2>1. lastPreparationId <= MaxPreparations
        BY DEF FlowTypeOK
    <2>2. injections' = {i \in injections : i.session # k}
        BY <1>1, <2>1, TurnFacts
    <2>3. Consumes(k, TurnPreparation(k), TRUE) \/ UNCHANGED vars
        BY <1>1, <2>1, TurnFacts
    <2> QED BY <2>2, <2>3, StillIsQuiet DEF Consumes, Quiet, SameAwaited
<1>2. ASSUME NEW p \in PreparationIds, OwnTurn(p)
      PROVE  \E k \in Keys : RunTurn(k)
    BY <1>2 DEF OwnTurn, FlowTypeOK, Flow
<1>3. ASSUME NEW k \in Keys, OtherTurn(k)
      PROVE  RunTurn(k)
    BY <1>3 DEF OtherTurn
<1>4. CASE UserDrafts
    BY <1>4, DraftingIsQuiet DEF Quiet, SameAwaited, FlowTypeOK, flowVars
<1>5. CASE \/ \E k \in Keys : Switch(k)
           \/ Dispose
           \/ \E i \in injections : Expire(i)
           \/ UNCHANGED allVars
    <2>1. UNCHANGED vars /\ injections' \subseteq injections
        BY <1>5 DEF Switch, Dispose, Expire, allVars, flowVars
    <2> QED BY <2>1, StillIsQuiet DEF Quiet, SameAwaited
<1> QED
    BY <1>1, <1>2, <1>3, <1>4, <1>5 DEF Elsewhere

\* What the store waits for after a step it waited for before, or the user has just
\* clicked.
LEMMA AwaitsStep ==
    ASSUME StoreOK, FlowTypeOK, [FlowNext]_allVars,
           NEW k \in Keys, NEW p \in PreparationIds, Awaits(k, p)'
    PROVE  Awaits(k, p) \/ (Click /\ k = shown /\ p = lastPreparationId + 1)
<1> USE DEF FlowTypeOK
<1>1. CASE Elsewhere
    BY <1>1, ElsewhereFacts
<1>2. CASE Click
    BY <1>2, PrepareFacts DEF Click
<1>3. CASE ClosePage \/ \E q \in PreparationIds : AfterPrepare(q) \/ HostDecides(q)
    <2>1. UNCHANGED vars
        BY <1>3 DEF ClosePage, AfterPrepare, HostDecides
    <2> QED BY <2>1, StillIsQuiet DEF Quiet, SameAwaited
<1>4. ASSUME NEW q \in PreparationIds, ReportOutcome(q)
      PROVE  Awaits(k, p)
    <2>1. Consumes(shown, q, Accepted(q)) \/ Quiet
        BY <1>4, ReportFacts
    <2> QED BY <2>1 DEF Consumes, Quiet, SameAwaited
<1> QED
    BY <1>1, <1>2, <1>3, <1>4, StepCases

\* What is queued after a step was queued before, or an accepted Send has just been
\* reported.
LEMMA InjectionsStep ==
    ASSUME StoreOK, FlowTypeOK, [FlowNext]_allVars, NEW i \in injections'
    PROVE  \/ i \in injections
           \/ \E p \in PreparationIds : /\ ReportOutcome(p)
                                        /\ Accepted(p) /\ Admitted(p)'
                                        /\ i = QueuedFor(p)
<1>1. CASE Elsewhere
    BY <1>1, ElsewhereFacts
<1>2. CASE ClosePage \/ Click \/ \E p \in PreparationIds : AfterPrepare(p) \/ HostDecides(p)
    BY <1>2 DEF ClosePage, Click, AfterPrepare, HostDecides
<1>3. ASSUME NEW p \in PreparationIds, ReportOutcome(p)
      PROVE  \/ i \in injections
             \/ Accepted(p) /\ Admitted(p)' /\ i = QueuedFor(p)
    BY <1>3, ReportFacts
<1> QED
    BY <1>1, <1>2, <1>3, StepCases

-------------------------------------------------------------------------------
(* Injections follow the host's decision                                   *)

\* Every step keeps the shape of the flows: the decision of each is that of its stage, and
\* those that have begun have been numbered.
LEMMA FlowShapeStep ==
    ASSUME StoreOK, FlowTypeOK, FlowShape, [FlowNext]_allVars
    PROVE  FlowShape'
<1>1. /\ lastPreparationId \in Nat /\ lastPreparationId' \in Nat
      /\ lastPreparationId <= lastPreparationId'
    BY StoreStep, StepGrows DEF StoreOK, TypeOK
<1>2. \A p \in PreparationIds : p \in Nat
    BY DEF PreparationIds
<1>3. CASE Elsewhere
    BY <1>1, <1>2, <1>3, ElsewhereFlows DEF FlowShape
<1>4. CASE ClosePage
    BY <1>1, <1>2, <1>4, ClosePageFlows DEF FlowShape
<1>5. CASE Click
    <2>1. lastPreparationId' = lastPreparationId + 1
        BY <1>5, PrepareFacts DEF Click, FlowTypeOK
    <2> QED BY <1>1, <1>2, <1>5, <2>1, ClickFlows DEF FlowShape, OtherFlowsStay
<1>6. ASSUME NEW q \in PreparationIds, AfterPrepare(q)
      PROVE  FlowShape'
    BY <1>1, <1>2, <1>6, AfterPrepareFlows DEF FlowShape, OtherFlowsStay
<1>7. ASSUME NEW q \in PreparationIds, HostDecides(q)
      PROVE  FlowShape'
    BY <1>1, <1>2, <1>7, HostDecidesFlows DEF FlowShape, OtherFlowsStay
<1>8. ASSUME NEW q \in PreparationIds, ReportOutcome(q)
      PROVE  FlowShape'
    BY <1>1, <1>2, <1>8, ReportFlows DEF FlowShape, OtherFlowsStay
<1> QED
    BY <1>3, <1>4, <1>5, <1>6, <1>7, <1>8, StepCases

\* The part of the invariant that needs no hypothesis on what may happen is inductive.
LEMMA FlowInvStep ==
    ASSUME StoreOK, FlowTypeOK, FlowInv, [FlowNext]_allVars
    PROVE  FlowInv'
<1> USE DEF FlowInv
<1>1. FlowShape'
    BY FlowShapeStep
<1>2. AwaitedAreFlows'
    <2> SUFFICES ASSUME NEW k \in Keys, NEW p \in PreparationIds, Awaits(k, p)'
                 PROVE  flows'[p].stage # "none" /\ flows'[p].origin = k
        BY DEF AwaitedAreFlows
    <2>1. CASE Awaits(k, p)
        BY <2>1, FlowsStay DEF AwaitedAreFlows
    <2>2. CASE Click /\ k = shown /\ p = lastPreparationId + 1
        BY <2>2, ClickFlows
    <2> QED BY <2>1, <2>2, AwaitsStep
<1>3. InjectionsFollowAdmission'
    <2> SUFFICES ASSUME NEW i \in injections'
                 PROVE  /\ flows'[i.prep].decision = "accepted"
                        /\ i.prep \in DOMAIN completedOutcomes'
                        /\ completedOutcomes'[i.prep].admitted
                        /\ i.batch = completedOutcomes'[i.prep].compactContext.batch
        BY DEF InjectionsFollowAdmission
    <2>1. CASE i \in injections
        <3>1. i.prep \in PreparationIds
            BY <2>1 DEF FlowTypeOK, NextTurnInjection
        <3>2. /\ i.prep \in DOMAIN completedOutcomes'
              /\ completedOutcomes'[i.prep] = completedOutcomes[i.prep]
            BY <2>1, StoreStep, StepKeepsOutcomes DEF StoreOK, InjectionsFollowAdmission
        <3> QED BY <2>1, <3>1, <3>2, FlowsStay DEF InjectionsFollowAdmission
    <2>2. ASSUME NEW p \in PreparationIds, ReportOutcome(p),
                 Accepted(p), Admitted(p)', i = QueuedFor(p)
          PROVE  /\ flows'[i.prep].decision = "accepted"
                 /\ i.prep \in DOMAIN completedOutcomes'
                 /\ completedOutcomes'[i.prep].admitted
                 /\ i.batch = completedOutcomes'[i.prep].compactContext.batch
        BY <2>2, ReportFlows DEF QueuedFor, Accepted, Admitted
    <2> QED BY <2>1, <2>2, InjectionsStep
<1> QED
    BY <1>1, <1>2, <1>3

\* Nothing is under way at first.
LEMMA FlowInvInit == FlowInit => FlowInv
<1> SUFFICES ASSUME FlowInit PROVE FlowInv
    OBVIOUS
<1>1. FlowShape
    BY DEF FlowInit, FlowShape
<1>2. AwaitedAreFlows
    BY EmptyIsMap DEF FlowInit, Init, AwaitedAreFlows, Awaits, Existing
<1>3. InjectionsFollowAdmission
    BY DEF FlowInit, InjectionsFollowAdmission
<1> QED
    BY <1>1, <1>2, <1>3 DEF FlowInv

\* The invariant that holds whatever happens around a Send.
THEOREM FlowInvariant == FlowSpec => []FlowInv
<1>1. StoreOK /\ FlowTypeOK /\ FlowInv /\ [FlowNext]_allVars => FlowInv'
    BY FlowInvStep
<1> QED
    BY <1>1, FlowInvInit, FlowTypeCorrect, PTL DEF FlowSpec

\* Whatever happens around a Send, an injection is queued only for a Send the host has
\* accepted, and holds what was recorded for that very preparation.
THEOREM InjectionsAdmitted == FlowSpec => []InjectionsFollowAdmission
<1>1. FlowInv => InjectionsFollowAdmission
    BY DEF FlowInv
<1> QED
    BY <1>1, FlowInvariant, PTL

-------------------------------------------------------------------------------
(* When turns follow outcomes: what stays, and who runs                    *)

\* What may happen in a behaviour is chosen at its start.
LEMMA FaultsStay ==
    ASSUME [FlowNext]_allVars
    PROVE  faults' = faults
BY DEF FlowNext, AttachNew, RemoveChip, ClearChips, Switch, Dispose, ClosePage, Click,
       AfterPrepare, HostDecides, ReportOutcome, OwnTurn, OtherTurn, Expire, flowVars, allVars

\* A Send has run when its turn has started.
LEMMA RanStep ==
    ASSUME [FlowNext]_allVars, NEW p \in ran'
    PROVE  p \in ran \/ (p \in PreparationIds /\ OwnTurn(p))
BY DEF FlowNext, AttachNew, RemoveChip, ClearChips, Switch, Dispose, ClosePage, Click,
       AfterPrepare, HostDecides, ReportOutcome, OwnTurn, OtherTurn, Expire, flowVars, allVars

\* The turn of a Send starts after its outcome, as long as no turn is early.
LEMMA RanInOrderStep ==
    ASSUME StoreOK, FlowTypeOK, FlowShape, RanInOrder, [FlowNext]_allVars
    PROVE  RanInOrder'
<1> SUFFICES ASSUME Orderly, NEW p \in ran'
             PROVE  Accepted(p)' /\ Finished(p)'
    BY FaultsStay DEF RanInOrder, Orderly
<1>1. p \in PreparationIds
    BY RanStep DEF FlowTypeOK
<1>2. Accepted(p) /\ Finished(p)
    <2>1. CASE p \in ran
        BY <2>1 DEF RanInOrder
    <2>2. CASE OwnTurn(p)
        BY <2>2 DEF OwnTurn, Orderly, Accepted, Finished
    <2> QED BY <2>1, <2>2, RanStep
<1> QED
    BY <1>1, <1>2, FlowsStay DEF Accepted

\* A flow that is open or under way was so before, or has just been opened.
LEMMA FlowsOpen ==
    ASSUME StoreOK, FlowTypeOK, [FlowNext]_allVars, NEW p \in PreparationIds
    PROVE  \/ /\ flows'[p].stage # "none" => flows[p].stage # "none"
              /\ Active(p)' => Active(p)
           \/ Click /\ p = lastPreparationId + 1
<1> USE DEF Active
<1>1. CASE Elsewhere
    BY <1>1, ElsewhereFlows
<1>2. CASE ClosePage
    BY <1>2, ClosePageFlows
<1>3. CASE Click
    BY <1>3, ClickFlows DEF OtherFlowsStay
<1>4. ASSUME NEW q \in PreparationIds, AfterPrepare(q)
      PROVE  /\ flows'[p].stage # "none" => flows[p].stage # "none"
             /\ Active(p)' => Active(p)
    BY <1>4, AfterPrepareFlows DEF OtherFlowsStay
<1>5. ASSUME NEW q \in PreparationIds, HostDecides(q)
      PROVE  /\ flows'[p].stage # "none" => flows[p].stage # "none"
             /\ Active(p)' => Active(p)
    BY <1>5, HostDecidesFlows DEF OtherFlowsStay
<1>6. ASSUME NEW q \in PreparationIds, ReportOutcome(q)
      PROVE  /\ flows'[p].stage # "none" => flows[p].stage # "none"
             /\ Active(p)' => Active(p)
    BY <1>6, ReportFlows DEF OtherFlowsStay
<1> QED
    BY <1>1, <1>2, <1>3, <1>4, <1>5, <1>6, StepCases

-------------------------------------------------------------------------------
(* One Send                                                                *)

\* A user who sends once has opened nothing before.
LEMMA FirstClick ==
    ASSUME FlowTypeOK, OneSend, Click, NEW p \in PreparationIds
    PROVE  flows[p].stage = "none"
<1> DEFINE opened == {q \in PreparationIds : flows[q].stage # "none"}
<1>1. Cardinality(opened) < 1
    BY DEF Click, OneSend
<1>2. IsFiniteSet(opened)
    <2>1. IsFiniteSet(PreparationIds)
        BY FS_Interval, BoundsAssumption DEF PreparationIds
    <2> QED BY <2>1, FS_Subset
<1>3. Cardinality(opened) \in Nat
    BY <1>2, FS_CardinalityType
<1>4. Cardinality(opened) = 0
    BY <1>1, <1>3
<1>5. opened = {}
    BY <1>2, <1>4, FS_EmptySet
<1> QED
    BY <1>5

\* Only a reported outcome, or a turn, is recorded.
LEMMA OutcomesStep ==
    ASSUME StoreOK, FlowTypeOK, [FlowNext]_allVars,
           NEW p \in DOMAIN completedOutcomes', p \notin DOMAIN completedOutcomes
    PROVE  \/ p \in PreparationIds /\ ReportOutcome(p)
           \/ /\ \/ \E q \in PreparationIds : OwnTurn(q)
                 \/ \E k \in Keys : OtherTurn(k)
              /\ \E k \in Keys : Consumes(k, p, TRUE)
<1>1. ASSUME NEW k \in Keys, RunTurn(k)
      PROVE  Consumes(k, p, TRUE)
    <2>1. Consumes(k, TurnPreparation(k), TRUE) \/ UNCHANGED vars
        BY <1>1, TurnFacts DEF FlowTypeOK
    <2>2. UNCHANGED vars => completedOutcomes' = completedOutcomes
        BY DEF vars
    <2>3. Consumes(k, TurnPreparation(k), TRUE) => p = TurnPreparation(k)
        BY DEF Consumes
    <2> QED BY <2>1, <2>2, <2>3
<1>2. ASSUME NEW q \in PreparationIds, OwnTurn(q)
      PROVE  \E k \in Keys : Consumes(k, p, TRUE)
    BY <1>1, <1>2 DEF OwnTurn, FlowTypeOK, Flow
<1>3. ASSUME NEW k \in Keys, OtherTurn(k)
      PROVE  Consumes(k, p, TRUE)
    BY <1>1, <1>3 DEF OtherTurn
<1>4. ASSUME NEW q \in PreparationIds, ReportOutcome(q)
      PROVE  p \in PreparationIds /\ ReportOutcome(p)
    <2>1. Consumes(shown, q, Accepted(q)) \/ Quiet
        BY <1>4, ReportFacts
    <2>2. p = q
        BY <2>1 DEF Consumes, Quiet
    <2> QED BY <1>4, <2>2
<1>5. ~UserDrafts
    BY DraftingIsQuiet DEF Quiet, FlowTypeOK
<1>6. ~UNCHANGED vars
    BY DEF vars
<1>7. /\ ~Click
      /\ ~ClosePage
      /\ \A q \in PreparationIds : ~AfterPrepare(q) /\ ~HostDecides(q)
      /\ \A k \in Keys : ~Switch(k)
      /\ ~Dispose
      /\ \A i \in injections : ~Expire(i)
      /\ ~UNCHANGED allVars
    BY <1>6 DEF Click, PrepareSend, ClosePage, AfterPrepare, HostDecides, Switch, Dispose,
                Expire, allVars
<1> QED
    BY <1>2, <1>3, <1>4, <1>5, <1>7, StepCases DEF Elsewhere

\* The outcome of a single Send is not recorded before its handler reports it: a turn
\* in its session is its own, which follows the report.
LEMMA OneSendStep ==
    ASSUME StoreOK, FlowTypeOK, FlowInv, OneSendInOrder, [FlowNext]_allVars
    PROVE  OneSendInOrder'
<1> SUFFICES ASSUME Orderly, OneSend
             PROVE  /\ \A p, q \in PreparationIds :
                          flows'[p].stage # "none" /\ flows'[q].stage # "none" => p = q
                    /\ \A p \in PreparationIds :
                          Active(p)' => p \notin DOMAIN completedOutcomes'
    BY FaultsStay DEF OneSendInOrder, Orderly, OneSend
<1>1. /\ \A p, q \in PreparationIds :
            flows[p].stage # "none" /\ flows[q].stage # "none" => p = q
      /\ \A p \in PreparationIds : Active(p) => p \notin DOMAIN completedOutcomes
    BY DEF OneSendInOrder
<1>2. ASSUME NEW p \in PreparationIds, NEW q \in PreparationIds,
             flows'[p].stage # "none", flows'[q].stage # "none"
      PROVE  p = q
    BY <1>1, <1>2, FirstClick, FlowsOpen
<1>3. ASSUME NEW p \in PreparationIds, Active(p)', p \in DOMAIN completedOutcomes'
      PROVE  FALSE
    <2>0. lastPreparationId \in Nat
        BY DEF StoreOK, TypeOK
    <2>1. CASE p \in DOMAIN completedOutcomes
        <3>1. Click /\ p = lastPreparationId + 1
            BY <1>1, <1>3, <2>1, FlowsOpen
        <3> QED BY <2>0, <2>1, <3>1 DEF StoreOK, SendInv
    <2>2. CASE p \notin DOMAIN completedOutcomes
        <3>1. ASSUME ReportOutcome(p) PROVE FALSE
            BY <1>3, <3>1, ReportFlows DEF Active
        <3>2. ASSUME NEW q \in PreparationIds, OwnTurn(q), NEW k \in Keys, Consumes(k, p, TRUE)
              PROVE  FALSE
            <4>1. UNCHANGED flows /\ Finished(q) /\ Accepted(q)
                BY <3>2 DEF OwnTurn, Orderly, Finished, Accepted
            <4>2. Active(p)
                BY <1>3, <4>1 DEF Active
            <4>3. p # q /\ flows[p].stage # "none" /\ flows[q].stage # "none"
                BY <4>1, <4>2 DEF Active, Finished
            <4> QED BY <1>1, <4>3
        <3>3. ASSUME NEW k \in Keys, OtherTurn(k) PROVE FALSE
            BY <3>3 DEF OtherTurn, Orderly
        <3> QED BY <1>3, <2>2, <3>1, <3>2, <3>3, OutcomesStep
    <2> QED BY <2>1, <2>2
<1> QED
    BY <1>2, <1>3

-------------------------------------------------------------------------------
(* Context stays in its session                                            *)

\* What a turn is given, was queued in its session or is the session's own batch, which
\* it consumes.
LEMMA DeliveriesStep ==
    ASSUME StoreOK, FlowTypeOK, [FlowNext]_allVars, NEW d \in deliveries', d \notin deliveries
    PROVE  \E k \in Keys :
              \/ \E i \in injections : i.session = k /\ d = GivenInjection(k, i)
              \/ d = GivenBatch(k) /\ Consumes(k, TurnPreparation(k), TRUE)
<1>1. ASSUME NEW k \in Keys, RunTurn(k)
      PROVE  \/ \E i \in injections : i.session = k /\ d = GivenInjection(k, i)
             \/ d = GivenBatch(k) /\ Consumes(k, TurnPreparation(k), TRUE)
    BY <1>1, TurnFacts DEF FlowTypeOK
<1>2. ASSUME NEW p \in PreparationIds, OwnTurn(p)
      PROVE  \E k \in Keys : RunTurn(k)
    BY <1>2 DEF OwnTurn, FlowTypeOK, Flow
<1>3. ASSUME NEW k \in Keys, OtherTurn(k)
      PROVE  RunTurn(k)
    BY <1>3 DEF OtherTurn
<1>4. CASE UserDrafts
    BY <1>4, DraftingIsQuiet DEF FlowTypeOK, flowVars
<1>5. ASSUME \/ ClosePage
             \/ Click
             \/ \E p \in PreparationIds : AfterPrepare(p) \/ HostDecides(p) \/ ReportOutcome(p)
             \/ \E k \in Keys : Switch(k)
             \/ Dispose
             \/ \E i \in injections : Expire(i)
             \/ UNCHANGED allVars
      PROVE  UNCHANGED deliveries
    BY <1>5 DEF ClosePage, Click, AfterPrepare, HostDecides, ReportOutcome, Switch, Dispose,
                Expire, allVars, flowVars
<1> QED
    BY <1>1, <1>2, <1>3, <1>4, <1>5, StepCases DEF Elsewhere

\* The Send whose outcome is recorded when it is reported queues its context for the
\* session it was opened in, whichever session is shown: the store was waiting for it
\* there.
LEMMA ContextStaysStep ==
    ASSUME StoreOK, FlowTypeOK, FlowInv, OneSendInOrder, OneSessionInOrder,
           OrderlyContextStays, [FlowNext]_allVars
    PROVE  OrderlyContextStays'
<1> SUFFICES ASSUME Orderly, OneSend \/ OneSession
             PROVE  ContextStaysInSession'
    BY FaultsStay DEF OrderlyContextStays, Orderly, OneSend, OneSession
<1>1. /\ \A d \in deliveries : d.session = d.origin
      /\ \A i \in injections : i.session = i.origin
    BY DEF OrderlyContextStays, ContextStaysInSession
<1>2. ASSUME NEW p \in PreparationIds, ReportOutcome(p), flows[p].origin # shown
      PROVE  injections' = injections
    <2>1. Active(p)
        BY <1>2, ReportFlows DEF Active
    <2>2. OneSend
        BY <1>2 DEF OneSessionInOrder, InOrder, InStep
    <2>3. p \notin DOMAIN completedOutcomes
        BY <2>1, <2>2 DEF OneSendInOrder
    <2>4. ~Awaits(shown, p)
        BY <1>2 DEF FlowInv, AwaitedAreFlows, FlowTypeOK
    <2> QED BY <1>2, <2>3, <2>4, ReportFacts
<1>3. ASSUME NEW i \in injections'
      PROVE  i.session = i.origin
    BY <1>1, <1>2, <1>3, InjectionsStep DEF QueuedFor
<1>4. ASSUME NEW d \in deliveries'
      PROVE  d.session = d.origin
    <2>1. ASSUME NEW k \in Keys, NEW i \in injections, i.session = k, d = GivenInjection(k, i)
          PROVE  d.session = d.origin
        BY <1>1, <2>1 DEF GivenInjection
    <2>2. ASSUME NEW k \in Keys, d = GivenBatch(k)
          PROVE  d.session = d.origin
        BY <2>2 DEF GivenBatch
    <2> QED BY <1>1, <1>4, <2>1, <2>2, DeliveriesStep
<1> QED
    BY <1>3, <1>4 DEF ContextStaysInSession

-------------------------------------------------------------------------------
(* What a turn is given has been recorded                                  *)

DeliveriesFollowAdmission ==
    \A d \in deliveries :
        Admitted(d.prep) /\ d.batch = completedOutcomes[d.prep].compactContext.batch

\* The batch a turn takes is recorded as admitted in that very step, and what was queued
\* has been recorded when it was queued; a record is never changed.
LEMMA DeliveriesAdmittedStep ==
    ASSUME StoreOK, FlowTypeOK, FlowInv, DeliveriesFollowAdmission, [FlowNext]_allVars
    PROVE  DeliveriesFollowAdmission'
<1>1. \A p \in DOMAIN completedOutcomes :
          p \in DOMAIN completedOutcomes' /\ completedOutcomes'[p] = completedOutcomes[p]
    BY StoreStep, StepKeepsOutcomes DEF StoreOK
<1> SUFFICES ASSUME NEW d \in deliveries'
             PROVE  Admitted(d.prep)' /\ d.batch = completedOutcomes'[d.prep].compactContext.batch
    BY DEF DeliveriesFollowAdmission
<1>2. CASE d \in deliveries
    BY <1>1, <1>2 DEF DeliveriesFollowAdmission, Admitted
<1>3. ASSUME NEW k \in Keys, NEW i \in injections, d = GivenInjection(k, i)
      PROVE  Admitted(d.prep)' /\ d.batch = completedOutcomes'[d.prep].compactContext.batch
    BY <1>1, <1>3 DEF GivenInjection, FlowInv, InjectionsFollowAdmission, Admitted
<1>4. ASSUME NEW k \in Keys, d = GivenBatch(k), Consumes(k, TurnPreparation(k), TRUE)
      PROVE  Admitted(d.prep)' /\ d.batch = completedOutcomes'[d.prep].compactContext.batch
    BY <1>4 DEF GivenBatch, Consumes, Admitted
<1> QED
    BY <1>2, <1>3, <1>4, DeliveriesStep

-------------------------------------------------------------------------------
(* One session                                                             *)

\* While the composer shows one session, what it awaits there is what it awaited there.
LEMMA ShownAwaits ==
    ASSUME UNCHANGED shown, NEW k, k = shown, NEW p
    PROVE  Awaits(shown, p)' <=> Awaits(k, p)'
BY DEF Awaits, Existing

\* Recorded outcomes stay.
OutcomesStay ==
    \A p \in DOMAIN completedOutcomes :
        /\ p \in DOMAIN completedOutcomes'
        /\ completedOutcomes'[p] = completedOutcomes[p]

\* Steps that neither queue nor deliver, and after which the Sends under way are the
\* ones the store waits for, keep the order.
LEMMA StillInOrder ==
    ASSUME InOrder, OutcomesStay, UNCHANGED <<shown, deliveries, ran>>,
           injections' \subseteq injections,
           \A p \in PreparationIds :
              /\ SameSessions(p)
              /\ flows[p].decision = "accepted" => flows'[p].decision = "accepted"
              /\ flows'[p].stage = "reported" => flows'[p] = flows[p]
              /\ flows'[p].stage = "none" <=> flows[p].stage = "none",
           InStep',
           FlowTypeOK
    PROVE  InOrder'
<1> USE DEF InOrder, OutcomesStay
<1>1. QueuedInStep'
    BY DEF QueuedInStep
<1>2. DeliveredInStep'
    <2> SUFFICES ASSUME NEW d \in deliveries
                 PROVE  /\ Admitted(d.prep)'
                        /\ d.batch = completedOutcomes'[d.prep].compactContext.batch
                        /\ flows'[d.prep].stage = "none" \/ Accepted(d.prep)'
        BY DEF DeliveredInStep
    <2>1. d.prep \in PreparationIds
        BY DEF FlowTypeOK, Delivery
    <2> QED BY <2>1 DEF DeliveredInStep, Admitted, Accepted
<1>3. DeliveredOnce'
    BY DEF DeliveredOnce
<1>4. ReportedAgrees'
    BY DEF ReportedAgrees, Accepted
<1> QED
    BY <1>1, <1>2, <1>3, <1>4

\* A step that is quiet and leaves the handlers alone.
LEMMA QuietInOrder ==
    ASSUME FlowTypeOK, InOrder, Quiet, UNCHANGED <<shown, flows, deliveries, ran>>,
           injections' \subseteq injections
    PROVE  InOrder'
<1>1. \A p \in PreparationIds : Awaits(shown, p)' <=> Awaits(shown, p)
    <2> SUFFICES ASSUME NEW p \in PreparationIds, NEW k \in Keys, k = shown
                 PROVE  Awaits(shown, p)' <=> Awaits(k, p)
        BY DEF FlowTypeOK
    <2> QED BY ShownAwaits DEF Quiet, SameAwaited
<1>2. InStep'
    BY <1>1 DEF InOrder, InStep, Active, Accepted
<1>3. OutcomesStay
    BY DEF Quiet, OutcomesStay
<1> QED
    BY <1>2, <1>3, StillInOrder DEF SameSessions

\* A click opens a Send when none is under way in the session, and, since nothing is
\* queued, when the turns of the accepted ones have started.
LEMMA ClickInOrder ==
    ASSUME StoreOK, FlowTypeOK, FlowInv, InOrder, Orderly, Click
    PROVE  InOrder'
<1> DEFINE n == lastPreparationId + 1
<1>1. /\ n \in PreparationIds
      /\ flows'[n] = [stage |-> "prepared", origin |-> shown, target |-> shown,
                      decision |-> "none"]
      /\ OtherFlowsStay(n)
      /\ flows[n].decision = "none"
    BY ClickFlows DEF FlowInv, FlowShape, StoreOK, TypeOK
<1>2. /\ UNCHANGED <<completedOutcomes, shown, deliveries, injections, ran>>
      /\ \A p : ~Awaits(shown, p)
      /\ \A j \in Keys, p \in PreparationIds :
            Awaits(j, p)' <=> Awaits(j, p) \/ (j = shown /\ p = n)
    BY PrepareFacts DEF Click, FlowTypeOK
<1>3. \A p \in PreparationIds : Accepted(p) => p \in ran
    BY DEF Click, SendEnabled, Orderly, Accepted
<1>4. n \notin DOMAIN completedOutcomes
    BY DEF StoreOK, SendInv, TypeOK
<1>5. \A p \in PreparationIds : Awaits(shown, p)' <=> p = n
    <2> SUFFICES ASSUME NEW p \in PreparationIds, NEW k \in Keys, k = shown
                 PROVE  Awaits(shown, p)' <=> p = n
        BY DEF FlowTypeOK
    <2> QED BY <1>2, ShownAwaits
<1> HIDE DEF n
<1>6. InStep'
    BY <1>1, <1>2, <1>3, <1>5 DEF InOrder, InStep, OtherFlowsStay, Active, Accepted
<1>7. QueuedInStep'
    BY <1>2 DEF InOrder, QueuedInStep
<1>8. DeliveredInStep'
    <2> SUFFICES ASSUME NEW d \in deliveries
                 PROVE  /\ Admitted(d.prep)
                        /\ d.batch = completedOutcomes[d.prep].compactContext.batch
                        /\ flows'[d.prep].stage = "none" \/ Accepted(d.prep)'
        BY <1>2 DEF DeliveredInStep, Admitted
    <2>1. d.prep \in PreparationIds
        BY DEF FlowTypeOK, Delivery
    <2>2. d.prep # n
        BY <1>4 DEF InOrder, DeliveredInStep, Admitted
    <2> QED BY <1>1, <2>1, <2>2 DEF InOrder, DeliveredInStep, OtherFlowsStay, Accepted
<1>9. DeliveredOnce'
    BY <1>2 DEF InOrder, DeliveredOnce
<1>10. ReportedAgrees'
    BY <1>1, <1>2 DEF InOrder, ReportedAgrees, OtherFlowsStay, Accepted
<1> QED
    BY <1>6, <1>7, <1>8, <1>9, <1>10 DEF InOrder

\* The page is closed: no handler is under way any more.
LEMMA ClosePageInOrder ==
    ASSUME FlowTypeOK, FlowInv, InOrder, ClosePage
    PROVE  InOrder'
<1>1. UNCHANGED <<vars, shown, deliveries, ran, injections>>
    BY DEF ClosePage
<1>2. \A p \in PreparationIds :
         /\ SameSessions(p)
         /\ flows'[p].decision = flows[p].decision
         /\ ~Active(p)'
         /\ flows'[p].stage = "reported" => flows'[p] = flows[p]
         /\ flows'[p].stage = "none" <=> flows[p].stage = "none"
    <2> TAKE p \in PreparationIds
    <2>1. SameSessions(p) /\ flows'[p].decision = flows[p].decision
        BY ClosePageFlows
    <2>2. flows[p].stage \in Stages
        BY DEF FlowTypeOK, Flow
    <2>3. flows'[p] = IF flows[p].stage \in {"none", "reported"} THEN flows[p]
                      ELSE [flows[p] EXCEPT !.stage = "ended"]
        BY DEF ClosePage
    <2> QED BY <2>1, <2>2, <2>3, ClosePageFlows DEF Active, Stages
<1>3. InStep'
    BY <1>1, <1>2, StillIsQuiet
    DEF vars, InOrder, InStep, SameSessions, Accepted, Awaits, Existing
<1>4. OutcomesStay
    BY <1>1 DEF vars, OutcomesStay
<1> QED
    BY <1>1, <1>2, <1>3, <1>4, StillInOrder

\* The handler goes on to send(), in the one session there is.
LEMMA AfterPrepareInOrder ==
    ASSUME FlowTypeOK, InOrder, NEW p \in PreparationIds, AfterPrepare(p)
    PROVE  InOrder'
<1>1. UNCHANGED <<vars, shown, deliveries, ran, injections>>
    BY DEF AfterPrepare
<1>2. flows'[p].target = flows[p].target
    BY AfterPrepareFlows DEF InOrder, InStep
<1>3. \A q \in PreparationIds :
         /\ SameSessions(q)
         /\ flows'[q].decision = flows[q].decision
         /\ Active(q)' => Active(q)
         /\ flows'[q].stage = "reported" => flows'[q] = flows[q]
         /\ flows'[q].stage = "none" <=> flows[q].stage = "none"
    BY <1>2, AfterPrepareFlows DEF OtherFlowsStay, SameSessions, Active
<1>4. InStep'
    BY <1>1, <1>3 DEF vars, InOrder, InStep, SameSessions, Accepted, Awaits, Existing
<1>5. OutcomesStay
    BY <1>1 DEF vars, OutcomesStay
<1> QED
    BY <1>1, <1>3, <1>4, <1>5, StillInOrder

\* The host accepts a Send only when the ones it accepted before have run: the store
\* waits for this one.
LEMMA HostDecidesInOrder ==
    ASSUME StoreOK, FlowTypeOK, FlowInv, InOrder, NEW p \in PreparationIds, HostDecides(p)
    PROVE  InOrder'
<1>1. UNCHANGED <<vars, shown, deliveries, ran, injections>>
    BY DEF HostDecides
<1>2. /\ Active(p) /\ Awaits(shown, p)
      /\ \A q \in PreparationIds : Awaits(shown, q) => q = p
      /\ \A q \in PreparationIds : Accepted(q) /\ q # p => q \in ran
    <2>1. Active(p)
        BY HostDecidesFlows DEF Active
    <2>2. Awaits(shown, p)
        BY <2>1 DEF InOrder, InStep
    <2> QED BY <2>1, <2>2, AwaitedFacts DEF FlowTypeOK, InOrder, InStep
<1>3. \A q \in PreparationIds :
         /\ SameSessions(q)
         /\ flows[q].decision = "accepted" => flows'[q].decision = "accepted"
         /\ Active(q)' => Active(q)
         /\ flows'[q].stage = "reported" => flows'[q] = flows[q]
         /\ flows'[q].stage = "none" <=> flows[q].stage = "none"
    BY HostDecidesFlows DEF OtherFlowsStay, SameSessions, Active, FlowInv, FlowShape
<1>4. \A q \in PreparationIds : Accepted(q)' => q = p \/ q \in ran
    BY <1>2, HostDecidesFlows DEF OtherFlowsStay, Accepted
<1>5. \A q \in PreparationIds : Awaits(shown, q)' <=> Awaits(shown, q)
    BY <1>1 DEF vars, Awaits, Existing
<1>6. InStep'
    <2>1. \A q \in PreparationIds : flows'[q].origin = shown /\ flows'[q].target = shown
        BY <1>3 DEF InOrder, InStep, SameSessions
    <2>2. \A q \in PreparationIds : Active(q)' => Awaits(shown, q)'
        BY <1>3, <1>5 DEF InOrder, InStep
    <2>3. \A r, q \in PreparationIds :
             Awaits(shown, r)' /\ Accepted(q)' /\ q # r => q \in ran
        BY <1>2, <1>4, <1>5
    <2>4. \A r, q \in PreparationIds \ ran : Accepted(r)' /\ Accepted(q)' => r = q
        BY <1>4
    <2> QED BY <1>1, <2>1, <2>2, <2>3, <2>4 DEF InStep
<1>7. OutcomesStay
    BY <1>1 DEF vars, OutcomesStay
<1> QED
    BY <1>1, <1>3, <1>6, <1>7, StillInOrder

\* What was delivered stays in step with what is recorded, which only grows.
LEMMA DeliveredStays ==
    ASSUME FlowTypeOK, DeliveredInStep, OutcomesStay, NEW d \in deliveries,
           \A p \in PreparationIds : flows'[p].decision = flows[p].decision
                                     /\ (flows[p].stage = "none" => flows'[p].stage = "none")
    PROVE  /\ Admitted(d.prep)'
           /\ d.batch = completedOutcomes'[d.prep].compactContext.batch
           /\ flows'[d.prep].stage = "none" \/ Accepted(d.prep)'
<1>1. d.prep \in PreparationIds
    BY DEF FlowTypeOK, Delivery
<1> QED
    BY <1>1 DEF DeliveredInStep, OutcomesStay, Admitted, Accepted

\* The reported outcome is recorded as the host decided it, since the store waits for
\* it, and what it queues has neither run nor been delivered.
LEMMA ReportInOrder ==
    ASSUME StoreOK, FlowTypeOK, FlowInv, RanInOrder, InOrder, Orderly, OutcomesStay,
           NEW p \in PreparationIds, ReportOutcome(p)
    PROVE  InOrder'
<1>1. UNCHANGED <<shown, deliveries, ran>> /\ shown \in Keys
    BY DEF ReportOutcome, FlowTypeOK
<1>2. Active(p) /\ flows[p].stage = "decided"
    BY ReportFlows DEF Active
<1>3. Awaits(shown, p) /\ \A q \in PreparationIds : Awaits(shown, q) => q = p
    BY <1>1, <1>2, AwaitedFacts DEF FlowTypeOK, InOrder, InStep
<1>4. Consumes(shown, p, Accepted(p))
    BY <1>3, ReportFacts
<1>5. \A i \in injections' : i \in injections \/ i = QueuedFor(p)
    BY ReportFacts
<1>6. p \notin ran
    BY <1>2 DEF RanInOrder, Finished
<1>7. p \notin DOMAIN completedOutcomes
    BY <1>4 DEF Consumes
<1>8. \A q \in PreparationIds :
         /\ flows'[q].origin = shown /\ flows'[q].target = shown
         /\ flows'[q].decision = flows[q].decision
         /\ flows[q].stage = "none" => flows'[q].stage = "none"
         /\ q # p => flows'[q] = flows[q]
    BY ReportFlows DEF OtherFlowsStay, SameSessions, InOrder, InStep
<1>9. \A q \in PreparationIds : ~Active(q)'
    BY <1>3, <1>8, ReportFlows DEF InOrder, InStep, Active
<1>10. \A q \in PreparationIds : ~Awaits(shown, q)'
    <2> SUFFICES ASSUME NEW q \in PreparationIds, NEW k \in Keys, k = shown
                 PROVE  ~Awaits(shown, q)'
        BY <1>1
    <2> QED BY <1>1, <1>4, ShownAwaits DEF Consumes
<1>11. InStep'
    BY <1>1, <1>8, <1>9, <1>10 DEF InOrder, InStep, Accepted
<1>12. QueuedInStep'
    <2> SUFFICES ASSUME NEW i \in injections'
                 PROVE  /\ i.session = shown /\ i.origin = shown
                        /\ i.prep \notin ran
                        /\ \A d \in deliveries : d.prep # i.prep
        BY <1>1 DEF QueuedInStep
    <2>1. CASE i \in injections
        BY <2>1 DEF InOrder, QueuedInStep
    <2>2. CASE i = QueuedFor(p)
        <3>1. i.session = shown /\ i.origin = shown /\ i.prep = p
            BY <2>2 DEF QueuedFor, InOrder, InStep
        <3>2. \A d \in deliveries : d.prep # p
            BY <1>7 DEF InOrder, DeliveredInStep, Admitted
        <3> QED BY <1>6, <3>1, <3>2
    <2> QED BY <1>5, <2>1, <2>2
<1>13. DeliveredInStep'
    BY <1>1, <1>8, DeliveredStays DEF InOrder, DeliveredInStep
<1>14. DeliveredOnce'
    BY <1>1 DEF InOrder, DeliveredOnce
<1>15. ReportedAgrees'
    <2> SUFFICES ASSUME NEW q \in PreparationIds, flows'[q].stage = "reported"
                 PROVE  /\ q \in DOMAIN completedOutcomes'
                        /\ completedOutcomes'[q].admitted = Accepted(q)'
        BY DEF ReportedAgrees
    <2>1. CASE q = p
        BY <1>4, <1>8, <2>1 DEF Consumes, Accepted
    <2>2. CASE q # p
        BY <1>8, <2>2 DEF InOrder, ReportedAgrees, Accepted, OutcomesStay
    <2> QED BY <2>1, <2>2
<1> QED
    BY <1>11, <1>12, <1>13, <1>14, <1>15 DEF InOrder

\* The turn of an accepted Send gets what is queued, and admits a batch only if it was
\* in no Send, or in this one: no other Send is under way.
LEMMA OwnTurnInOrder ==
    ASSUME StoreOK, FlowTypeOK, FlowInv, InOrder, Orderly, OutcomesStay,
           NEW p \in PreparationIds, OwnTurn(p)
    PROVE  InOrder'
<1> DEFINE t == TurnPreparation(shown)
<1>1. /\ UNCHANGED <<flows, shown>>
      /\ ran' = ran \cup {p} /\ p \notin ran
      /\ Accepted(p) /\ Finished(p)
      /\ shown \in Keys
    BY DEF OwnTurn, Orderly, Accepted, Finished, FlowTypeOK
<1>2. RunTurn(shown)
    BY DEF OwnTurn, InOrder, InStep
<1>3. /\ injections' = {i \in injections : i.session # shown}
      /\ \A d \in deliveries' :
            \/ d \in deliveries
            \/ \E i \in injections : i.session = shown /\ d = GivenInjection(shown, i)
            \/ d = GivenBatch(shown) /\ Consumes(shown, t, TRUE)
      /\ Consumes(shown, t, TRUE) \/ UNCHANGED vars
    BY <1>1, <1>2, TurnFacts DEF FlowTypeOK
<1> HIDE DEF t
<1>4. injections' = {}
    BY <1>3 DEF InOrder, QueuedInStep
<1>5. \A q \in PreparationIds : Awaits(shown, q) => q = p
    BY <1>1 DEF InOrder, InStep
<1>6. \A q \in PreparationIds : ~Active(q)
    BY <1>1, <1>5 DEF InOrder, InStep, Active, Finished
<1>7. \A q \in PreparationIds : Awaits(shown, q)' => Awaits(shown, q)
    <2> SUFFICES ASSUME NEW q \in PreparationIds, NEW k \in Keys, k = shown, Awaits(shown, q)'
                 PROVE  Awaits(k, q)
        BY <1>1
    <2>1. Awaits(k, q)'
        BY <1>1, ShownAwaits
    <2> QED BY <1>3, <2>1, StillIsQuiet DEF Consumes, Quiet, SameAwaited
<1>8. InStep'
    BY <1>1, <1>6, <1>7 DEF InOrder, InStep, Active, Accepted
<1>9. Consumes(shown, t, TRUE) => /\ t \in PreparationIds
                                  /\ t \notin DOMAIN completedOutcomes
                                  /\ t \in DOMAIN completedOutcomes'
                                  /\ completedOutcomes'[t].admitted
                                  /\ completedOutcomes'[t].compactContext.batch
                                       = batches[shown].id
                                  /\ flows[t].stage = "none" \/ Accepted(t)
    <2> SUFFICES ASSUME Consumes(shown, t, TRUE)
                 PROVE  flows[t].stage = "none" \/ Accepted(t)
        BY DEF Consumes
    <2>1. CASE Awaits(shown, t)
        BY <1>1, <1>5, <2>1 DEF Consumes
    <2>2. CASE t = lastPreparationId + 1
        BY <2>2 DEF Consumes, FlowInv, FlowShape, StoreOK, TypeOK
    <2> QED BY <2>1, <2>2 DEF Consumes
<1>10. \A i \in injections :
          /\ i.session = shown /\ i.origin = shown
          /\ i.prep \in PreparationIds
          /\ \A d \in deliveries : d.prep # i.prep
          /\ Accepted(i.prep) /\ Admitted(i.prep)
          /\ i.batch = completedOutcomes[i.prep].compactContext.batch
    BY DEF InOrder, QueuedInStep, FlowInv, InjectionsFollowAdmission, FlowTypeOK,
           NextTurnInjection, Accepted, Admitted
<1>11. DeliveredInStep'
    <2> SUFFICES ASSUME NEW d \in deliveries'
                 PROVE  /\ Admitted(d.prep)'
                        /\ d.batch = completedOutcomes'[d.prep].compactContext.batch
                        /\ flows'[d.prep].stage = "none" \/ Accepted(d.prep)'
        BY DEF DeliveredInStep
    <2>1. CASE d \in deliveries
        BY <1>1, <2>1, DeliveredStays DEF InOrder
    <2>2. ASSUME NEW i \in injections, d = GivenInjection(shown, i)
          PROVE  /\ Admitted(d.prep)'
                 /\ d.batch = completedOutcomes'[d.prep].compactContext.batch
                 /\ Accepted(d.prep)'
        <3>1. d.prep = i.prep /\ d.batch = i.batch
            BY <2>2 DEF GivenInjection
        <3> QED BY <1>1, <1>10, <3>1 DEF OutcomesStay, Admitted, Accepted
    <2>3. CASE d = GivenBatch(shown) /\ Consumes(shown, t, TRUE)
        <3>1. d.prep = t /\ d.batch = batches[shown].id
            BY <2>3 DEF GivenBatch, t
        <3> QED BY <1>1, <1>9, <2>3, <3>1 DEF Accepted, Admitted
    <2> QED BY <1>3, <2>1, <2>2, <2>3
<1>12. DeliveredOnce'
    <2> SUFFICES ASSUME NEW c \in deliveries', NEW d \in deliveries', c.prep = d.prep
                 PROVE  c = d
        BY DEF DeliveredOnce
    <2> DEFINE Old(e) == e \in deliveries
               Queued(e) == \E i \in injections : e = GivenInjection(shown, i)
               Own(e) == e = GivenBatch(shown) /\ Consumes(shown, t, TRUE)
    <2>1. ASSUME NEW e \in deliveries'
          PROVE  Old(e) \/ Queued(e) \/ Own(e)
        BY <1>3, <2>1
    <2>2. ASSUME NEW e, Old(e)
          PROVE  /\ e.prep \in DOMAIN completedOutcomes
                 /\ \A i \in injections : i.prep # e.prep
        BY <1>10, <2>2 DEF InOrder, DeliveredInStep, Admitted
    <2>3. ASSUME NEW e, Queued(e)
          PROVE  \E i \in injections : /\ e = GivenInjection(shown, i) /\ e.prep = i.prep
                                       /\ e.prep \in DOMAIN completedOutcomes
        BY <1>10, <2>3 DEF GivenInjection, Admitted
    <2>4. ASSUME NEW e, Own(e)
          PROVE  e.prep \notin DOMAIN completedOutcomes
        BY <1>9, <2>4 DEF GivenBatch, t
    <2>5. ASSUME NEW i \in injections, NEW j \in injections, i.prep = j.prep
          PROVE  GivenInjection(shown, i) = GivenInjection(shown, j)
        BY <1>10, <2>5 DEF GivenInjection
    <2>6. CASE Old(c) /\ Old(d)
        BY <2>6 DEF InOrder, DeliveredOnce
    <2>7. CASE Own(c) /\ Own(d)
        BY <2>7
    <2> HIDE DEF Old, Queued, Own
    <2>8. CASE Queued(c) /\ Queued(d)
        BY <2>3, <2>5, <2>8
    <2> QED BY <2>1, <2>2, <2>3, <2>4, <2>6, <2>7, <2>8
<1>13. QueuedInStep'
    BY <1>4 DEF QueuedInStep
<1>14. ReportedAgrees'
    BY <1>1 DEF InOrder, ReportedAgrees, OutcomesStay, Accepted
<1> QED
    BY <1>8, <1>11, <1>12, <1>13, <1>14 DEF InOrder

\* In one session the order is kept by every step.
LEMMA OneSessionStep ==
    ASSUME StoreOK, FlowTypeOK, FlowInv, RanInOrder, OneSessionInOrder, [FlowNext]_allVars
    PROVE  OneSessionInOrder'
<1> SUFFICES ASSUME Orderly, OneSession, InOrder
             PROVE  InOrder'
    BY FaultsStay DEF OneSessionInOrder, Orderly, OneSession
<1>1. OutcomesStay
    BY StoreStep, StepKeepsOutcomes DEF StoreOK, OutcomesStay
<1>2. CASE UserDrafts
    BY <1>2, DraftingIsQuiet, QuietInOrder DEF FlowTypeOK, flowVars
<1>3. CASE Dispose \/ (\E i \in injections : Expire(i)) \/ UNCHANGED allVars
    <2>1. /\ UNCHANGED <<vars, shown, flows, deliveries, ran>>
          /\ injections' \subseteq injections
        BY <1>3 DEF Dispose, Expire, allVars, flowVars
    <2> QED BY <2>1, StillIsQuiet, QuietInOrder
<1>4. ASSUME NEW k \in Keys, Switch(k) \/ OtherTurn(k)
      PROVE  FALSE
    BY <1>4 DEF Switch, OtherTurn, Orderly, OneSession
<1>5. ASSUME NEW p \in PreparationIds, OwnTurn(p)
      PROVE  InOrder'
    BY <1>1, <1>5, OwnTurnInOrder
<1>6. CASE Elsewhere
    BY <1>2, <1>3, <1>4, <1>5, <1>6 DEF Elsewhere
<1>7. CASE Click
    BY <1>7, ClickInOrder
<1>8. CASE ClosePage
    BY <1>8, ClosePageInOrder
<1>9. ASSUME NEW p \in PreparationIds, AfterPrepare(p) \/ HostDecides(p) \/ ReportOutcome(p)
      PROVE  InOrder'
    BY <1>1, <1>9, AfterPrepareInOrder, HostDecidesInOrder, ReportInOrder
<1> QED
    BY <1>6, <1>7, <1>8, <1>9, StepCases

-------------------------------------------------------------------------------
(* The theorems                                                            *)

\* Nothing is queued, delivered or under way at first.
LEMMA FlowOrderInit == FlowInit => FlowOrder
<1> SUFFICES ASSUME FlowInit PROVE FlowOrder
    OBVIOUS
<1>1. FlowInv
    BY FlowInvInit
<1>2. /\ \A p \in PreparationIds : /\ flows[p].stage = "none"
                                   /\ flows[p].decision = "none"
                                   /\ flows[p].origin = shown /\ flows[p].target = shown
      /\ injections = {} /\ deliveries = {} /\ ran = {}
    BY DEF FlowInit
<1>3. \A p : ~Awaits(shown, p)
    BY EmptyIsMap DEF FlowInit, Init, Awaits, Existing
<1>4. InOrder
    BY <1>2, <1>3 DEF InOrder, InStep, QueuedInStep, DeliveredInStep, DeliveredOnce,
                      ReportedAgrees, Active, Accepted
<1>5. RanInOrder /\ OneSendInOrder /\ OrderlyContextStays
    BY <1>2 DEF RanInOrder, OneSendInOrder, OrderlyContextStays, ContextStaysInSession, Active
<1> QED
    BY <1>1, <1>4, <1>5 DEF FlowOrder, OneSessionInOrder

\* The whole invariant is kept by every step.
THEOREM FlowInOrder == FlowSpec => []FlowOrder
<1>1. StoreOK /\ FlowTypeOK /\ FlowOrder /\ [FlowNext]_allVars => FlowOrder'
    BY FlowInvStep, RanInOrderStep, OneSendStep, ContextStaysStep, OneSessionStep
    DEF FlowOrder, FlowInv
<1> QED
    BY <1>1, FlowOrderInit, FlowTypeCorrect, PTL DEF FlowSpec

\* When turns follow outcomes and the user stays in a session, the context of a Send,
\* and of a batch, is delivered once, whatever the host, the view and the queue do.
THEOREM DeliveryIsOrderly == FlowSpec => []OrderlyDelivery
<1>1. StoreOK /\ FlowOrder => OrderlyDelivery
    <2> SUFFICES ASSUME StoreOK, InOrder, NEW c \in deliveries, NEW d \in deliveries,
                        c.prep = d.prep \/ c.batch = d.batch
                 PROVE  c = d
        BY DEF FlowOrder, OneSessionInOrder, OrderlyDelivery, ContextDeliveredOnce
    <2>1. /\ Admitted(c.prep) /\ c.batch = completedOutcomes[c.prep].compactContext.batch
          /\ Admitted(d.prep) /\ d.batch = completedOutcomes[d.prep].compactContext.batch
        BY DEF InOrder, DeliveredInStep
    <2>2. c.prep = d.prep
        BY <2>1 DEF StoreOK, BatchIdInv, HandedOverOnce, Admitted
    <2> QED BY <2>2 DEF InOrder, DeliveredOnce
<1> QED
    BY <1>1, FlowInOrder, FlowTypeCorrect, PTL

\* When turns follow outcomes, context stays in the session of its Send if the user
\* stays there, and if he switches as long as he sends once.
THEOREM ContextStays == FlowSpec => []OrderlyContextStays
<1>1. FlowOrder => OrderlyContextStays
    BY DEF FlowOrder
<1> QED
    BY <1>1, FlowInOrder, PTL

\* A turn is given only what is recorded as handed over, whatever happens around a Send;
\* so a recorded refusal is final, and where turns follow outcomes in one session no turn
\* gets what the host refused.
THEOREM RefusedIsNotDelivered == FlowSpec => []RefusedNotDelivered
<1>1. FlowInit => DeliveriesFollowAdmission
    BY DEF FlowInit, DeliveriesFollowAdmission
<1>2. StoreOK /\ FlowTypeOK /\ FlowInv /\ DeliveriesFollowAdmission /\ [FlowNext]_allVars
          => DeliveriesFollowAdmission'
    BY DeliveriesAdmittedStep
<1>3. FlowTypeOK /\ FlowOrder /\ DeliveriesFollowAdmission => RefusedNotDelivered
    <2> SUFFICES ASSUME FlowTypeOK, FlowOrder, DeliveriesFollowAdmission, NEW d \in deliveries
                 PROVE  /\ d.prep \in DOMAIN completedOutcomes
                        /\ completedOutcomes[d.prep].admitted
                        /\ d.batch = completedOutcomes[d.prep].compactContext.batch
                        /\ Orderly /\ OneSession => flows[d.prep].decision # "refused"
        BY DEF RefusedNotDelivered
    <2>1. d.prep \in PreparationIds
        BY DEF FlowTypeOK, Delivery
    <2>2. Orderly /\ OneSession => flows[d.prep].decision # "refused"
        BY <2>1 DEF FlowOrder, FlowInv, OneSessionInOrder, InOrder, DeliveredInStep, FlowShape,
                    Accepted
    <2> QED BY <2>2 DEF DeliveriesFollowAdmission, Admitted
<1> QED
    BY <1>1, <1>2, <1>3, FlowInOrder, FlowInvariant, FlowTypeCorrect, PTL DEF FlowSpec

\* The plugin's record of a reported outcome is what the host decided.
THEOREM OutcomesAgree == FlowSpec => []OutcomeAgreesWithHost
<1>1. FlowOrder => OutcomeAgreesWithHost
    BY DEF FlowOrder, OneSessionInOrder, InOrder, ReportedAgrees, OutcomeAgreesWithHost, Accepted
<1> QED
    BY <1>1, FlowInOrder, PTL

===============================================================================
