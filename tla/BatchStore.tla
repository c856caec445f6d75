------------------------------ MODULE BatchStore ------------------------------
(***************************************************************************)
(* VisualBatchStore (packages/openclaw-plugin/src/store.ts): the in-memory   *)
(* store the composer UI, the browser bridge, the agent tools and the host   *)
(* hooks all call into.  Every method runs to completion on one JavaScript   *)
(* thread, so each is one action; the awaits of its callers are what         *)
(* interleaves the actions.                                                  *)
(*                                                                         *)
(* A call that is refused and changes nothing (an early return with an       *)
(* error, a throw before any batches.set) is a stuttering step.              *)
(***************************************************************************)
EXTENDS VisualBatch, Maps

CONSTANTS
    Agents,           \* agent ids
    SessionKeys,      \* host session keys; two agents may share one
    MaxBatches,       \* bound: batches created
    MaxSelections,    \* bound: chips created
    MaxPreparations,  \* bound: preparations created
    MaxChanges,       \* bound: changes recorded
    MaxRevision       \* bound: revision of one batch

ASSUME BoundsAssumption ==
    /\ MaxBatches \in Nat
    /\ MaxSelections \in Nat
    /\ MaxPreparations \in Nat
    /\ MaxChanges \in Nat
    /\ MaxRevision \in Nat

VARIABLES
    batches,            \* batches: working batch of each session
    admittedBySession,  \* admittedBySession: last admitted batch, for tools
    pendingCompact,     \* pendingCompact: preparation -> compact text
    completedOutcomes,  \* completedOutcomes: preparation -> recorded outcome
    position,           \* iteration order of the batches Map, see Store
    lastBatchId,        \* crypto.randomUUID as counters: every id is fresh
    lastSelectionId,
    lastPreparationId,
    lastChangeId

vars == <<batches, admittedBySession, pendingCompact, completedOutcomes,
          position, lastBatchId, lastSelectionId, lastPreparationId,
          lastChangeId>>

\* sessionStoreKey
Keys == Agents \X SessionKeys
SessionKeyOf(k) == k[2]

\* compactContext of a rejected Send (null in the source).
NoContext == [batch |-> 0, lines |-> {}]

Outcome == [admitted : BOOLEAN, compactContext : Compact]

-------------------------------------------------------------------------------
(* Reading and writing batches                                             *)

Existing(k) == k \in DOMAIN batches

GetOrCreate(k) ==
    IF Existing(k) THEN batches[k] ELSE NewBatch(lastBatchId + 1)

EnsureDraft(k) ==
    IF Existing(k) /\ batches[k].state \in {"draft", "preparing"}
    THEN batches[k]
    ELSE NewBatch(lastBatchId + 1)

\* batches.set(key, batch).  A key keeps its place in the Map's iteration
\* order until it is deleted; position remembers that place as the id of the
\* batch the key was first set with.
Store(k, batch) ==
    /\ batch.id <= MaxBatches
    /\ batch.revision <= MaxRevision
    /\ batches' = MapSet(batches, k, batch)
    /\ position' = IF Existing(k) THEN position
                                  ELSE MapSet(position, k, batch.id)
    /\ lastBatchId' = IF batch.id > lastBatchId THEN batch.id ELSE lastBatchId

\* findBySessionKey: the first batch in iteration order with this session
\* key, whichever agent it belongs to.
KeysOf(s) == {k \in DOMAIN batches : SessionKeyOf(k) = s}

FindBySessionKey(s) ==
    CHOOSE k \in KeysOf(s) : \A other \in KeysOf(s) : position[k] <= position[other]

\* findAdmittedBySessionKey; its choice among agents is never exercised,
\* because a session with an archive also has a working batch.
FindAdmittedBySessionKey(s) ==
    CHOOSE k \in DOMAIN admittedBySession : SessionKeyOf(k) = s

\* locateActiveContext / getActiveContextBatch: the working batch while a
\* Send is pending, else the archive of the last admitted one.
WorkingIsActive(k) ==
    /\ Existing(k)
    /\ batches[k].state \in {"preparing", "sent"}
    /\ batches[k].selections # {}

ArchiveIsActive(k) ==
    /\ ~WorkingIsActive(k)
    /\ k \in DOMAIN admittedBySession
    /\ admittedBySession[k].selections # {}

HasActiveContext(k) == WorkingIsActive(k) \/ ArchiveIsActive(k)

ActiveContext(k) ==
    IF WorkingIsActive(k) THEN batches[k] ELSE admittedBySession[k]

WriteActiveContext(k, batch) ==
    /\ batch.revision <= MaxRevision
    /\ IF WorkingIsActive(k)
       THEN /\ batches' = MapSet(batches, k, batch)
            /\ UNCHANGED admittedBySession
       ELSE /\ admittedBySession' = MapSet(admittedBySession, k, batch)
            /\ UNCHANGED batches
    /\ UNCHANGED <<position, lastBatchId>>

sendVars == <<admittedBySession, pendingCompact, completedOutcomes>>

-------------------------------------------------------------------------------
(* Drafting                                                                *)

\* snapshot(), and getOrCreate() as emitChanged calls it.
Snapshot(k) ==
    /\ Store(k, GetOrCreate(k))
    /\ UNCHANGED <<sendVars, lastSelectionId, lastPreparationId, lastChangeId>>

\* attach(): admission, deduplication and the limit are in VisualBatch.
Attach(k, element) ==
    LET draft == EnsureDraft(k)
        isNew == TwinsOf(draft, element) = {}
    IN  /\ CanAttach(draft, element)
        /\ isNew => lastSelectionId < MaxSelections
        /\ Store(k, AttachSelection(draft, element, lastSelectionId + 1))
        /\ lastSelectionId' = IF isNew THEN lastSelectionId + 1 ELSE lastSelectionId
        /\ UNCHANGED <<sendVars, lastPreparationId, lastChangeId>>

\* attach() of a selection over the size caps: admitSelection throws after
\* ensureDraft has already replaced a cleared batch.
AttachTooLarge(k) ==
    /\ EnsureDraft(k).state = "draft"
    /\ Store(k, EnsureDraft(k))
    /\ UNCHANGED <<sendVars, lastSelectionId, lastPreparationId, lastChangeId>>

\* remove(); both callers look the chip up first and answer without calling
\* it when the chip is gone.
Remove(k, id) ==
    /\ Existing(k)
    /\ id \in ChipIds(batches[k])
    /\ Store(k, RemoveSelection(batches[k], id))
    /\ UNCHANGED <<sendVars, lastSelectionId, lastPreparationId, lastChangeId>>

\* Mutant: the edited batch is created anew, with an id of its own.
ReplaceSelectionInNewBatch(k, id, element, changes) ==
    LET draft == [EnsureDraft(k) EXCEPT !.id = lastBatchId + 1]
    IN  /\ IF id \in ChipIds(draft)
           THEN Store(k, ReplaceChip(draft, [id      |-> id,
                                             element |-> element,
                                             changes |-> changes]))
           ELSE Store(k, draft)
        /\ UNCHANGED <<sendVars, lastSelectionId, lastPreparationId>>

\* replaceSelection() with a draft whose element and changes may differ from
\* the stored chip's.  There is no state check: a batch whose Send is pending
\* is edited too.  When the chip is gone, ensureDraft has still run.
ReplaceSelection(k, id, element, changes) ==
    LET draft == EnsureDraft(k)
    IN  /\ IF id \in ChipIds(draft)
           THEN Store(k, ReplaceChip(draft, [id      |-> id,
                                             element |-> element,
                                             changes |-> changes]))
           ELSE Store(k, draft)
        /\ UNCHANGED <<sendVars, lastSelectionId, lastPreparationId>>

\* The handler of selection.update copies the chip's changes, waits for the
\* source resolver and then writes the copy back, with the message's change
\* inserted or overwritten.  By then the chip may have more changes than the
\* copy, and some may have been resolved: the copy is any earlier version.
EarlierChanges(chip) ==
    {copy \in SUBSET {[c EXCEPT !.open = o] : c \in chip.changes, o \in BOOLEAN} :
        \A c, d \in copy : c.id = d.id => c = d}

WithNewChange(changes, property) ==
    UpsertChange(changes,
                 [id |-> lastChangeId + 1, property |-> property, open |-> TRUE])

UpdateChip(k, id, element) ==
    \E chip \in EnsureDraft(k).selections :
        /\ chip.id = id
        /\ \E copy \in EarlierChanges(chip) :
              \/ /\ ReplaceSelection(k, id, element, copy)
                 /\ UNCHANGED lastChangeId
              \/ /\ lastChangeId < MaxChanges
                 /\ \E property \in Properties :
                       ReplaceSelection(k, id, element, WithNewChange(copy, property))
                 /\ lastChangeId' = lastChangeId + 1

\* An update that reaches the store after its chip has gone: the chip was there
\* before the wait.
UpdateMissing(k, id, element) ==
    /\ id <= lastSelectionId
    /\ id \notin ChipIds(EnsureDraft(k))
    /\ ReplaceSelection(k, id, element, {})
    /\ UNCHANGED lastChangeId

\* clear(): clearVisualBatch throws where CanClear is FALSE.
Clear(k) ==
    /\ CanClear(GetOrCreate(k))
    /\ Store(k, ClearVisualBatch(GetOrCreate(k)))
    /\ UNCHANGED <<sendVars, lastSelectionId, lastPreparationId, lastChangeId>>

-------------------------------------------------------------------------------
(* Send                                                                    *)

\* Mutant: a batch that is already preparing is prepared again.
PrepareSendAgain(k, expectedRevision) ==
    /\ Existing(k)
    /\ batches[k].selections # {}
    /\ batches[k].state \in {"draft", "preparing"}
    /\ expectedRevision \subseteq {batches[k].revision}
    /\ lastPreparationId < MaxPreparations
    /\ LET next == PrepareBatch(batches[k], lastPreparationId + 1)
       IN  /\ Store(k, next)
           /\ pendingCompact' =
                MapSet(pendingCompact, next.preparationId, CompactContext(next))
    /\ lastPreparationId' = lastPreparationId + 1
    /\ UNCHANGED <<admittedBySession, completedOutcomes, lastSelectionId, lastChangeId>>

\* prepareSend(); expectedRevision is optional, modelled as a set with at
\* most one member.  An empty or missing batch is refused (and created).
PrepareSend(k, expectedRevision) ==
    /\ Existing(k)
    /\ batches[k].selections # {}
    /\ batches[k].state = "draft"
    /\ expectedRevision \subseteq {batches[k].revision}
    /\ lastPreparationId < MaxPreparations
    /\ LET next == PrepareBatch(batches[k], lastPreparationId + 1)
       IN  /\ Store(k, next)
           /\ pendingCompact' =
                MapSet(pendingCompact, next.preparationId, CompactContext(next))
    /\ lastPreparationId' = lastPreparationId + 1
    /\ UNCHANGED <<admittedBySession, completedOutcomes, lastSelectionId, lastChangeId>>

\* Mutant: no fresh draft is started, the batch is open again with its chips.
AdmitPreparationReopening(k, preparing, compact) ==
    /\ admittedBySession' = MapSet(admittedBySession, k, AdmitSend(preparing))
    /\ completedOutcomes' =
         MapSet(completedOutcomes, preparing.preparationId,
                [admitted |-> TRUE, compactContext |-> compact])
    /\ pendingCompact' = MapDelete(pendingCompact, preparing.preparationId)
    /\ Store(k, RejectSend(preparing))

\* completeSend() past its guards, on admission: archive the batch, record the
\* outcome with the context that is handed to the host, start a fresh draft.
AdmitPreparation(k, preparing, compact) ==
    /\ admittedBySession' = MapSet(admittedBySession, k, AdmitSend(preparing))
    /\ completedOutcomes' =
         MapSet(completedOutcomes, preparing.preparationId,
                [admitted |-> TRUE, compactContext |-> compact])
    /\ pendingCompact' = MapDelete(pendingCompact, preparing.preparationId)
    /\ Store(k, NewBatch(lastBatchId + 1))

\* Mutant: the pinned text of a rejected Send is kept.
RejectPreparationKeepingText(k, preparing) ==
    /\ completedOutcomes' =
         MapSet(completedOutcomes, preparing.preparationId,
                [admitted |-> FALSE, compactContext |-> NoContext])
    /\ Store(k, RejectSend(preparing))
    /\ UNCHANGED <<pendingCompact, admittedBySession>>

\* Mutant: a rejected Send is archived for the tools like an admitted one.
RejectPreparationArchiving(k, preparing) ==
    /\ completedOutcomes' =
         MapSet(completedOutcomes, preparing.preparationId,
                [admitted |-> FALSE, compactContext |-> NoContext])
    /\ pendingCompact' = MapDelete(pendingCompact, preparing.preparationId)
    /\ Store(k, RejectSend(preparing))
    /\ admittedBySession' = MapSet(admittedBySession, k, AdmitSend(preparing))

\* Mutant: the outcome of a rejected Send is recorded without its context.
RejectPreparationBare(k, preparing) ==
    /\ completedOutcomes' =
         MapSet(completedOutcomes, preparing.preparationId, [admitted |-> FALSE])
    /\ pendingCompact' = MapDelete(pendingCompact, preparing.preparationId)
    /\ Store(k, RejectSend(preparing))
    /\ UNCHANGED admittedBySession

\* ... and on rejection: back to a draft that keeps its chips.
RejectPreparation(k, preparing) ==
    /\ completedOutcomes' =
         MapSet(completedOutcomes, preparing.preparationId,
                [admitted |-> FALSE, compactContext |-> NoContext])
    /\ pendingCompact' = MapDelete(pendingCompact, preparing.preparationId)
    /\ Store(k, RejectSend(preparing))
    /\ UNCHANGED admittedBySession

\* pendingCompact.get(preparationId) ?? buildCompactNextTurnContext(current)
PinnedContext(batch) ==
    IF batch.preparationId \in DOMAIN pendingCompact
    THEN pendingCompact[batch.preparationId]
    ELSE CompactContext(batch)

\* The batch whose pending Send is preparation p.
Awaits(k, p) ==
    /\ Existing(k)
    /\ batches[k].state = "preparing"
    /\ batches[k].preparationId = p

CompleteSend(k, p, admitted) ==
    /\ p \notin DOMAIN completedOutcomes
    /\ Awaits(k, p)
    /\ IF admitted
       THEN AdmitPreparation(k, batches[k], PinnedContext(batches[k]))
       ELSE RejectPreparation(k, batches[k])
    /\ UNCHANGED <<lastSelectionId, lastPreparationId, lastChangeId>>

\* The same outcome reported again: answered from completedOutcomes, for any
\* session, and getOrCreate brings back a batch for a deleted session.
ReplayOutcome(k, p, admitted) ==
    /\ p \in DOMAIN completedOutcomes
    /\ completedOutcomes[p].admitted = admitted
    /\ Store(k, GetOrCreate(k))
    /\ UNCHANGED <<sendVars, lastSelectionId, lastPreparationId, lastChangeId>>

\* admitDraftForTurn(): prepares a draft and admits it in one go, or admits
\* the preparation that is pending.
AdmitDraftForTurn(k) ==
    /\ Existing(k)
    /\ batches[k].selections # {}
    /\ \/ /\ batches[k].state = "draft"
          /\ lastPreparationId < MaxPreparations
          /\ LET next == PrepareBatch(batches[k], lastPreparationId + 1)
             IN  AdmitPreparation(k, next, CompactContext(next))
          /\ lastPreparationId' = lastPreparationId + 1
       \/ /\ batches[k].state = "preparing"
          /\ AdmitPreparation(k, batches[k], PinnedContext(batches[k]))
          /\ UNCHANGED lastPreparationId
    /\ UNCHANGED <<lastSelectionId, lastChangeId>>

-------------------------------------------------------------------------------
(* Session cleanup                                                         *)

\* Mutant: cleanup forgets the recorded outcomes with the session.
DeleteSessionAndOutcomes(k) ==
    LET p == IF Existing(k) THEN batches[k].preparationId ELSE NoPreparation
    IN  /\ pendingCompact' = MapDelete(pendingCompact, p)
        /\ completedOutcomes' = EmptyMap
        /\ batches' = MapDelete(batches, k)
        /\ position' = MapDelete(position, k)
        /\ admittedBySession' = MapDelete(admittedBySession, k)
        /\ UNCHANGED <<lastBatchId, lastSelectionId, lastPreparationId, lastChangeId>>

\* deleteSession(); the working batch is what leads to the preparation.
DeleteSession(k) ==
    LET p == IF Existing(k) THEN batches[k].preparationId ELSE NoPreparation
    IN  /\ pendingCompact' = MapDelete(pendingCompact, p)
        /\ completedOutcomes' = MapDelete(completedOutcomes, p)
        /\ batches' = MapDelete(batches, k)
        /\ position' = MapDelete(position, k)
        /\ admittedBySession' = MapDelete(admittedBySession, k)
        /\ UNCHANGED <<lastBatchId, lastSelectionId, lastPreparationId, lastChangeId>>

\* The session extension's cleanup hook: it knows the session key only.
Cleanup(s) ==
    \/ /\ KeysOf(s) # {}
       /\ DeleteSession(FindBySessionKey(s))
    \/ /\ KeysOf(s) = {}
       /\ IF \E k \in DOMAIN admittedBySession : SessionKeyOf(k) = s
          THEN DeleteSession(FindAdmittedBySessionKey(s))
          ELSE UNCHANGED vars

-------------------------------------------------------------------------------
(* Agent tools                                                             *)

\* recordPreviewApply() for one property.
RecordPreviewApply(k, id, property) ==
    /\ HasActiveContext(k)
    /\ lastChangeId < MaxChanges
    /\ \E chip \in ActiveContext(k).selections :
          LET changes == UpsertStylePreview(chip.changes, property, lastChangeId + 1)
          IN  /\ chip.id = id
              /\ WriteActiveContext(k, ReplaceChip(ActiveContext(k),
                                                   [chip EXCEPT !.changes = changes]))
              /\ lastChangeId' = IF changes = chip.changes THEN lastChangeId
                                                           ELSE lastChangeId + 1
    /\ UNCHANGED <<pendingCompact, completedOutcomes, lastSelectionId, lastPreparationId>>

ResolveIn(batch, changeId) ==
    Touch([batch EXCEPT !.selections =
             {[c EXCEPT !.changes = MarkChangeResolved(@, changeId)] : c \in @}])

\* markResolved() by change id ...
MarkChange(k, changeId) ==
    /\ HasActiveContext(k)
    /\ \E chip \in ActiveContext(k).selections :
          \E c \in chip.changes : c.id = changeId
    /\ WriteActiveContext(k, ResolveIn(ActiveContext(k), changeId))
    /\ UNCHANGED <<pendingCompact, completedOutcomes, lastSelectionId,
                   lastPreparationId, lastChangeId>>

\* Mutant: a chip whose changes are all resolved is dropped from the context.
MarkSelectionAndDrop(k, id) ==
    /\ HasActiveContext(k)
    /\ id \in ChipIds(ActiveContext(k))
    /\ WriteActiveContext(k, RemoveSelection(ActiveContext(k), id))
    /\ UNCHANGED <<pendingCompact, completedOutcomes, lastSelectionId,
                   lastPreparationId, lastChangeId>>

\* ... and by selection id.
MarkSelection(k, id) ==
    /\ HasActiveContext(k)
    /\ \E chip \in ActiveContext(k).selections :
          /\ chip.id = id
          /\ WriteActiveContext(k, ReplaceChip(ActiveContext(k),
                [chip EXCEPT !.changes = MarkAllChangesResolved(@)]))
    /\ UNCHANGED <<pendingCompact, completedOutcomes, lastSelectionId,
                   lastPreparationId, lastChangeId>>

-------------------------------------------------------------------------------
(* Specification                                                           *)

Init ==
    /\ batches = EmptyMap
    /\ admittedBySession = EmptyMap
    /\ pendingCompact = EmptyMap
    /\ completedOutcomes = EmptyMap
    /\ position = EmptyMap
    /\ lastBatchId = 0
    /\ lastSelectionId = 0
    /\ lastPreparationId = 0
    /\ lastChangeId = 0

SelectionIds == 1 .. MaxSelections
ChangeIds == 1 .. MaxChanges
PreparationIds == 1 .. MaxPreparations
OptionalRevision == {{}} \cup {{r} : r \in 0 .. MaxRevision}

Draft(k) ==
    \/ Snapshot(k)
    \/ AttachTooLarge(k)
    \/ Clear(k)
    \/ \E element \in Elements : Attach(k, element)
    \/ \E id \in SelectionIds :
          \/ Remove(k, id)
          \/ \E element \in Elements : UpdateChip(k, id, element)
          \/ \E element \in Elements : UpdateMissing(k, id, element)

Send(k) ==
    \/ \E expectedRevision \in OptionalRevision : PrepareSend(k, expectedRevision)
    \/ \E p \in PreparationIds, admitted \in BOOLEAN :
          CompleteSend(k, p, admitted) \/ ReplayOutcome(k, p, admitted)
    \/ AdmitDraftForTurn(k)

Tools(k) ==
    \/ \E id \in SelectionIds :
          \/ \E property \in Properties : RecordPreviewApply(k, id, property)
          \/ MarkSelection(k, id)
    \/ \E id \in ChangeIds : MarkChange(k, id)

Next ==
    \/ \E k \in Keys : Draft(k) \/ Send(k) \/ Tools(k)
    \/ \E s \in SessionKeys : Cleanup(s)

Spec == Init /\ [][Next]_vars

-------------------------------------------------------------------------------
(* Properties                                                              *)

\* Type correctness: every Map holds the kind of value its declaration says.
TypeOK ==
    /\ IsMap(batches, Keys, Batch)
    /\ IsMap(admittedBySession, Keys, Batch)
    /\ IsMap(pendingCompact, Nat, Compact)
    /\ IsMap(completedOutcomes, Nat, Outcome)
    /\ position \in [DOMAIN batches -> Nat]
    /\ lastBatchId \in Nat
    /\ lastSelectionId \in Nat
    /\ lastPreparationId \in Nat
    /\ lastChangeId \in Nat

Preparing(k) == Existing(k) /\ batches[k].state = "preparing"

\* store.ts keeps the state of one Send in three places: the batch's state
\* and preparationId, pendingCompact, and completedOutcomes.  They agree after
\* every call: compact text is pinned for exactly the preparations some batch
\* is waiting on, each is waited on by one session only, and none of them has
\* an outcome yet.  Otherwise a Send could not be completed, or text could
\* outlive a rejected Send (RISK-004).
PendingIffAwaited ==
    /\ DOMAIN pendingCompact = {batches[k].preparationId : k \in {q \in Keys : Preparing(q)}}
    /\ \A k \in DOMAIN batches :
          batches[k].preparationId # NoPreparation <=> Preparing(k)
    /\ \A j, k \in Keys :
          Preparing(j) /\ Preparing(k) /\ batches[j].preparationId = batches[k].preparationId
              => j = k
    /\ DOMAIN pendingCompact \cap DOMAIN completedOutcomes = {}

\* The text pinned by prepareSend names the very batch that is waiting, so a
\* completed Send never hands over another batch's context (C-010, FR-021).
PinnedTextNamesItsBatch ==
    \A k \in Keys :
        Preparing(k) =>
            pendingCompact[batches[k].preparationId].batch = batches[k].id

\* What agent tools can read after a Send was really admitted: an archive
\* exists only for a batch that some admitted preparation handed over; a
\* rejected Send leaves nothing behind (SCN-014, RISK-004).
ArchiveWasHandedOver ==
    \A k \in DOMAIN admittedBySession :
        /\ admittedBySession[k].state = "sent"
        /\ \E p \in DOMAIN completedOutcomes :
              /\ completedOutcomes[p].admitted
              /\ completedOutcomes[p].compactContext.batch = admittedBySession[k].id

\* A recorded outcome is final: no retry, turn or cleanup changes or forgets
\* it, so a late send_outcome with the opposite answer is always refused
\* (C-011).
OutcomesAreFinal ==
    [][\A p \in DOMAIN completedOutcomes :
          /\ p \in DOMAIN completedOutcomes'
          /\ completedOutcomes'[p] = completedOutcomes[p]]_vars

\* The elements a Send handed over stay as they were while its archive is the
\* active context: tools record and resolve changes on them but add, drop or
\* exchange none (SCN-021).
Elementwise(batch) == {CompactLine(chip) : chip \in batch.selections}

ArchiveKeepsItsElements ==
    [][\A k \in DOMAIN admittedBySession \cap DOMAIN admittedBySession' :
          admittedBySession'[k].id = admittedBySession[k].id =>
              Elementwise(admittedBySession'[k]) = Elementwise(admittedBySession[k])]_vars

\* A Send that is pending ends in the archive, in the same draft, or with its
\* session - and in no other way: no drafting or tool call takes a batch out
\* of preparing behind the caller's back.
PendingSendEndsProperly ==
    [][\A k \in DOMAIN batches, p \in PreparationIds :
          Awaits(k, p) => \/ Awaits(k, p)'
                          \/ p \in DOMAIN completedOutcomes'
                          \/ k \notin DOMAIN batches']_vars

\* The store keeps the promise of SendContract.
OpenPreparation == [k \in Keys |-> IF Preparing(k) THEN batches[k].preparationId ELSE 0]

FateOf(p) ==
    IF p \in DOMAIN completedOutcomes
    THEN IF completedOutcomes[p].admitted THEN "admitted" ELSE "rejected"
    ELSE IF p \in DOMAIN pendingCompact THEN "open"
    ELSE IF p <= lastPreparationId THEN "dropped"
    ELSE "unused"

Contract == INSTANCE SendContract
                WITH open <- OpenPreparation,
                     fate <- [p \in PreparationIds |-> FateOf(p)]

\* Every behaviour of the store is one of the contract's: each preparation is
\* consumed at most once and a session has at most one open (C-010, C-011).
KeepsSendContract == Contract!Spec

===============================================================================
