--------------------------- MODULE BatchStoreProofs ---------------------------
(***************************************************************************)
(* Theorems about BatchStore for every value of its constants: type          *)
(* correctness, the agreement of the three places that hold the state of a   *)
(* Send, the finality of recorded outcomes, ids that are used once and        *)
(* batches handed over once, and the elements an archive keeps.                *)
(***************************************************************************)
EXTENDS BatchStore, SequenceTheorems, WellFoundedInduction, Integers, TLAPS

-------------------------------------------------------------------------------
(* Maps                                                                    *)

\* map.set keeps a map's type, adds the key and leaves the other entries.
LEMMA MapSetIsMap ==
    ASSUME NEW keys, NEW values, NEW map, IsMap(map, keys, values),
           NEW key \in keys, NEW value \in values
    PROVE  IsMap(MapSet(map, key, value), keys, values)
BY DEF IsMap, MapSet

\* What a map is after map.set.
LEMMA MapSetEntries ==
    ASSUME NEW map, NEW key, NEW value
    PROVE  /\ DOMAIN MapSet(map, key, value) = DOMAIN map \cup {key}
           /\ MapSet(map, key, value)[key] = value
           /\ \A other \in DOMAIN map :
                 other # key => MapSet(map, key, value)[other] = map[other]
BY DEF MapSet

\* map.delete keeps a map's type, removes the key and leaves the other entries.
LEMMA MapDeleteIsMap ==
    ASSUME NEW keys, NEW values, NEW map, IsMap(map, keys, values), NEW key
    PROVE  IsMap(MapDelete(map, key), keys, values)
BY DEF IsMap, MapDelete

\* The empty map has every type.
LEMMA EmptyIsMap ==
    ASSUME NEW keys, NEW values
    PROVE  IsMap(EmptyMap, keys, values) /\ DOMAIN EmptyMap = {}
BY DEF IsMap, EmptyMap

-------------------------------------------------------------------------------
(* The batch operations keep their types                                   *)

\* A batch as createVisualBatch returns it is a Batch.
LEMMA NewBatchType ==
    ASSUME NEW id \in Nat
    PROVE  NewBatch(id) \in Batch
BY DEF NewBatch, Batch, States, NoPreparation

\* touch keeps the type of a batch.
LEMMA TouchType ==
    ASSUME NEW batch \in Batch
    PROVE  Touch(batch) \in Batch
BY DEF Touch, Batch

\* Replacing one chip of a set of chips gives a set of chips.
LEMMA WithChipType ==
    ASSUME NEW chips \in SUBSET Chip, NEW chip \in Chip
    PROVE  WithChip(chips, chip) \in SUBSET Chip
BY DEF WithChip, WithoutChip

\* replaceSelection on a chip that is present keeps the type of a batch.
LEMMA ReplaceChipType ==
    ASSUME NEW batch \in Batch, NEW chip \in Chip
    PROVE  ReplaceChip(batch, chip) \in Batch
<1>1. batch.selections \in SUBSET Chip
    BY DEF Batch
<1>2. WithChip(batch.selections, chip) \in SUBSET Chip
    BY <1>1, WithChipType
<1>3. [batch EXCEPT !.selections = WithChip(@, chip)] \in Batch
    BY <1>2 DEF Batch
<1> QED
    BY <1>3, TouchType DEF ReplaceChip

\* removeSelection keeps the type of a batch.
LEMMA RemoveSelectionType ==
    ASSUME NEW batch \in Batch, NEW id
    PROVE  RemoveSelection(batch, id) \in Batch
<1>1. [batch EXCEPT !.selections = WithoutChip(@, id)] \in Batch
    BY DEF Batch, WithoutChip
<1> QED
    BY <1>1, TouchType DEF RemoveSelection

\* A set of chips that is not empty has one with the least id.
LEMMA FirstExists ==
    ASSUME NEW chips \in SUBSET Chip, chips # {}
    PROVE  \E chip \in chips : \A other \in chips : chip.id <= other.id
<1> DEFINE less == {pair \in Nat \X Nat : pair[1] < pair[2]}
           ids  == {chip.id : chip \in chips}
<1>1. ids \subseteq Nat /\ ids # {}
    BY DEF Chip
<1>2. IsWellFoundedOn(less, Nat)
    BY NatLessThanWellFounded, Zenon DEF OpToRel
<1>3. \E least \in ids : \A id \in ids : <<id, least>> \notin less
    <2> HIDE DEF less, ids
    <2> QED BY <1>1, <1>2, WFMin
<1>4. \A m, n \in Nat : <<m, n>> \notin less => n <= m
    OBVIOUS
<1>5. \E least \in ids : \A id \in ids : least <= id
    <2> HIDE DEF less, ids
    <2> QED BY <1>1, <1>3, <1>4
<1> QED
    BY <1>5

\* A new chip, or the twin that is already there.
LEMMA AttachSelectionType ==
    ASSUME NEW batch \in Batch, NEW element \in Elements, NEW newId \in Nat
    PROVE  AttachSelection(batch, element, newId) \in Batch
<1> DEFINE chip == IF TwinsOf(batch, element) # {}
                   THEN FirstTwin(batch, element)
                   ELSE [id |-> newId, element |-> element, changes |-> {}]
<1>1. chip \in Chip
    <2>1. TwinsOf(batch, element) \in SUBSET Chip
        BY DEF TwinsOf, Batch
    <2>2. CASE TwinsOf(batch, element) = {}
        BY <2>2 DEF Chip
    <2>3. CASE TwinsOf(batch, element) # {}
        <3>1. FirstTwin(batch, element) \in TwinsOf(batch, element)
            BY <2>1, <2>3, FirstExists DEF FirstTwin
        <3>2. FirstTwin(batch, element) \in Chip
            BY <2>1, <3>1
        <3> QED BY <3>2, <2>3
    <2> QED BY <2>2, <2>3
<1>2. AttachSelection(batch, element, newId) = ReplaceChip(batch, chip)
    BY DEF AttachSelection, ReplaceChip
<1> QED
    BY <1>1, <1>2, ReplaceChipType

\* transitionBatch keeps the type of a batch.
LEMMA TransitionType ==
    ASSUME NEW batch \in Batch, NEW to \in States
    PROVE  Transition(batch, to) \in Batch
<1>1. [batch EXCEPT !.state = to,
                    !.selections = IF to = "cleared" THEN {} ELSE @] \in Batch
    BY DEF Batch
<1> QED
    BY <1>1, TouchType DEF Transition

\* prepareSend, admitSend and rejectSend keep the type of a batch.
LEMMA SendStepsType ==
    ASSUME NEW batch \in Batch, NEW p \in Nat
    PROVE  /\ PrepareBatch(batch, p) \in Batch
           /\ AdmitSend(batch) \in Batch
           /\ RejectSend(batch) \in Batch
           /\ CompactContext(batch) \in Compact
<1>1. \A b \in Batch : \A q \in Nat : [b EXCEPT !.preparationId = q] \in Batch
    BY DEF Batch
<1>2. \A to \in States : Transition(batch, to) \in Batch
    BY TransitionType
<1>3. /\ PrepareBatch(batch, p) \in Batch
      /\ AdmitSend(batch) \in Batch
      /\ RejectSend(batch) \in Batch
    BY <1>1, <1>2 DEF PrepareBatch, AdmitSend, RejectSend, NoPreparation, States
<1>4. {CompactLine(c) : c \in batch.selections}
          \in SUBSET [id : Nat, element : Elements]
    BY DEF Batch, Chip, CompactLine
<1>5. CompactContext(batch) \in Compact
    BY <1>4 DEF CompactContext, Compact, Batch
<1> QED
    BY <1>3, <1>5

\* clearVisualBatch keeps the type of a batch.
LEMMA ClearType ==
    ASSUME NEW batch \in Batch
    PROVE  ClearVisualBatch(batch) \in Batch
BY TransitionType DEF ClearVisualBatch, States

\* The operations on the changes of a chip keep their type.
LEMMA ChangesType ==
    ASSUME NEW changes \in SUBSET Change, NEW change \in Change,
           NEW property \in Properties, NEW id \in Nat
    PROVE  /\ UpsertChange(changes, change) \in SUBSET Change
           /\ UpsertStylePreview(changes, property, id) \in SUBSET Change
           /\ MarkChangeResolved(changes, id) \in SUBSET Change
           /\ MarkAllChangesResolved(changes) \in SUBSET Change
<1>1. UpsertChange(changes, change) \in SUBSET Change
    BY DEF UpsertChange
<1>2. [id |-> id, property |-> property, open |-> TRUE] \in Change
    BY DEF Change
<1>3. UpsertStylePreview(changes, property, id) \in SUBSET Change
    BY <1>2 DEF UpsertStylePreview, UpsertChange
<1>4. \A c \in Change : [c EXCEPT !.open = FALSE] \in Change
    BY DEF Change
<1>5. MarkChangeResolved(changes, id) \in SUBSET Change
    BY <1>4 DEF MarkChangeResolved
<1>6. MarkAllChangesResolved(changes) \in SUBSET Change
    BY <1>4 DEF MarkAllChangesResolved
<1> QED
    BY <1>1, <1>3, <1>5, <1>6

-------------------------------------------------------------------------------
(* Type correctness                                                        *)

\* What Store does when it is given a batch.
LEMMA StoreType ==
    ASSUME TypeOK, NEW k \in Keys, NEW batch \in Batch, Store(k, batch)
    PROVE  /\ IsMap(batches', Keys, Batch)
           /\ position' \in [DOMAIN batches' -> Nat]
           /\ lastBatchId' \in Nat
<1>1. IsMap(batches', Keys, Batch)
    BY MapSetIsMap DEF Store, TypeOK
<1>2. batch.id \in Nat
    BY DEF Batch
<1>3. lastBatchId' \in Nat
    BY <1>2 DEF Store, TypeOK
<1>4. DOMAIN batches' = DOMAIN batches \cup {k}
    BY MapSetEntries DEF Store
<1>5. position' \in [DOMAIN batches' -> Nat]
    <2>1. CASE Existing(k)
        BY <1>4, <2>1 DEF Store, TypeOK, Existing
    <2>2. CASE ~Existing(k)
        BY <1>2, <1>4, <2>2 DEF Store, TypeOK, MapSet
    <2> QED BY <2>1, <2>2
<1> QED
    BY <1>1, <1>3, <1>5

\* What getOrCreate and ensureDraft return is a Batch.
LEMMA StoredBatchType ==
    ASSUME TypeOK, NEW k \in Keys
    PROVE  /\ Existing(k) => batches[k] \in Batch
           /\ GetOrCreate(k) \in Batch
           /\ EnsureDraft(k) \in Batch
           /\ NewBatch(lastBatchId + 1) \in Batch
           /\ HasActiveContext(k) => ActiveContext(k) \in Batch
           /\ \A p \in DOMAIN pendingCompact : pendingCompact[p] \in Compact
<1>1. NewBatch(lastBatchId + 1) \in Batch
    BY NewBatchType DEF TypeOK
<1>2. Existing(k) => batches[k] \in Batch
    BY DEF TypeOK, IsMap, Existing
<1>3. k \in DOMAIN admittedBySession => admittedBySession[k] \in Batch
    BY DEF TypeOK, IsMap
<1>4. \A p \in DOMAIN pendingCompact : pendingCompact[p] \in Compact
    BY DEF TypeOK, IsMap
<1> QED
    BY <1>1, <1>2, <1>3, <1>4
    DEF GetOrCreate, EnsureDraft, HasActiveContext, ActiveContext,
        WorkingIsActive, ArchiveIsActive

\* A step that writes one working batch and no Send state.
LEMMA QuietStoreType ==
    ASSUME TypeOK, NEW k \in Keys, NEW batch \in Batch, Store(k, batch),
           UNCHANGED <<sendVars, lastPreparationId>>,
           lastSelectionId' \in Nat, lastChangeId' \in Nat
    PROVE  TypeOK'
<1>1. /\ IsMap(batches', Keys, Batch)
      /\ position' \in [DOMAIN batches' -> Nat]
      /\ lastBatchId' \in Nat
    BY StoreType
<1> QED
    BY <1>1 DEF TypeOK, sendVars

\* replaceSelection keeps the store well typed.
LEMMA ReplaceSelectionType ==
    ASSUME TypeOK, NEW k \in Keys, NEW id \in SelectionIds,
           NEW element \in Elements, NEW changes \in SUBSET Change,
           ReplaceSelection(k, id, element, changes), lastChangeId' \in Nat
    PROVE  TypeOK'
<1> DEFINE chip == [id |-> id, element |-> element, changes |-> changes]
<1>1. EnsureDraft(k) \in Batch
    BY StoredBatchType
<1>2. chip \in Chip
    BY DEF Chip, SelectionIds
<1>3. ReplaceChip(EnsureDraft(k), chip) \in Batch
    BY <1>1, <1>2, ReplaceChipType
<1>4. \E batch \in Batch : Store(k, batch)
    BY <1>1, <1>3 DEF ReplaceSelection
<1>5. lastSelectionId' \in Nat
    BY DEF ReplaceSelection, TypeOK
<1>6. UNCHANGED <<sendVars, lastPreparationId>>
    BY DEF ReplaceSelection
<1> QED
    BY <1>4, <1>5, <1>6, QuietStoreType

\* selection.update, with any stale copy of the changes, keeps the store well
\* typed.
LEMMA UpdateChipType ==
    ASSUME TypeOK, NEW k \in Keys, NEW id \in SelectionIds,
           NEW element \in Elements, UpdateChip(k, id, element)
    PROVE  TypeOK'
<1>0. PICK chip \in EnsureDraft(k).selections :
          \E copy \in EarlierChanges(chip) :
              \/ /\ ReplaceSelection(k, id, element, copy)
                 /\ UNCHANGED lastChangeId
              \/ /\ \E property \in Properties :
                       ReplaceSelection(k, id, element, WithNewChange(copy, property))
                 /\ lastChangeId' = lastChangeId + 1
    BY DEF UpdateChip
<1>1. PICK copy \in EarlierChanges(chip) :
          \/ /\ ReplaceSelection(k, id, element, copy)
             /\ UNCHANGED lastChangeId
          \/ /\ \E property \in Properties :
                   ReplaceSelection(k, id, element, WithNewChange(copy, property))
             /\ lastChangeId' = lastChangeId + 1
    BY <1>0
<1>2. chip \in Chip
    BY <1>0, StoredBatchType DEF Batch
<1>3. \A c \in Change : \A o \in BOOLEAN : [c EXCEPT !.open = o] \in Change
    BY DEF Change
<1>4. copy \in SUBSET Change
    BY <1>2, <1>3 DEF EarlierChanges, Chip
<1>5. \A property \in Properties : WithNewChange(copy, property) \in SUBSET Change
    <2> TAKE property \in Properties
    <2>1. [id |-> lastChangeId + 1, property |-> property, open |-> TRUE] \in Change
        BY DEF Change, TypeOK
    <2> QED
        BY <1>4, <2>1 DEF WithNewChange, UpsertChange
<1>6. CASE /\ ReplaceSelection(k, id, element, copy)
           /\ UNCHANGED lastChangeId
    <2>1. lastChangeId' \in Nat
        BY <1>6 DEF TypeOK
    <2> QED
        BY <1>4, <1>6, <2>1, ReplaceSelectionType
<1>7. CASE /\ \E property \in Properties :
                 ReplaceSelection(k, id, element, WithNewChange(copy, property))
           /\ lastChangeId' = lastChangeId + 1
    <2>1. lastChangeId' \in Nat
        BY <1>7 DEF TypeOK
    <2> QED
        BY <1>5, <1>7, <2>1, ReplaceSelectionType
<1> QED
    BY <1>1, <1>6, <1>7

\* Every drafting operation keeps the store well typed.
LEMMA DraftType ==
    ASSUME TypeOK, NEW k \in Keys, Draft(k)
    PROVE  TypeOK'
<1> USE StoredBatchType
<1>1. lastSelectionId \in Nat /\ lastChangeId \in Nat
    BY DEF TypeOK
<1>2. CASE Snapshot(k)
    BY <1>1, <1>2, QuietStoreType DEF Snapshot
<1>3. CASE AttachTooLarge(k)
    BY <1>1, <1>3, QuietStoreType DEF AttachTooLarge
<1>4. CASE Clear(k)
    <2>1. ClearVisualBatch(GetOrCreate(k)) \in Batch
        BY ClearType
    <2> QED
        BY <1>1, <1>4, <2>1, QuietStoreType DEF Clear
<1>5. ASSUME NEW element \in Elements, Attach(k, element)
      PROVE  TypeOK'
    <2>1. AttachSelection(EnsureDraft(k), element, lastSelectionId + 1) \in Batch
        BY <1>1, AttachSelectionType
    <2>2. lastSelectionId' \in Nat
        BY <1>1, <1>5 DEF Attach
    <2> QED
        BY <1>1, <1>5, <2>1, <2>2, QuietStoreType DEF Attach
<1>6. ASSUME NEW id \in SelectionIds, Remove(k, id)
      PROVE  TypeOK'
    <2>1. RemoveSelection(batches[k], id) \in Batch
        BY <1>6, RemoveSelectionType DEF Remove
    <2> QED
        BY <1>1, <1>6, <2>1, QuietStoreType DEF Remove
<1>7. ASSUME NEW id \in SelectionIds, NEW element \in Elements,
             UpdateChip(k, id, element)
      PROVE  TypeOK'
    BY <1>7, UpdateChipType
<1>8. ASSUME NEW id \in SelectionIds, NEW element \in Elements,
             UpdateMissing(k, id, element)
      PROVE  TypeOK'
    BY <1>1, <1>8, ReplaceSelectionType DEF UpdateMissing
<1> QED
    BY <1>2, <1>3, <1>4, <1>5, <1>6, <1>7, <1>8 DEF Draft

\* Admission keeps the store well typed.
LEMMA AdmitPreparationType ==
    ASSUME TypeOK, NEW k \in Keys, NEW preparing \in Batch, NEW compact \in Compact,
           AdmitPreparation(k, preparing, compact),
           UNCHANGED <<lastSelectionId, lastChangeId>>, lastPreparationId' \in Nat
    PROVE  TypeOK'
<1>1. AdmitSend(preparing) \in Batch /\ preparing.preparationId \in Nat
    BY SendStepsType DEF Batch
<1>2. [admitted |-> TRUE, compactContext |-> compact] \in Outcome
    BY DEF Outcome
<1>3. /\ IsMap(batches', Keys, Batch)
      /\ position' \in [DOMAIN batches' -> Nat]
      /\ lastBatchId' \in Nat
    BY StoreType, StoredBatchType DEF AdmitPreparation
<1>4. IsMap(admittedBySession', Keys, Batch)
    BY <1>1, MapSetIsMap DEF AdmitPreparation, TypeOK
<1>5. IsMap(completedOutcomes', Nat, Outcome)
    BY <1>1, <1>2, MapSetIsMap DEF AdmitPreparation, TypeOK
<1>6. IsMap(pendingCompact', Nat, Compact)
    BY MapDeleteIsMap DEF AdmitPreparation, TypeOK
<1> QED
    BY <1>3, <1>4, <1>5, <1>6 DEF TypeOK

\* Rejection keeps the store well typed.
LEMMA RejectPreparationType ==
    ASSUME TypeOK, NEW k \in Keys, NEW preparing \in Batch,
           RejectPreparation(k, preparing),
           UNCHANGED <<lastSelectionId, lastPreparationId, lastChangeId>>
    PROVE  TypeOK'
<1>1. RejectSend(preparing) \in Batch /\ preparing.preparationId \in Nat
    BY SendStepsType DEF Batch
<1>2. [admitted |-> FALSE, compactContext |-> NoContext] \in Outcome
    BY DEF Outcome, NoContext, Compact
<1>3. /\ IsMap(batches', Keys, Batch)
      /\ position' \in [DOMAIN batches' -> Nat]
      /\ lastBatchId' \in Nat
    BY <1>1, StoreType DEF RejectPreparation
<1>4. IsMap(completedOutcomes', Nat, Outcome)
    BY <1>1, <1>2, MapSetIsMap DEF RejectPreparation, TypeOK
<1>5. IsMap(pendingCompact', Nat, Compact)
    BY MapDeleteIsMap DEF RejectPreparation, TypeOK
<1> QED
    BY <1>3, <1>4, <1>5 DEF TypeOK, RejectPreparation

\* The text completeSend hands over is a compact context.
LEMMA PinnedContextType ==
    ASSUME TypeOK, NEW batch \in Batch
    PROVE  PinnedContext(batch) \in Compact
<1>1. CompactContext(batch) \in Compact
    BY SendStepsType
<1>2. \A p \in DOMAIN pendingCompact : pendingCompact[p] \in Compact
    BY DEF TypeOK, IsMap
<1> QED
    BY <1>1, <1>2 DEF PinnedContext

\* Every operation of a Send keeps the store well typed.
LEMMA SendType ==
    ASSUME TypeOK, NEW k \in Keys, Send(k)
    PROVE  TypeOK'
<1> USE StoredBatchType
<1>1. ASSUME NEW expectedRevision, PrepareSend(k, expectedRevision)
      PROVE  TypeOK'
    <2> DEFINE next == PrepareBatch(batches[k], lastPreparationId + 1)
    <2>0. batches[k] \in Batch /\ lastPreparationId + 1 \in Nat
        BY <1>1 DEF PrepareSend, TypeOK
    <2>1. next \in Batch /\ CompactContext(next) \in Compact
        <3>1. next \in Batch
            BY <2>0, SendStepsType
        <3> HIDE DEF next
        <3> QED BY <2>0, <3>1, SendStepsType
    <2>2. next.preparationId \in Nat
        BY <2>1 DEF Batch
    <2>3. /\ IsMap(batches', Keys, Batch)
          /\ position' \in [DOMAIN batches' -> Nat]
          /\ lastBatchId' \in Nat
        BY <1>1, <2>1, StoreType DEF PrepareSend
    <2>4. IsMap(pendingCompact', Nat, Compact)
        BY <1>1, <2>1, <2>2, MapSetIsMap DEF PrepareSend, TypeOK
    <2> QED
        BY <1>1, <2>3, <2>4 DEF PrepareSend, TypeOK
<1>2. ASSUME NEW p, NEW admitted, CompleteSend(k, p, admitted)
      PROVE  TypeOK'
    <2>1. batches[k] \in Batch
        BY <1>2 DEF CompleteSend, Awaits
    <2>2. PinnedContext(batches[k]) \in Compact
        BY <2>1, PinnedContextType
    <2>3. lastPreparationId' \in Nat
        BY <1>2 DEF CompleteSend, TypeOK
    <2>4. CASE admitted
        BY <1>2, <2>1, <2>2, <2>3, <2>4, AdmitPreparationType DEF CompleteSend
    <2>5. CASE ~admitted
        BY <1>2, <2>1, <2>5, RejectPreparationType DEF CompleteSend
    <2> QED
        BY <2>4, <2>5
<1>3. ASSUME NEW p, NEW admitted, ReplayOutcome(k, p, admitted)
      PROVE  TypeOK'
    BY <1>3, QuietStoreType DEF ReplayOutcome, TypeOK
<1>4. CASE AdmitDraftForTurn(k)
    <2> DEFINE next == PrepareBatch(batches[k], lastPreparationId + 1)
    <2>1. batches[k] \in Batch
        BY <1>4 DEF AdmitDraftForTurn
    <2>2. next \in Batch /\ CompactContext(next) \in Compact
        BY <2>1, SendStepsType DEF TypeOK
    <2>3. PinnedContext(batches[k]) \in Compact
        BY <2>1, PinnedContextType
    <2>4. lastPreparationId' \in Nat
        BY <1>4 DEF AdmitDraftForTurn, TypeOK
    <2> QED
        BY <1>4, <2>1, <2>2, <2>3, <2>4, AdmitPreparationType DEF AdmitDraftForTurn
<1> QED
    BY <1>1, <1>2, <1>3, <1>4 DEF Send

\* WriteActiveContext writes the working batch or the archive, in place.
LEMMA WriteActiveContextType ==
    ASSUME TypeOK, NEW k \in Keys, NEW batch \in Batch,
           WriteActiveContext(k, batch),
           UNCHANGED <<pendingCompact, completedOutcomes, lastSelectionId,
                       lastPreparationId>>,
           lastChangeId' \in Nat
    PROVE  TypeOK'
<1>1. CASE WorkingIsActive(k)
    <2>1. IsMap(batches', Keys, Batch)
        BY <1>1, MapSetIsMap DEF WriteActiveContext, TypeOK
    <2>2. DOMAIN batches' = DOMAIN batches
        BY <1>1 DEF WriteActiveContext, WorkingIsActive, Existing, MapSet
    <2> QED
        BY <1>1, <2>1, <2>2 DEF WriteActiveContext, TypeOK
<1>2. CASE ~WorkingIsActive(k)
    <2>1. IsMap(admittedBySession', Keys, Batch)
        BY <1>2, MapSetIsMap DEF WriteActiveContext, TypeOK
    <2> QED
        BY <1>2, <2>1 DEF WriteActiveContext, TypeOK
<1> QED
    BY <1>1, <1>2

\* Every agent tool keeps the store well typed.
LEMMA ToolsType ==
    ASSUME TypeOK, NEW k \in Keys, Tools(k)
    PROVE  TypeOK'
<1> USE StoredBatchType
<1>1. HasActiveContext(k) => ActiveContext(k).selections \in SUBSET Chip
    BY DEF Batch
<1>2. ASSUME NEW id \in SelectionIds, NEW property \in Properties,
             RecordPreviewApply(k, id, property)
      PROVE  TypeOK'
    <2> DEFINE edited(chip) ==
                 [chip EXCEPT !.changes =
                    UpsertStylePreview(chip.changes, property, lastChangeId + 1)]
    <2>1. PICK chip \in ActiveContext(k).selections :
              /\ WriteActiveContext(k, ReplaceChip(ActiveContext(k), edited(chip)))
              /\ lastChangeId' \in {lastChangeId, lastChangeId + 1}
        BY <1>2 DEF RecordPreviewApply
    <2>2. chip \in Chip
        BY <1>1, <1>2, <2>1 DEF RecordPreviewApply
    <2>3. UpsertStylePreview(chip.changes, property, lastChangeId + 1) \in SUBSET Change
        <3>1. chip.changes \in SUBSET Change /\ lastChangeId + 1 \in Nat
            BY <2>2 DEF Chip, TypeOK
        <3>2. [id |-> lastChangeId + 1, property |-> property, open |-> TRUE] \in Change
            BY <3>1 DEF Change
        <3> QED BY <3>1, <3>2, ChangesType
    <2>4. edited(chip) \in Chip
        BY <2>2, <2>3 DEF Chip
    <2>5. ReplaceChip(ActiveContext(k), edited(chip)) \in Batch
        BY <1>2, <2>4, ReplaceChipType DEF RecordPreviewApply
    <2>6. lastChangeId' \in Nat
        BY <2>1 DEF TypeOK
    <2> QED
        BY <1>2, <2>1, <2>5, <2>6, WriteActiveContextType DEF RecordPreviewApply
<1>3. ASSUME NEW id \in SelectionIds, MarkSelection(k, id)
      PROVE  TypeOK'
    <2> DEFINE edited(chip) ==
                 [chip EXCEPT !.changes = MarkAllChangesResolved(@)]
    <2>1. PICK chip \in ActiveContext(k).selections :
              WriteActiveContext(k, ReplaceChip(ActiveContext(k), edited(chip)))
        BY <1>3 DEF MarkSelection
    <2>2. chip \in Chip
        BY <1>1, <1>3, <2>1 DEF MarkSelection
    <2>3. MarkAllChangesResolved(chip.changes) \in SUBSET Change
        <3>1. \A c \in Change : [c EXCEPT !.open = FALSE] \in Change
            BY DEF Change
        <3> QED BY <2>2, <3>1 DEF Chip, MarkAllChangesResolved
    <2>4. edited(chip) \in Chip
        BY <2>2, <2>3 DEF Chip
    <2>5. ReplaceChip(ActiveContext(k), edited(chip)) \in Batch
        BY <1>3, <2>4, ReplaceChipType DEF MarkSelection
    <2>6. lastChangeId' \in Nat
        BY <1>3 DEF MarkSelection, TypeOK
    <2> QED
        BY <1>3, <2>1, <2>5, <2>6, WriteActiveContextType DEF MarkSelection
<1>4. ASSUME NEW changeId \in ChangeIds, MarkChange(k, changeId)
      PROVE  TypeOK'
    <2>1. \A c \in Change : [c EXCEPT !.open = FALSE] \in Change
        BY DEF Change
    <2>2. \A changes \in SUBSET Change :
              MarkChangeResolved(changes, changeId) \in SUBSET Change
        BY <2>1 DEF MarkChangeResolved
    <2>3. \A c \in Chip :
              [c EXCEPT !.changes = MarkChangeResolved(@, changeId)] \in Chip
        BY <2>2 DEF Chip
    <2>4. [ActiveContext(k) EXCEPT !.selections =
              {[c EXCEPT !.changes = MarkChangeResolved(@, changeId)] : c \in @}] \in Batch
        BY <1>4, <2>3 DEF MarkChange, Batch
    <2>5. ResolveIn(ActiveContext(k), changeId) \in Batch
        BY <2>4, TouchType DEF ResolveIn
    <2>6. lastChangeId' \in Nat
        BY <1>4 DEF MarkChange, TypeOK
    <2> QED
        BY <1>4, <2>5, <2>6, WriteActiveContextType DEF MarkChange
<1> QED
    BY <1>2, <1>3, <1>4 DEF Tools

\* The cleanup of a session key keeps the store well typed.
LEMMA CleanupType ==
    ASSUME TypeOK, NEW s \in SessionKeys, Cleanup(s)
    PROVE  TypeOK'
<1>1. ASSUME NEW k, DeleteSession(k)
      PROVE  TypeOK'
    <2>1. /\ IsMap(batches', Keys, Batch)
          /\ IsMap(admittedBySession', Keys, Batch)
          /\ IsMap(pendingCompact', Nat, Compact)
          /\ IsMap(completedOutcomes', Nat, Outcome)
        BY <1>1, MapDeleteIsMap DEF DeleteSession, TypeOK
    <2>2. position' \in [DOMAIN batches' -> Nat]
        BY <1>1 DEF DeleteSession, TypeOK, MapDelete
    <2> QED
        BY <1>1, <2>1, <2>2 DEF DeleteSession, TypeOK
<1>2. CASE UNCHANGED vars
    BY <1>2 DEF TypeOK, vars
<1> QED
    BY <1>1, <1>2 DEF Cleanup

\* No step puts an entry of another kind into a map of the store.
LEMMA StepKeepsType ==
    ASSUME TypeOK, [Next]_vars
    PROVE  TypeOK'
<1>1. ASSUME NEW k \in Keys, Draft(k) \/ Send(k) \/ Tools(k)
      PROVE  TypeOK'
    BY <1>1, DraftType, SendType, ToolsType
<1>2. ASSUME NEW s \in SessionKeys, Cleanup(s)
      PROVE  TypeOK'
    BY <1>2, CleanupType
<1>3. CASE UNCHANGED vars
    BY <1>3 DEF TypeOK, vars
<1> QED
    BY <1>1, <1>2, <1>3 DEF Next

\* Every map of the store holds entries of the declared kind, whatever calls
\* are made.
THEOREM TypeCorrect == Spec => []TypeOK
<1>1. Init => TypeOK
    BY EmptyIsMap DEF Init, TypeOK, EmptyMap
<1>2. TypeOK /\ [Next]_vars => TypeOK'
    BY StepKeepsType
<1> QED
    BY <1>1, <1>2, PTL DEF Spec

-------------------------------------------------------------------------------
(* What a step does to the state of the Sends                              *)

\* The inductive invariant behind PendingIffAwaited: besides the agreement it
\* states, preparation ids never run ahead of the last one minted (so a fresh
\* one is in use nowhere) and a working batch is never "sent" or "expired".
WorkingStates == {"draft", "preparing", "cleared"}

SendInv ==
    /\ PendingIffAwaited
    /\ \A k \in DOMAIN batches :
          /\ batches[k].state \in WorkingStates
          /\ batches[k].preparationId <= lastPreparationId
    /\ DOMAIN completedOutcomes \subseteq 1 .. lastPreparationId

\* Two versions of a working batch with the same pending Send, or with none.
SameSend(before, after) ==
    /\ after.state \in WorkingStates
    /\ after.preparationId = before.preparationId
    /\ after.state = "preparing" <=> before.state = "preparing"
    /\ after.state = "preparing" => after.id = before.id

\* What a step does to the archives: it adds none, though it may edit one; or it
\* archives a batch of one session.
KeepsArchives ==
    \A k \in DOMAIN admittedBySession' :
        /\ k \in DOMAIN admittedBySession
        /\ admittedBySession'[k].id = admittedBySession[k].id
        /\ admittedBySession'[k].state = admittedBySession[k].state

HandsOver(k, id) ==
    \A j \in DOMAIN admittedBySession' :
        \/ /\ j = k
           /\ admittedBySession'[j].state = "sent"
           /\ admittedBySession'[j].id = id
        \/ /\ j \in DOMAIN admittedBySession
           /\ admittedBySession'[j] = admittedBySession[j]

\* The id of the batch a step stores for k: the one it had, or the next one.
IdFor(k, id) ==
    \/ Existing(k) /\ id = batches[k].id
    \/ id = lastBatchId + 1

Named(k, batch) ==
    \/ /\ Existing(k) /\ batch.id = batches[k].id
       /\ lastBatchId' \in Nat /\ lastBatchId <= lastBatchId'
    \/ batch.id = lastBatchId + 1 /\ lastBatchId' = batch.id

\* The ways in which a step can affect Sends.
Edited(k, batch) ==
    /\ SameSend(GetOrCreate(k), batch)
    /\ Named(k, batch)
    /\ KeepsArchives
    /\ batches' = MapSet(batches, k, batch)
    /\ UNCHANGED <<pendingCompact, completedOutcomes, lastPreparationId>>

Opened(k, batch, text) ==
    /\ Existing(k)
    /\ batches[k].state = "draft"
    /\ lastPreparationId < MaxPreparations
    /\ batch.state = "preparing"
    /\ batch.preparationId = lastPreparationId + 1
    /\ batch.id = batches[k].id
    /\ Named(k, batch)
    /\ text.batch = batch.id
    /\ KeepsArchives
    /\ batches' = MapSet(batches, k, batch)
    /\ pendingCompact' = MapSet(pendingCompact, lastPreparationId + 1, text)
    /\ lastPreparationId' = lastPreparationId + 1
    /\ UNCHANGED completedOutcomes

IsDraft(batch) == batch.state = "draft" /\ batch.preparationId = NoPreparation

Settled(k, batch, outcome) ==
    /\ Preparing(k)
    /\ batches[k].preparationId \notin DOMAIN completedOutcomes
    /\ IsDraft(batch)
    /\ Named(k, batch)
    /\ outcome.admitted \in BOOLEAN
    /\ IF outcome.admitted
       THEN /\ batch.id = lastBatchId + 1
            /\ outcome.compactContext = pendingCompact[batches[k].preparationId]
            /\ HandsOver(k, batches[k].id)
       ELSE KeepsArchives
    /\ batches' = MapSet(batches, k, batch)
    /\ pendingCompact' = MapDelete(pendingCompact, batches[k].preparationId)
    /\ completedOutcomes' =
         MapSet(completedOutcomes, batches[k].preparationId, outcome)
    /\ UNCHANGED lastPreparationId

AdmittedAtOnce(k, batch, outcome) ==
    /\ Existing(k)
    /\ batches[k].state = "draft"
    /\ lastPreparationId < MaxPreparations
    /\ IsDraft(batch)
    /\ Named(k, batch)
    /\ batch.id = lastBatchId + 1
    /\ outcome.admitted = TRUE
    /\ outcome.compactContext.batch = batches[k].id
    /\ HandsOver(k, outcome.compactContext.batch)
    /\ batches' = MapSet(batches, k, batch)
    /\ pendingCompact' = MapDelete(pendingCompact, lastPreparationId + 1)
    /\ completedOutcomes' =
         MapSet(completedOutcomes, lastPreparationId + 1, outcome)
    /\ lastPreparationId' = lastPreparationId + 1

Dropped(k) ==
    /\ Existing(k)
    /\ KeepsArchives
    /\ batches' = MapDelete(batches, k)
    /\ pendingCompact' = MapDelete(pendingCompact, batches[k].preparationId)
    /\ completedOutcomes' = MapDelete(completedOutcomes, batches[k].preparationId)
    /\ UNCHANGED <<lastPreparationId, lastBatchId>>

sendState == <<batches, pendingCompact, completedOutcomes, lastPreparationId, lastBatchId>>

Idle == UNCHANGED sendState /\ KeepsArchives

\* No working batch of k: deleteSession finds only an archive.
Effect(k) ==
    \/ \E batch : Edited(k, batch)
    \/ \E batch, text : Opened(k, batch, text)
    \/ \E batch, outcome : Settled(k, batch, outcome)
    \/ \E batch, outcome : AdmittedAtOnce(k, batch, outcome)
    \/ Dropped(k)
    \/ Idle

\* What SendInv says of the batch an operation starts from.
LEMMA SendInvFacts ==
    ASSUME TypeOK, SendInv, NEW k \in Keys
    PROVE  /\ SameSend(GetOrCreate(k), GetOrCreate(k))
           /\ SameSend(GetOrCreate(k), EnsureDraft(k))
           /\ Existing(k) => GetOrCreate(k) = batches[k]
           /\ Existing(k) /\ batches[k].state = "draft" => IsDraft(batches[k])
           /\ IdFor(k, GetOrCreate(k).id)
           /\ IdFor(k, EnsureDraft(k).id)
           /\ Existing(k) => IdFor(k, batches[k].id)
BY DEF IdFor, SendInv, PendingIffAwaited, SameSend, GetOrCreate, EnsureDraft, NewBatch,
       IsDraft, Existing, Preparing, WorkingStates, NoPreparation

\* The edits of a batch leave its Send alone.
LEMMA EditsKeepSend ==
    ASSUME NEW batch \in Batch, NEW chips
    PROVE  LET after == Touch([batch EXCEPT !.selections = chips])
           IN  /\ after.id = batch.id
               /\ after.state = batch.state
               /\ after.preparationId = batch.preparationId
BY DEF Touch, Batch

\* Storing a batch under its id, or the next one, names it.
LEMMA StoreNames ==
    ASSUME TypeOK, NEW k \in Keys, NEW batch, batch.id \in Nat, IdFor(k, batch.id),
           Store(k, batch)
    PROVE  Named(k, batch)
BY DEF Store, IdFor, Named, TypeOK

\* Storing a batch as it is, with the same Send, is an edit.
LEMMA StoredAsIs ==
    ASSUME TypeOK, NEW k \in Keys, NEW batch \in Batch,
           SameSend(GetOrCreate(k), batch), IdFor(k, batch.id),
           Store(k, batch), UNCHANGED <<sendVars, lastPreparationId>>
    PROVE  Edited(k, batch)
<1>1. Named(k, batch)
    BY StoreNames DEF Batch
<1> QED
    BY <1>1 DEF Edited, Store, sendVars, KeepsArchives

\* Storing a batch with other chips is an edit.
LEMMA EditedBy ==
    ASSUME TypeOK, NEW k \in Keys, NEW draft \in Batch,
           SameSend(GetOrCreate(k), draft), IdFor(k, draft.id), NEW chips,
           Store(k, Touch([draft EXCEPT !.selections = chips])),
           UNCHANGED <<sendVars, lastPreparationId>>
    PROVE  \E batch : Edited(k, batch)
<1> DEFINE batch == Touch([draft EXCEPT !.selections = chips])
<1>1. /\ SameSend(GetOrCreate(k), batch)
      /\ IdFor(k, batch.id) /\ batch.id \in Nat
    BY EditsKeepSend DEF SameSend, Batch
<1>2. Named(k, batch)
    <2> HIDE DEF batch
    <2> QED BY <1>1, StoreNames DEF batch
<1>3. Edited(k, batch)
    BY <1>1, <1>2 DEF Edited, Store, sendVars, KeepsArchives
<1> QED
    BY <1>3

\* A drafting operation edits one working batch and touches no Send.
LEMMA DraftEdits ==
    ASSUME TypeOK, SendInv, NEW k \in Keys, Draft(k)
    PROVE  \E batch : Edited(k, batch)
<1> USE SendInvFacts, StoredBatchType
<1>1. CASE Snapshot(k)
    BY <1>1, StoredAsIs DEF Snapshot, sendVars
<1>2. CASE AttachTooLarge(k)
    BY <1>2, StoredAsIs DEF AttachTooLarge, sendVars
<1>3. CASE Clear(k)
    <2> DEFINE old == GetOrCreate(k)
    <2>1. CASE old.state = "cleared"
        BY <1>3, <2>1, StoredAsIs DEF Clear, ClearVisualBatch, sendVars
    <2>2. CASE old.state # "cleared"
        <3>1. old.state = "draft"
            BY <1>3, <2>2 DEF Clear, CanClear, CanTransition, AllowedTransitions
        <3> DEFINE cleared == Transition(old, "cleared")
        <3>2. /\ cleared.state = "cleared"
              /\ cleared.preparationId = old.preparationId
              /\ cleared.id = old.id
            BY DEF Transition, Touch, Batch
        <3>3. cleared \in Batch
            BY TransitionType DEF States
        <3>4. SameSend(old, cleared)
            BY <3>1, <3>2 DEF SameSend, WorkingStates
        <3>5. Store(k, cleared) /\ UNCHANGED <<sendVars, lastPreparationId>>
            BY <1>3, <2>2 DEF Clear, ClearVisualBatch
        <3>6. Edited(k, cleared)
            <4> HIDE DEF cleared
            <4> QED BY <3>2, <3>3, <3>4, <3>5, StoredAsIs
        <3> QED BY <3>6
    <2> QED BY <2>1, <2>2
<1>4. ASSUME NEW element \in Elements, Attach(k, element)
      PROVE  \E batch : Edited(k, batch)
    BY <1>4, EditedBy DEF Attach, AttachSelection, sendVars
<1>5. ASSUME NEW id \in SelectionIds, Remove(k, id)
      PROVE  \E batch : Edited(k, batch)
    BY <1>5, EditedBy DEF Remove, RemoveSelection, sendVars
<1>6. ASSUME NEW id, NEW element, NEW changes, ReplaceSelection(k, id, element, changes)
      PROVE  \E batch : Edited(k, batch)
    <2>1. CASE id \in ChipIds(EnsureDraft(k))
        BY <1>6, <2>1, EditedBy DEF ReplaceSelection, ReplaceChip, sendVars
    <2>2. CASE id \notin ChipIds(EnsureDraft(k))
        BY <1>6, <2>2, StoredAsIs DEF ReplaceSelection, sendVars
    <2> QED BY <2>1, <2>2
<1>7. ASSUME NEW id, NEW element, UpdateChip(k, id, element) \/ UpdateMissing(k, id, element)
      PROVE  \E batch : Edited(k, batch)
    BY <1>6, <1>7 DEF UpdateChip, UpdateMissing
<1> QED
    BY <1>1, <1>2, <1>3, <1>4, <1>5, <1>7 DEF Draft

\* State and preparation of the batches that prepareSend, admission and
\* rejection produce.
LEMMA SendBatchFacts ==
    ASSUME NEW batch \in Batch, NEW p \in Nat
    PROVE  /\ PrepareBatch(batch, p).state = "preparing"
           /\ PrepareBatch(batch, p).preparationId = p
           /\ PrepareBatch(batch, p).id = batch.id
           /\ IsDraft(RejectSend(batch))
           /\ RejectSend(batch).id = batch.id
           /\ IsDraft(NewBatch(p))
           /\ AdmitSend(batch).state = "sent"
           /\ AdmitSend(batch).id = batch.id
<1>1. \A to \in States : /\ Transition(batch, to) \in Batch
                         /\ Transition(batch, to).state = to
                         /\ Transition(batch, to).id = batch.id
    BY TransitionType DEF Transition, Touch, Batch
<1>2. \A b \in Batch : \A q : /\ [b EXCEPT !.preparationId = q].state = b.state
                              /\ [b EXCEPT !.preparationId = q].id = b.id
                              /\ [b EXCEPT !.preparationId = q].preparationId = q
    BY DEF Batch
<1>3. "preparing" \in States /\ "draft" \in States /\ "sent" \in States
    BY DEF States
<1> QED
    BY <1>1, <1>2, <1>3 DEF PrepareBatch, AdmitSend, RejectSend, IsDraft, NewBatch

\* Archiving a batch hands it over.
LEMMA ArchivingHandsOver ==
    ASSUME TypeOK, NEW k \in Keys, NEW batch \in Batch,
           admittedBySession' = MapSet(admittedBySession, k, AdmitSend(batch))
    PROVE  HandsOver(k, batch.id)
<1>1. AdmitSend(batch).state = "sent" /\ AdmitSend(batch).id = batch.id
    BY SendBatchFacts
<1> QED
    BY <1>1 DEF HandsOver, MapSet

\* The batch that takes the place of one that is handed over.
LEMMA FreshDraftFacts ==
    ASSUME TypeOK, NEW k \in Keys, Store(k, NewBatch(lastBatchId + 1))
    PROVE  /\ IsDraft(NewBatch(lastBatchId + 1))
           /\ NewBatch(lastBatchId + 1).id = lastBatchId + 1
           /\ Named(k, NewBatch(lastBatchId + 1))
<1>1. /\ IsDraft(NewBatch(lastBatchId + 1))
      /\ NewBatch(lastBatchId + 1).id = lastBatchId + 1
    BY DEF IsDraft, NewBatch
<1>2. lastBatchId + 1 \in Nat
    BY DEF TypeOK
<1> QED
    BY <1>1, <1>2, StoreNames DEF IdFor

\* Admission of the pending preparation settles it.
AdmittedOutcome(batch) == [admitted |-> TRUE, compactContext |-> PinnedContext(batch)]

\* The admission of the pending preparation hands the batch over, makes a new draft and
\* records the outcome.
LEMMA AdmissionSettles ==
    ASSUME TypeOK, SendInv, NEW k \in Keys, Preparing(k), UNCHANGED lastPreparationId,
           AdmitPreparation(k, batches[k], PinnedContext(batches[k]))
    PROVE  Settled(k, NewBatch(lastBatchId + 1), AdmittedOutcome(batches[k]))
<1>1. batches[k].preparationId \notin DOMAIN completedOutcomes
    BY DEF SendInv, PendingIffAwaited
<1>2. /\ IsDraft(NewBatch(lastBatchId + 1))
      /\ NewBatch(lastBatchId + 1).id = lastBatchId + 1
      /\ Named(k, NewBatch(lastBatchId + 1))
    BY FreshDraftFacts DEF AdmitPreparation
<1>3. PinnedContext(batches[k]) = pendingCompact[batches[k].preparationId]
    BY DEF SendInv, PendingIffAwaited, PinnedContext
<1>4. HandsOver(k, batches[k].id)
    BY StoredBatchType, ArchivingHandsOver DEF AdmitPreparation, Preparing
<1> QED
    BY <1>1, <1>2, <1>3, <1>4 DEF Settled, AdmitPreparation, Store, AdmittedOutcome

\* prepareSend opens a preparation.
LEMMA PrepareOpens ==
    ASSUME TypeOK, SendInv, NEW k \in Keys, NEW expectedRevision,
           PrepareSend(k, expectedRevision)
    PROVE  \E batch, text : Opened(k, batch, text)
<1> DEFINE next == PrepareBatch(batches[k], lastPreparationId + 1)
<1>0. lastPreparationId + 1 \in Nat /\ batches[k] \in Batch
    BY StoredBatchType DEF TypeOK, PrepareSend
<1>1. /\ next.state = "preparing"
      /\ next.preparationId = lastPreparationId + 1
      /\ next.id = batches[k].id /\ next.id \in Nat
      /\ CompactContext(next).batch = next.id
    BY <1>0, SendBatchFacts DEF CompactContext, Batch
<1>2. /\ Store(k, next)
      /\ pendingCompact' =
           MapSet(pendingCompact, next.preparationId, CompactContext(next))
    BY DEF PrepareSend
<1>3. Opened(k, next, CompactContext(next))
    <2> HIDE DEF next
    <2>1. Named(k, next)
        BY <1>1, <1>2, StoreNames DEF IdFor, PrepareSend
    <2> QED BY <1>1, <1>2, <2>1 DEF Opened, PrepareSend, Store, KeepsArchives
<1> QED
    BY <1>3

\* completeSend settles the pending preparation, as the host has decided.
LEMMA CompletionSettles ==
    ASSUME TypeOK, SendInv, NEW k \in Keys, NEW p, NEW admitted \in BOOLEAN,
           CompleteSend(k, p, admitted)
    PROVE  \E batch, outcome :
              /\ Settled(k, batch, outcome)
              /\ outcome.admitted = admitted
              /\ admitted => outcome.compactContext = PinnedContext(batches[k])
<1>0. lastPreparationId \in Nat
    BY DEF TypeOK
<1>1. Preparing(k) /\ batches[k] \in Batch
    BY StoredBatchType DEF CompleteSend, Awaits, Preparing
<1>2. CASE admitted = TRUE
    <2>1. Settled(k, NewBatch(lastBatchId + 1), AdmittedOutcome(batches[k]))
        BY <1>1, <1>2, AdmissionSettles DEF CompleteSend
    <2>2. /\ AdmittedOutcome(batches[k]).admitted = admitted
          /\ AdmittedOutcome(batches[k]).compactContext = PinnedContext(batches[k])
        BY <1>2 DEF AdmittedOutcome
    <2> QED BY <2>1, <2>2
<1>3. CASE admitted = FALSE
    <2> DEFINE open    == RejectSend(batches[k])
               outcome == [admitted |-> FALSE, compactContext |-> NoContext]
    <2>1. IsDraft(open) /\ open.id = batches[k].id /\ open.id \in Nat
        BY <1>0, <1>1, SendBatchFacts DEF Batch
    <2>2. Store(k, open)
        BY <1>3 DEF CompleteSend, RejectPreparation
    <2>3. Settled(k, open, outcome)
        <3> HIDE DEF open
        <3>1. Named(k, open)
            BY <1>1, <2>1, <2>2, StoreNames DEF IdFor, Preparing
        <3> QED
            BY <1>1, <1>3, <2>1, <2>2, <3>1
            DEF Settled, CompleteSend, Awaits, RejectPreparation, Store, KeepsArchives
    <2>4. outcome.admitted = admitted
        BY <1>3
    <2> HIDE DEF outcome
    <2> QED BY <1>3, <2>3, <2>4
<1> QED
    BY <1>2, <1>3

\* Answering an outcome that is reported again stores the batch as it is.
LEMMA ReplayEdits ==
    ASSUME TypeOK, SendInv, NEW k \in Keys, NEW p, NEW admitted,
           ReplayOutcome(k, p, admitted)
    PROVE  \E batch : Edited(k, batch)
BY SendInvFacts, StoredBatchType, StoredAsIs DEF ReplayOutcome, sendVars

\* A turn settles the pending preparation, or opens one for the draft and admits
\* it at once.
LEMMA TurnAdmits ==
    ASSUME TypeOK, SendInv, NEW k \in Keys, AdmitDraftForTurn(k)
    PROVE  \E batch, outcome :
              \/ /\ Settled(k, batch, outcome)
                 /\ outcome = AdmittedOutcome(batches[k])
              \/ AdmittedAtOnce(k, batch, outcome)
<1>1. CASE batches[k].state = "preparing"
    BY <1>1, AdmissionSettles DEF AdmitDraftForTurn, Preparing
<1>2. CASE batches[k].state = "draft"
    <2> DEFINE next    == PrepareBatch(batches[k], lastPreparationId + 1)
               fresh   == NewBatch(lastBatchId + 1)
               outcome == [admitted |-> TRUE, compactContext |-> CompactContext(next)]
    <2>0. lastPreparationId + 1 \in Nat /\ batches[k] \in Batch
        BY StoredBatchType DEF TypeOK, AdmitDraftForTurn
    <2>1. next.preparationId = lastPreparationId + 1 /\ next.id = batches[k].id
        BY <2>0, SendBatchFacts
    <2>2. /\ AdmitPreparation(k, next, CompactContext(next))
          /\ lastPreparationId < MaxPreparations
          /\ lastPreparationId' = lastPreparationId + 1
          /\ Existing(k)
        BY <1>2 DEF AdmitDraftForTurn
    <2>3. IsDraft(fresh) /\ fresh.id = lastBatchId + 1 /\ Named(k, fresh)
        BY <2>2, FreshDraftFacts DEF AdmitPreparation
    <2>4. HandsOver(k, CompactContext(next).batch) /\ CompactContext(next).batch = next.id
        <3>1. next \in Batch
            BY <2>0, SendStepsType
        <3> HIDE DEF next
        <3> QED BY <2>2, <3>1, ArchivingHandsOver DEF AdmitPreparation, CompactContext
    <2>5. AdmittedAtOnce(k, fresh, outcome)
        <3> HIDE DEF next, fresh
        <3> QED BY <1>2, <2>1, <2>2, <2>3, <2>4 DEF AdmittedAtOnce, AdmitPreparation, Store, fresh
    <2> QED BY <2>5
<1> QED
    BY <1>1, <1>2 DEF AdmitDraftForTurn

\* An operation of a Send opens a preparation, settles it, opens and admits
\* one at once, or replays an outcome.
LEMMA SendEffect ==
    ASSUME TypeOK, SendInv, NEW k \in Keys, Send(k)
    PROVE  Effect(k)
<1>1. ASSUME NEW expectedRevision, PrepareSend(k, expectedRevision)
      PROVE  Effect(k)
    BY <1>1, PrepareOpens DEF Effect
<1>2. ASSUME NEW p, NEW admitted \in BOOLEAN, CompleteSend(k, p, admitted)
      PROVE  Effect(k)
    BY <1>2, CompletionSettles DEF Effect
<1>3. ASSUME NEW p, NEW admitted, ReplayOutcome(k, p, admitted)
      PROVE  Effect(k)
    BY <1>3, ReplayEdits DEF Effect
<1>4. CASE AdmitDraftForTurn(k)
    BY <1>4, TurnAdmits DEF Effect
<1> QED
    BY <1>1, <1>2, <1>3, <1>4 DEF Send

\* An agent tool edits a batch and touches no Send.
LEMMA ToolsEffect ==
    ASSUME TypeOK, SendInv, NEW k \in Keys, Tools(k)
    PROVE  Effect(k)
<1> USE SendInvFacts, StoredBatchType
<1>1. ASSUME HasActiveContext(k), NEW chips,
             WriteActiveContext(k, Touch([ActiveContext(k) EXCEPT !.selections = chips])),
             UNCHANGED <<pendingCompact, completedOutcomes, lastPreparationId>>
      PROVE  Effect(k)
    <2> DEFINE batch == Touch([ActiveContext(k) EXCEPT !.selections = chips])
    <2>1. CASE WorkingIsActive(k)
        <3>1. Existing(k) /\ ActiveContext(k) = batches[k]
            BY <2>1 DEF WorkingIsActive, ActiveContext
        <3>2. SameSend(GetOrCreate(k), batch)
            BY <1>1, <3>1, EditsKeepSend DEF SameSend
        <3>3. Named(k, batch)
            BY <1>1, <2>1, <3>1, EditsKeepSend DEF Named, WriteActiveContext, TypeOK
        <3>4. Edited(k, batch)
            BY <1>1, <2>1, <3>2, <3>3 DEF Edited, WriteActiveContext, KeepsArchives
        <3> QED BY <3>4 DEF Effect
    <2>2. CASE ~WorkingIsActive(k)
        <3>1. /\ k \in DOMAIN admittedBySession /\ ActiveContext(k) = admittedBySession[k]
              /\ admittedBySession' = MapSet(admittedBySession, k, batch)
              /\ UNCHANGED sendState
            BY <1>1, <2>2
            DEF WriteActiveContext, HasActiveContext, ArchiveIsActive, ActiveContext, sendState
        <3>2. batch.id = admittedBySession[k].id /\ batch.state = admittedBySession[k].state
            BY <1>1, <3>1, EditsKeepSend
        <3>3. Idle
            <4> HIDE DEF batch
            <4> QED BY <3>1, <3>2 DEF Idle, KeepsArchives, MapSet
        <3> QED BY <3>3 DEF Effect
    <2> QED BY <2>1, <2>2
<1>2. ASSUME NEW id, NEW property, RecordPreviewApply(k, id, property)
      PROVE  Effect(k)
    BY <1>1, <1>2 DEF RecordPreviewApply, ReplaceChip
<1>3. ASSUME NEW id, MarkSelection(k, id)
      PROVE  Effect(k)
    BY <1>1, <1>3 DEF MarkSelection, ReplaceChip
<1>4. ASSUME NEW changeId, MarkChange(k, changeId)
      PROVE  Effect(k)
    BY <1>1, <1>4 DEF MarkChange, ResolveIn
<1> QED
    BY <1>2, <1>3, <1>4 DEF Tools

\* Cleanup either drops a session with its working batch or touches no Send.
LEMMA CleanupEffect ==
    ASSUME TypeOK, SendInv, NEW s \in SessionKeys, Cleanup(s)
    PROVE  (\E k \in Keys : Effect(k)) \/ Idle
<1>1. ASSUME NEW k, DeleteSession(k)
      PROVE  (\E j \in Keys : Effect(j)) \/ Idle
    <2>1. CASE Existing(k)
        <3>1. k \in Keys
            BY <2>1 DEF Existing, TypeOK, IsMap
        <3>2. Dropped(k)
            BY <1>1, <2>1 DEF Dropped, DeleteSession, KeepsArchives, MapDelete
        <3> QED BY <3>1, <3>2 DEF Effect
    <2>2. CASE ~Existing(k)
        <3>1. NoPreparation \notin DOMAIN pendingCompact
            BY DEF SendInv, PendingIffAwaited, Preparing, Existing
        <3>2. NoPreparation \notin DOMAIN completedOutcomes
            BY DEF SendInv, NoPreparation, TypeOK
        <3>3. batches' = batches
            BY <1>1, <2>2 DEF DeleteSession, MapDelete, TypeOK, IsMap, Existing
        <3>4. pendingCompact' = pendingCompact /\ completedOutcomes' = completedOutcomes
            BY <1>1, <2>2, <3>1, <3>2 DEF DeleteSession, MapDelete, TypeOK, IsMap
        <3>5. KeepsArchives
            BY <1>1 DEF DeleteSession, KeepsArchives, MapDelete
        <3> QED BY <1>1, <3>3, <3>4, <3>5 DEF DeleteSession, Idle, sendState
    <2> QED BY <2>1, <2>2
<1>2. CASE UNCHANGED vars
    BY <1>2 DEF vars, Idle, sendState, KeepsArchives
<1> QED
    BY <1>1, <1>2 DEF Cleanup

\* Every step has one of the effects on one session, or none.
LEMMA StepEffect ==
    ASSUME TypeOK, SendInv, [Next]_vars
    PROVE  (\E k \in Keys : Effect(k)) \/ Idle
<1>1. ASSUME NEW k \in Keys, Draft(k) \/ Send(k) \/ Tools(k)
      PROVE  Effect(k)
    BY <1>1, DraftEdits, SendEffect, ToolsEffect DEF Effect
<1>2. ASSUME NEW s \in SessionKeys, Cleanup(s)
      PROVE  (\E k \in Keys : Effect(k)) \/ Idle
    BY <1>2, CleanupEffect
<1>3. CASE UNCHANGED vars
    BY <1>3 DEF vars, Idle, sendState, KeepsArchives
<1> QED
    BY <1>1, <1>2, <1>3 DEF Next

-------------------------------------------------------------------------------
(* The three places that hold the state of a Send agree                    *)

AwaitedIds == {batches[k].preparationId : k \in {q \in Keys : Preparing(q)}}

\* Nothing is pending in the empty store.
LEMMA SendInvInit == Init => SendInv
BY EmptyIsMap DEF Init, SendInv, PendingIffAwaited, Preparing, Existing, EmptyMap

\* An edit keeps the three places in agreement.
LEMMA EditedKeepsSendInv ==
    ASSUME TypeOK, SendInv, NEW k \in Keys, NEW batch, Edited(k, batch)
    PROVE  SendInv'
<1>1. /\ DOMAIN batches' = DOMAIN batches \cup {k}
      /\ batches'[k] = batch
      /\ \A j \in DOMAIN batches : j # k => batches'[j] = batches[j]
    BY DEF Edited, MapSet
<1>2. /\ batch.state \in WorkingStates
      /\ batch.preparationId # NoPreparation <=> batch.state = "preparing"
      /\ batch.preparationId <= lastPreparationId
      /\ batch.state = "preparing" <=> Preparing(k)
      /\ Preparing(k) => batch.preparationId = batches[k].preparationId
    BY DEF Edited, SameSend, GetOrCreate, NewBatch, SendInv, PendingIffAwaited,
           Preparing, Existing, NoPreparation, TypeOK
<1>3. \A j \in Keys : /\ Preparing(j)' <=> Preparing(j)
                      /\ Preparing(j) => batches'[j].preparationId = batches[j].preparationId
    BY <1>1, <1>2 DEF Preparing, Existing
<1>4. UNCHANGED <<pendingCompact, completedOutcomes, lastPreparationId>>
    BY DEF Edited
<1>5. AwaitedIds' = AwaitedIds
    BY <1>3 DEF AwaitedIds
<1>6. \A j \in DOMAIN batches' :
          /\ batches'[j].state \in WorkingStates
          /\ batches'[j].preparationId <= lastPreparationId
          /\ batches'[j].preparationId # NoPreparation <=> Preparing(j)'
    BY <1>1, <1>2, <1>3 DEF SendInv, PendingIffAwaited, Preparing, Existing
<1> QED
    BY <1>3, <1>4, <1>5, <1>6 DEF SendInv, PendingIffAwaited, AwaitedIds

\* Opening a fresh preparation keeps the three places in agreement.
LEMMA OpenedKeepsSendInv ==
    ASSUME TypeOK, SendInv, NEW k \in Keys, NEW batch, NEW text,
           Opened(k, batch, text)
    PROVE  SendInv'
<1> DEFINE p == lastPreparationId + 1
<1>1. /\ DOMAIN batches' = DOMAIN batches
      /\ batches'[k] = batch
      /\ \A j \in DOMAIN batches : j # k => batches'[j] = batches[j]
      /\ DOMAIN pendingCompact' = DOMAIN pendingCompact \cup {p}
      /\ completedOutcomes' = completedOutcomes
      /\ lastPreparationId' = p
    BY DEF Opened, Existing, MapSet
<1>2. lastPreparationId \in Nat /\ p \in Nat /\ p # NoPreparation
    BY DEF TypeOK, NoPreparation
<1>3. ~Preparing(k) /\ Preparing(k)' /\ batches'[k].preparationId = p
    BY <1>1 DEF Opened, Preparing, Existing
<1>4. \A j \in Keys \ {k} :
          /\ Preparing(j)' <=> Preparing(j)
          /\ Preparing(j) => batches'[j] = batches[j]
    BY <1>1 DEF Preparing, Existing
<1>5. AwaitedIds' = AwaitedIds \cup {p}
    BY <1>3, <1>4 DEF AwaitedIds
<1>6. \A j \in DOMAIN batches : batches[j].preparationId \in Nat
    BY DEF TypeOK, IsMap, Batch
<1>7. \A j \in DOMAIN batches : batches[j].preparationId < p
    BY <1>2, <1>6 DEF SendInv
<1>8. p \notin DOMAIN completedOutcomes /\ DOMAIN completedOutcomes \subseteq 1 .. p
    BY <1>2 DEF SendInv
<1>9. \A j \in DOMAIN batches' :
          /\ batches'[j].state \in WorkingStates
          /\ batches'[j].preparationId <= p
          /\ batches'[j].preparationId # NoPreparation <=> Preparing(j)'
    <2> TAKE j \in DOMAIN batches'
    <2>1. CASE j = k
        BY <1>1, <1>2, <1>3, <2>1 DEF Opened, WorkingStates
    <2>2. CASE j # k
        BY <1>1, <1>2, <1>6, <1>7, <2>2 DEF SendInv, PendingIffAwaited, Preparing, Existing
    <2> QED BY <2>1, <2>2
<1>10. \A i, j \in Keys :
          Preparing(i)' /\ Preparing(j)' /\ batches'[i].preparationId = batches'[j].preparationId
              => i = j
    <2>1. \A j \in Keys : Preparing(j) => batches[j].preparationId # p
        BY <1>2, <1>6, <1>7 DEF Preparing, Existing
    <2> QED BY <1>3, <1>4, <2>1 DEF SendInv, PendingIffAwaited
<1>11. /\ DOMAIN pendingCompact' = AwaitedIds'
       /\ DOMAIN pendingCompact' \cap DOMAIN completedOutcomes' = {}
    BY <1>1, <1>5, <1>8 DEF SendInv, PendingIffAwaited, AwaitedIds
<1>12. DOMAIN completedOutcomes' \subseteq 1 .. lastPreparationId'
    BY <1>1, <1>8
<1> HIDE DEF p
<1> QED
    BY <1>1, <1>9, <1>10, <1>11, <1>12 DEF SendInv, PendingIffAwaited, AwaitedIds

\* A preparation p leaves the pending ones and is recorded: the pending one of
\* k, or a fresh one.
LEMMA ConsumedKeepsSendInv ==
    ASSUME TypeOK, SendInv, NEW k \in Keys, Existing(k), NEW p \in Nat, NEW batch,
           IsDraft(batch), batches' = MapSet(batches, k, batch),
           DOMAIN pendingCompact' = DOMAIN pendingCompact \ {p},
           DOMAIN completedOutcomes' = DOMAIN completedOutcomes \cup {p},
           \/ /\ Preparing(k)
              /\ p = batches[k].preparationId
              /\ lastPreparationId' = lastPreparationId
           \/ /\ batches[k].state = "draft"
              /\ p = lastPreparationId + 1
              /\ lastPreparationId' = p
    PROVE  SendInv'
<1>1. /\ DOMAIN batches' = DOMAIN batches
      /\ batches'[k] = batch
      /\ \A j \in DOMAIN batches : j # k => batches'[j] = batches[j]
    BY DEF Existing, MapSet
<1>2. lastPreparationId \in Nat
    BY DEF TypeOK
<1>3. \A j \in DOMAIN batches : batches[j].preparationId \in Nat
    BY DEF TypeOK, IsMap, Batch
<1>4. ~Preparing(k)'
    BY <1>1 DEF Preparing, Existing, IsDraft
<1>5. \A j \in Keys \ {k} :
          /\ Preparing(j)' <=> Preparing(j)
          /\ Preparing(j) => batches'[j] = batches[j]
          /\ Preparing(j) => batches[j].preparationId # p
    <2>1. \A j \in Keys \ {k} : Preparing(j) => batches[j].preparationId # p
        BY <1>2, <1>3 DEF SendInv, PendingIffAwaited, Preparing, Existing
    <2> QED BY <1>1, <2>1 DEF Preparing, Existing
<1>6. AwaitedIds' = AwaitedIds \ {p}
    <2>1. \A j \in Keys : Preparing(j) /\ batches[j].preparationId # p => j # k
        BY <1>2, <1>3 DEF Preparing
    <2> QED BY <1>4, <1>5, <2>1 DEF AwaitedIds
<1>7. /\ lastPreparationId' \in Nat
      /\ lastPreparationId <= lastPreparationId'
      /\ p \in 1 .. lastPreparationId'
    BY <1>2, <1>3 DEF SendInv, PendingIffAwaited, Preparing, NoPreparation, Existing
<1>8. \A j \in DOMAIN batches' :
          /\ batches'[j].state \in WorkingStates
          /\ batches'[j].preparationId <= lastPreparationId'
          /\ batches'[j].preparationId # NoPreparation <=> Preparing(j)'
    <2> TAKE j \in DOMAIN batches'
    <2>1. CASE j = k
        BY <1>1, <1>4, <1>7, <2>1 DEF IsDraft, WorkingStates, NoPreparation
    <2>2. CASE j # k
        BY <1>1, <1>2, <1>3, <1>7, <2>2 DEF SendInv, PendingIffAwaited, Preparing, Existing
    <2> QED BY <2>1, <2>2
<1>9. DOMAIN completedOutcomes' \subseteq 1 .. lastPreparationId'
    BY <1>2, <1>7 DEF SendInv
<1>10. DOMAIN pendingCompact' \cap DOMAIN completedOutcomes' = {}
    BY DEF SendInv, PendingIffAwaited
<1> QED
    BY <1>4, <1>5, <1>6, <1>8, <1>9, <1>10 DEF SendInv, PendingIffAwaited, AwaitedIds

\* Dropping a session with its preparation keeps the three places in agreement.
LEMMA DroppedKeepsSendInv ==
    ASSUME TypeOK, SendInv, NEW k \in Keys, Dropped(k)
    PROVE  SendInv'
<1> DEFINE p == batches[k].preparationId
<1>1. /\ DOMAIN batches' = DOMAIN batches \ {k}
      /\ \A j \in DOMAIN batches : j # k => batches'[j] = batches[j]
      /\ DOMAIN pendingCompact' = DOMAIN pendingCompact \ {p}
      /\ DOMAIN completedOutcomes' = DOMAIN completedOutcomes \ {p}
      /\ lastPreparationId' = lastPreparationId
    BY DEF Dropped, MapDelete
<1>2. ~Preparing(k)'
    BY <1>1 DEF Preparing, Existing
<1>3. \A j \in Keys \ {k} :
          /\ Preparing(j)' <=> Preparing(j)
          /\ Preparing(j) => batches'[j] = batches[j]
          /\ Preparing(j) => batches[j].preparationId # p
    <2>1. \A j \in Keys \ {k} : Preparing(j) => batches[j].preparationId # p
        BY DEF SendInv, PendingIffAwaited, Preparing, Existing, Dropped
    <2> QED BY <1>1, <2>1 DEF Preparing, Existing
<1>4. AwaitedIds' = AwaitedIds \ {p}
    BY <1>2, <1>3 DEF AwaitedIds
<1> QED
    BY <1>1, <1>2, <1>3, <1>4 DEF SendInv, PendingIffAwaited, AwaitedIds, Preparing, Existing

\* Every effect keeps the three places in agreement.
LEMMA EffectKeepsSendInv ==
    ASSUME TypeOK, SendInv, NEW k \in Keys, Effect(k)
    PROVE  SendInv'
<1>1. ASSUME NEW batch, NEW outcome, Settled(k, batch, outcome)
      PROVE  SendInv'
    <2>1. Existing(k) /\ batches[k].preparationId \in Nat
        BY <1>1 DEF Settled, Preparing, Existing, TypeOK, IsMap, Batch
    <2>2. /\ DOMAIN pendingCompact' = DOMAIN pendingCompact \ {batches[k].preparationId}
          /\ DOMAIN completedOutcomes' =
               DOMAIN completedOutcomes \cup {batches[k].preparationId}
        BY <1>1 DEF Settled, MapSet, MapDelete
    <2> QED BY <1>1, <2>1, <2>2, ConsumedKeepsSendInv DEF Settled
<1>2. ASSUME NEW batch, NEW outcome, AdmittedAtOnce(k, batch, outcome)
      PROVE  SendInv'
    <2>1. lastPreparationId + 1 \in Nat
        BY DEF TypeOK
    <2>2. /\ DOMAIN pendingCompact' = DOMAIN pendingCompact \ {lastPreparationId + 1}
          /\ DOMAIN completedOutcomes' =
               DOMAIN completedOutcomes \cup {lastPreparationId + 1}
        BY <1>2 DEF AdmittedAtOnce, MapSet, MapDelete
    <2> QED BY <1>2, <2>1, <2>2, ConsumedKeepsSendInv DEF AdmittedAtOnce
<1>3. CASE Idle
    BY <1>3 DEF Idle, sendState, SendInv, PendingIffAwaited, Preparing, Existing
<1> QED
    BY <1>1, <1>2, <1>3, EditedKeepsSendInv, OpenedKeepsSendInv, DroppedKeepsSendInv
    DEF Effect

\* The inductive invariant: batch state, pinned text and outcomes agree, and
\* every preparation in use has been minted.
THEOREM SendInvariant == Spec => []SendInv
<1>1. TypeOK /\ SendInv /\ [Next]_vars => SendInv'
    <2> SUFFICES ASSUME TypeOK, SendInv, [Next]_vars PROVE SendInv'
        OBVIOUS
    <2>1. CASE Idle
        BY <2>1 DEF Idle, sendState, SendInv, PendingIffAwaited, Preparing, Existing
    <2> QED
        BY <2>1, StepEffect, EffectKeepsSendInv
<1> QED
    BY <1>1, SendInvInit, TypeCorrect, PTL DEF Spec

\* Batch state, pinned text and recorded outcomes never disagree on which
\* Sends are pending.
THEOREM PendingAgrees == Spec => []PendingIffAwaited
<1>1. SendInv => PendingIffAwaited
    BY DEF SendInv
<1> QED
    BY <1>1, SendInvariant, PTL

\* No step changes or forgets a recorded outcome.
LEMMA StepKeepsOutcomes ==
    ASSUME TypeOK, SendInv, [Next]_vars
    PROVE  \A p \in DOMAIN completedOutcomes :
              /\ p \in DOMAIN completedOutcomes'
              /\ completedOutcomes'[p] = completedOutcomes[p]
<1> DEFINE Final == \A p \in DOMAIN completedOutcomes :
                       /\ p \in DOMAIN completedOutcomes'
                       /\ completedOutcomes'[p] = completedOutcomes[p]
<1>1. ASSUME NEW k \in Keys, NEW batch, NEW outcome, Settled(k, batch, outcome)
      PROVE  Final
    BY <1>1 DEF Settled, MapSet
<1>2. ASSUME NEW k \in Keys, NEW batch, NEW outcome, AdmittedAtOnce(k, batch, outcome)
      PROVE  Final
    <2>1. lastPreparationId + 1 \notin DOMAIN completedOutcomes
        BY DEF SendInv, TypeOK
    <2> QED BY <1>2, <2>1 DEF AdmittedAtOnce, MapSet
<1>3. ASSUME NEW k \in Keys, Dropped(k)
      PROVE  Final
    <2>1. batches[k].preparationId \notin DOMAIN completedOutcomes
        <3>1. CASE Preparing(k)
            BY <3>1 DEF SendInv, PendingIffAwaited
        <3>2. CASE ~Preparing(k)
            BY <1>3, <3>2 DEF SendInv, PendingIffAwaited, Dropped, Existing,
                              NoPreparation, TypeOK
        <3> QED BY <3>1, <3>2
    <2> QED BY <1>3, <2>1 DEF Dropped, MapDelete
<1>4. ASSUME UNCHANGED completedOutcomes
      PROVE  Final
    BY <1>4
<1> QED
    BY <1>1, <1>2, <1>3, <1>4, StepEffect DEF Effect, Edited, Opened, Idle, sendState

\* No call, in whatever order, changes or forgets a recorded outcome.
THEOREM OutcomesFinal == Spec => OutcomesAreFinal
<1> DEFINE Final == \A p \in DOMAIN completedOutcomes :
                       /\ p \in DOMAIN completedOutcomes'
                       /\ completedOutcomes'[p] = completedOutcomes[p]
<1>1. TypeOK /\ SendInv /\ [Next]_vars => [Final]_vars
    BY StepKeepsOutcomes
<1> QED
    BY <1>1, SendInvariant, TypeCorrect, PTL DEF Spec, OutcomesAreFinal

-------------------------------------------------------------------------------
(* The text that is handed over, and the archive                           *)

\* An edit of a pending batch keeps its id, and a text is pinned, and taken away,
\* for one preparation only: the others keep theirs.
LEMMA StepKeepsPinned ==
    ASSUME TypeOK, SendInv, PinnedTextNamesItsBatch, [Next]_vars
    PROVE  PinnedTextNamesItsBatch'
<1> USE DEF Preparing, Existing
<1>0. \A j, k \in Keys :
          /\ Preparing(j) => batches[j].preparationId \in Nat \ {NoPreparation, lastPreparationId + 1}
          /\ Preparing(j) => pendingCompact[batches[j].preparationId].batch = batches[j].id
          /\ Preparing(j) => batches[j].preparationId \in DOMAIN pendingCompact
          /\ Preparing(j) /\ Existing(k) /\ j # k
                => batches[j].preparationId # batches[k].preparationId
    <2>1. \A j \in Keys : Preparing(j) => batches[j].preparationId \in DOMAIN pendingCompact
        BY DEF SendInv, PendingIffAwaited
    <2>2. \A j \in Keys : Preparing(j) =>
              batches[j].preparationId \in Nat \ {NoPreparation, lastPreparationId + 1}
        <3>1. lastPreparationId \in Nat /\ \A j \in DOMAIN batches : batches[j].preparationId \in Nat
            BY DEF TypeOK, IsMap, Batch
        <3> QED BY <3>1 DEF SendInv, PendingIffAwaited
    <2>3. \A j, k \in Keys : Preparing(j) /\ Existing(k) /\ j # k
              => batches[j].preparationId # batches[k].preparationId
        BY <2>2 DEF SendInv, PendingIffAwaited
    <2> QED BY <2>1, <2>2, <2>3 DEF PinnedTextNamesItsBatch
<1>1. ASSUME NEW k \in Keys, NEW batch, Edited(k, batch)
      PROVE  PinnedTextNamesItsBatch'
    <2>1. batch.state = "preparing" =>
              /\ Preparing(k)
              /\ batch.id = batches[k].id /\ batch.preparationId = batches[k].preparationId
        BY <1>1 DEF Edited, SameSend, GetOrCreate, NewBatch
    <2> QED BY <1>0, <1>1, <2>1 DEF Edited, MapSet, PinnedTextNamesItsBatch
<1>2. ASSUME NEW k \in Keys, NEW batch, NEW text, Opened(k, batch, text)
      PROVE  PinnedTextNamesItsBatch'
    BY <1>0, <1>2 DEF Opened, MapSet, PinnedTextNamesItsBatch
<1>3. ASSUME NEW k \in Keys, NEW batch, NEW outcome, Settled(k, batch, outcome)
      PROVE  PinnedTextNamesItsBatch'
    BY <1>0, <1>3 DEF Settled, IsDraft, MapSet, MapDelete, PinnedTextNamesItsBatch
<1>4. ASSUME NEW k \in Keys, NEW batch, NEW outcome, AdmittedAtOnce(k, batch, outcome)
      PROVE  PinnedTextNamesItsBatch'
    BY <1>0, <1>4 DEF AdmittedAtOnce, IsDraft, MapSet, MapDelete, PinnedTextNamesItsBatch
<1>5. ASSUME NEW k \in Keys, Dropped(k)
      PROVE  PinnedTextNamesItsBatch'
    BY <1>0, <1>5 DEF Dropped, MapDelete, PinnedTextNamesItsBatch
<1>6. CASE Idle
    BY <1>6 DEF Idle, sendState, PinnedTextNamesItsBatch
<1> QED
    BY <1>1, <1>2, <1>3, <1>4, <1>5, <1>6, StepEffect DEF Effect

\* The text pinned for a pending Send always names the batch that waits for it.
THEOREM PinnedNamesBatch == Spec => []PinnedTextNamesItsBatch
<1>1. Init => PinnedTextNamesItsBatch
    BY DEF Init, PinnedTextNamesItsBatch, Preparing, Existing, EmptyMap
<1>2. TypeOK /\ SendInv /\ PinnedTextNamesItsBatch /\ [Next]_vars => PinnedTextNamesItsBatch'
    BY StepKeepsPinned
<1> QED
    BY <1>1, <1>2, TypeCorrect, SendInvariant, PTL DEF Spec

\* What was handed over by an outcome stays so, because outcomes are kept; and what
\* is archived is the batch that the recorded text names.
LEMMA StepKeepsHandedOver ==
    ASSUME TypeOK, SendInv, PinnedTextNamesItsBatch, ArchiveWasHandedOver, [Next]_vars
    PROVE  ArchiveWasHandedOver'
<1> DEFINE HandedOver(outcomes, id) == \E p \in DOMAIN outcomes :
                                           /\ outcomes[p].admitted
                                           /\ outcomes[p].compactContext.batch = id
<1>1. \A id : HandedOver(completedOutcomes, id) => HandedOver(completedOutcomes', id)
    BY StepKeepsOutcomes
<1>2. \A k \in DOMAIN admittedBySession :
          admittedBySession[k].state = "sent" /\ HandedOver(completedOutcomes, admittedBySession[k].id)
    BY DEF ArchiveWasHandedOver
<1>3. SUFFICES \A k \in DOMAIN admittedBySession' :
                  admittedBySession'[k].state = "sent" /\ HandedOver(completedOutcomes', admittedBySession'[k].id)
    BY DEF ArchiveWasHandedOver
<1> DEFINE Goal == \A k \in DOMAIN admittedBySession' :
                      admittedBySession'[k].state = "sent" /\ HandedOver(completedOutcomes', admittedBySession'[k].id)
<1>4. CASE KeepsArchives
    <2> HIDE DEF HandedOver
    <2> QED BY <1>1, <1>2, <1>4 DEF KeepsArchives
<1>5. ASSUME NEW k \in Keys, NEW id, HandsOver(k, id), HandedOver(completedOutcomes', id)
      PROVE  Goal
    <2> HIDE DEF HandedOver
    <2> QED BY <1>1, <1>2, <1>5 DEF HandsOver
<1>6. ASSUME NEW k \in Keys, NEW batch, NEW outcome, Settled(k, batch, outcome)
      PROVE  Goal
    <2>1. CASE outcome.admitted
        <3>1. outcome.compactContext.batch = batches[k].id
            BY <1>6, <2>1 DEF Settled, PinnedTextNamesItsBatch
        <3>2. HandedOver(completedOutcomes', batches[k].id)
            BY <1>6, <2>1, <3>1 DEF Settled, MapSet
        <3> QED BY <1>5, <1>6, <2>1, <3>2 DEF Settled
    <2>2. CASE ~outcome.admitted
        BY <1>4, <1>6, <2>2 DEF Settled
    <2> QED BY <2>1, <2>2
<1>7. ASSUME NEW k \in Keys, NEW batch, NEW outcome, AdmittedAtOnce(k, batch, outcome)
      PROVE  Goal
    <2>1. HandedOver(completedOutcomes', outcome.compactContext.batch)
        BY <1>7 DEF AdmittedAtOnce, MapSet
    <2> QED BY <1>5, <1>7, <2>1 DEF AdmittedAtOnce
<1> QED
    BY <1>4, <1>6, <1>7, StepEffect DEF Effect, Edited, Opened, Dropped, Idle

\* What the agent tools read as the context of the last Send was handed to the host
\* by an admitted Send: a rejected one leaves nothing behind.
THEOREM ArchiveHandedOver == Spec => []ArchiveWasHandedOver
<1>1. Init => ArchiveWasHandedOver
    BY DEF Init, ArchiveWasHandedOver, EmptyMap
<1>2. TypeOK /\ SendInv /\ PinnedTextNamesItsBatch /\ ArchiveWasHandedOver /\ [Next]_vars
          => ArchiveWasHandedOver'
    BY StepKeepsHandedOver
<1> QED
    BY <1>1, <1>2, TypeCorrect, SendInvariant, PinnedNamesBatch, PTL DEF Spec

-------------------------------------------------------------------------------
(* A batch is handed over once                                             *)

\* Two admitted Sends have handed over two batches: a session goes on with a batch
\* of a new id, so no batch is handed over again under another preparation.
Admitted(p) == p \in DOMAIN completedOutcomes /\ completedOutcomes[p].admitted

HandedOverOnce ==
    \A p, q \in DOMAIN completedOutcomes :
        /\ Admitted(p) /\ Admitted(q)
        /\ completedOutcomes[p].compactContext.batch = completedOutcomes[q].compactContext.batch
        => p = q

\* The inductive invariant behind it: the ids of the working batches are minted, of
\* one session each, and none of them has been handed over.
BatchIdInv ==
    /\ \A k \in DOMAIN batches : batches[k].id <= lastBatchId
    /\ \A j, k \in DOMAIN batches : batches[j].id = batches[k].id => j = k
    /\ \A p \in DOMAIN completedOutcomes :
          Admitted(p) =>
              /\ completedOutcomes[p].compactContext.batch <= lastBatchId
              /\ \A k \in DOMAIN batches :
                    batches[k].id # completedOutcomes[p].compactContext.batch
    /\ HandedOverOnce

\* The ids in use are natural numbers.
LEMMA BatchIdsType ==
    ASSUME TypeOK
    PROVE  /\ lastBatchId \in Nat
           /\ \A k \in DOMAIN batches : batches[k].id \in Nat
           /\ \A p \in DOMAIN completedOutcomes :
                 completedOutcomes[p].compactContext.batch \in Nat
BY DEF TypeOK, IsMap, Batch, Outcome, Compact

\* Storing a batch for a session that goes on, or one with the next id, keeps the
\* ids apart, as long as no outcome is recorded but a refusal.
LEMMA NamedKeepsIds ==
    ASSUME TypeOK, BatchIdInv, NEW k \in Keys, NEW batch, Named(k, batch),
           batches' = MapSet(batches, k, batch),
           \A p \in DOMAIN completedOutcomes' :
              Admitted(p)' => /\ Admitted(p)
                              /\ completedOutcomes'[p] = completedOutcomes[p]
    PROVE  BatchIdInv'
<1> USE BatchIdsType
<1>1. /\ DOMAIN batches' = DOMAIN batches \cup {k}
      /\ batches'[k].id = batch.id
      /\ \A j \in DOMAIN batches : j # k => batches'[j] = batches[j]
    BY DEF MapSet
<1>2. /\ batch.id <= lastBatchId'
      /\ \A j \in DOMAIN batches : j # k => batch.id # batches[j].id
      /\ \A p \in DOMAIN completedOutcomes :
            Admitted(p) => batch.id # completedOutcomes[p].compactContext.batch
    BY DEF Named, BatchIdInv, Existing
<1>3. \A n \in Nat : n <= lastBatchId => n <= lastBatchId'
    BY DEF Named
<1>4. \A j \in DOMAIN batches' : batches'[j].id <= lastBatchId'
    BY <1>1, <1>2, <1>3 DEF BatchIdInv
<1>5. \A i, j \in DOMAIN batches' : batches'[i].id = batches'[j].id => i = j
    BY <1>1, <1>2 DEF BatchIdInv
<1>6. \A p \in DOMAIN completedOutcomes' :
          Admitted(p)' =>
              /\ completedOutcomes'[p].compactContext.batch <= lastBatchId'
              /\ \A j \in DOMAIN batches' :
                    batches'[j].id # completedOutcomes'[p].compactContext.batch
    <2> SUFFICES ASSUME NEW p \in DOMAIN completedOutcomes', Admitted(p)'
                 PROVE  /\ completedOutcomes'[p].compactContext.batch <= lastBatchId'
                        /\ \A j \in DOMAIN batches' :
                              batches'[j].id # completedOutcomes'[p].compactContext.batch
        OBVIOUS
    <2>1. /\ p \in DOMAIN completedOutcomes /\ Admitted(p)
          /\ completedOutcomes'[p] = completedOutcomes[p]
        BY DEF Admitted
    <2> QED BY <1>1, <1>2, <1>3, <2>1 DEF BatchIdInv
<1>7. HandedOverOnce'
    BY DEF BatchIdInv, HandedOverOnce, Admitted
<1> QED
    BY <1>4, <1>5, <1>6, <1>7 DEF BatchIdInv

\* Handing a batch over to a preparation without an outcome, and going on with a
\* batch of the next id, keeps the ids apart.
LEMMA HandingOverKeepsIds ==
    ASSUME TypeOK, BatchIdInv, NEW k \in Keys, Existing(k), NEW batch,
           batch.id = lastBatchId + 1, lastBatchId' = lastBatchId + 1,
           batches' = MapSet(batches, k, batch),
           NEW p, p \notin DOMAIN completedOutcomes, NEW outcome,
           outcome.compactContext.batch = batches[k].id,
           completedOutcomes' = MapSet(completedOutcomes, p, outcome)
    PROVE  BatchIdInv'
<1> USE BatchIdsType
<1>1. /\ DOMAIN batches' = DOMAIN batches
      /\ batches'[k].id = lastBatchId + 1
      /\ \A j \in DOMAIN batches : j # k => batches'[j] = batches[j]
    BY DEF MapSet, Existing
<1>2. /\ DOMAIN completedOutcomes' = DOMAIN completedOutcomes \cup {p}
      /\ completedOutcomes'[p] = outcome
      /\ \A q \in DOMAIN completedOutcomes :
            /\ completedOutcomes'[q] = completedOutcomes[q]
            /\ Admitted(q)' <=> Admitted(q)
    BY DEF MapSet, Admitted
<1>3. \A j \in DOMAIN batches' : batches'[j].id <= lastBatchId'
    BY <1>1 DEF BatchIdInv
<1>4. \A i, j \in DOMAIN batches' : batches'[i].id = batches'[j].id => i = j
    BY <1>1 DEF BatchIdInv
<1>5. \A q \in DOMAIN completedOutcomes :
          Admitted(q) => completedOutcomes[q].compactContext.batch # batches[k].id
    BY DEF BatchIdInv, Existing
<1>6. \A q \in DOMAIN completedOutcomes :
          Admitted(q) =>
              /\ completedOutcomes[q].compactContext.batch <= lastBatchId'
              /\ \A j \in DOMAIN batches :
                    batches'[j].id # completedOutcomes[q].compactContext.batch
    BY <1>1 DEF BatchIdInv
<1>7. /\ batches[k].id <= lastBatchId'
      /\ \A j \in DOMAIN batches : batches'[j].id # batches[k].id
    BY <1>1 DEF BatchIdInv, Existing
<1>8. \A q \in DOMAIN completedOutcomes' :
          Admitted(q)' =>
              /\ completedOutcomes'[q].compactContext.batch <= lastBatchId'
              /\ \A j \in DOMAIN batches' :
                    batches'[j].id # completedOutcomes'[q].compactContext.batch
    BY <1>1, <1>2, <1>6, <1>7
<1>9. HandedOverOnce'
    BY <1>2, <1>5 DEF BatchIdInv, HandedOverOnce
<1> QED
    BY <1>3, <1>4, <1>8, <1>9 DEF BatchIdInv

\* Every step keeps the ids apart.
LEMMA StepKeepsIds ==
    ASSUME TypeOK, SendInv, PinnedTextNamesItsBatch, BatchIdInv, [Next]_vars
    PROVE  BatchIdInv'
<1>0. ASSUME UNCHANGED completedOutcomes
      PROVE  \A p \in DOMAIN completedOutcomes' :
                Admitted(p)' => /\ Admitted(p)
                                /\ completedOutcomes'[p] = completedOutcomes[p]
    BY <1>0 DEF Admitted
<1>1. ASSUME NEW k \in Keys, NEW batch, Edited(k, batch)
      PROVE  BatchIdInv'
    <2>1. /\ Named(k, batch) /\ batches' = MapSet(batches, k, batch)
          /\ UNCHANGED completedOutcomes
        BY <1>1 DEF Edited
    <2> QED BY <1>0, <2>1, NamedKeepsIds
<1>2. ASSUME NEW k \in Keys, NEW batch, NEW text, Opened(k, batch, text)
      PROVE  BatchIdInv'
    <2>1. /\ Named(k, batch) /\ batches' = MapSet(batches, k, batch)
          /\ UNCHANGED completedOutcomes
        BY <1>2 DEF Opened
    <2> QED BY <1>0, <2>1, NamedKeepsIds
<1>3. ASSUME NEW k \in Keys, NEW batch, NEW outcome, Settled(k, batch, outcome)
      PROVE  BatchIdInv'
    <2> DEFINE p == batches[k].preparationId
    <2>0. /\ Existing(k) /\ p \notin DOMAIN completedOutcomes
          /\ completedOutcomes' = MapSet(completedOutcomes, p, outcome)
          /\ batches' = MapSet(batches, k, batch)
          /\ Named(k, batch)
        BY <1>3 DEF Settled, Preparing
    <2>1. CASE outcome.admitted
        <3>1. batch.id = lastBatchId + 1 /\ outcome.compactContext.batch = batches[k].id
            BY <1>3, <2>1 DEF Settled, PinnedTextNamesItsBatch
        <3>2. lastBatchId' = lastBatchId + 1
            BY <2>0, <3>1, BatchIdsType DEF Named, Existing, BatchIdInv
        <3> QED BY <2>0, <3>1, <3>2, HandingOverKeepsIds
    <2>2. CASE ~outcome.admitted
        <3>1. \A q \in DOMAIN completedOutcomes' :
                  Admitted(q)' => /\ Admitted(q)
                                  /\ completedOutcomes'[q] = completedOutcomes[q]
            BY <2>0, <2>2 DEF MapSet, Admitted
        <3> QED BY <2>0, <3>1, NamedKeepsIds
    <2> QED BY <2>1, <2>2
<1>4. ASSUME NEW k \in Keys, NEW batch, NEW outcome, AdmittedAtOnce(k, batch, outcome)
      PROVE  BatchIdInv'
    <2>1. lastPreparationId + 1 \notin DOMAIN completedOutcomes
        BY DEF SendInv, TypeOK
    <2>2. lastBatchId' = lastBatchId + 1
        BY <1>4, BatchIdsType DEF AdmittedAtOnce, Named, Existing, BatchIdInv
    <2> QED BY <1>4, <2>1, <2>2, HandingOverKeepsIds DEF AdmittedAtOnce
<1>5. ASSUME NEW k \in Keys, Dropped(k)
      PROVE  BatchIdInv'
    <2>1. /\ DOMAIN batches' = DOMAIN batches \ {k}
          /\ \A j \in DOMAIN batches' : batches'[j] = batches[j]
          /\ lastBatchId' = lastBatchId
          /\ DOMAIN completedOutcomes' \subseteq DOMAIN completedOutcomes
          /\ \A q \in DOMAIN completedOutcomes' :
                /\ completedOutcomes'[q] = completedOutcomes[q]
                /\ Admitted(q)' <=> Admitted(q)
        BY <1>5 DEF Dropped, MapDelete, Admitted
    <2> QED BY <2>1 DEF BatchIdInv, HandedOverOnce
<1>6. CASE Idle
    BY <1>6 DEF Idle, sendState, BatchIdInv, HandedOverOnce, Admitted
<1> QED
    BY <1>1, <1>2, <1>3, <1>4, <1>5, <1>6, StepEffect DEF Effect

\* The ids of working and handed-over batches are always apart.
THEOREM BatchIdsApart == Spec => []BatchIdInv
<1>1. Init => BatchIdInv
    BY DEF Init, BatchIdInv, HandedOverOnce, EmptyMap
<1>2. TypeOK /\ SendInv /\ PinnedTextNamesItsBatch /\ BatchIdInv /\ [Next]_vars => BatchIdInv'
    BY StepKeepsIds
<1> QED
    BY <1>1, <1>2, TypeCorrect, SendInvariant, PinnedNamesBatch, PTL DEF Spec

\* No two Sends hand over the same batch, in whatever order Sends, retries, turns,
\* edits and cleanups come.
THEOREM BatchHandedOverOnce == Spec => []HandedOverOnce
<1>1. BatchIdInv => HandedOverOnce
    BY DEF BatchIdInv
<1> QED
    BY <1>1, BatchIdsApart, PTL

-------------------------------------------------------------------------------
(* The elements of an archive                                              *)

\* Chips with the same id are of the same element, so that writing one back by its id
\* exchanges no other.
OneEach(chips) == \A c, d \in chips : c.id = d.id => c.element = d.element

ChipsInv ==
    /\ \A k \in DOMAIN batches : OneEach(batches[k].selections)
    /\ \A k \in DOMAIN admittedBySession : OneEach(admittedBySession[k].selections)

\* Writing a chip keeps one element for each id, whatever chip it is; taking one away
\* does, too.
LEMMA WithChipOne ==
    ASSUME NEW chips, OneEach(chips), NEW chip, NEW id
    PROVE  /\ OneEach(WithChip(chips, chip))
           /\ OneEach(WithoutChip(chips, id))
           /\ OneEach({})
BY DEF OneEach, WithChip, WithoutChip

\* The chips of a batch after an operation on it.
LEMMA ChipsAfter ==
    ASSUME NEW batch \in Batch
    PROVE  /\ \A chips : Touch([batch EXCEPT !.selections = chips]).selections = chips
           /\ \A chip : ReplaceChip(batch, chip).selections = WithChip(batch.selections, chip)
           /\ \A id : RemoveSelection(batch, id).selections = WithoutChip(batch.selections, id)
           /\ Transition(batch, "cleared").selections = {}
           /\ \A p : PrepareBatch(batch, p).selections = batch.selections
           /\ AdmitSend(batch).selections = batch.selections
           /\ RejectSend(batch).selections = batch.selections
           /\ \A p : NewBatch(p).selections = {}
<1>1. \A s \in {"preparing", "sent", "draft"} :
         Transition(batch, s).selections = batch.selections
    BY DEF Transition, Touch, Batch
<1>2. \A b, q : [b EXCEPT !.preparationId = q].selections = b.selections
    OBVIOUS
<1>3. /\ \A p : PrepareBatch(batch, p).selections = batch.selections
      /\ AdmitSend(batch).selections = batch.selections
      /\ RejectSend(batch).selections = batch.selections
    BY <1>1, <1>2 DEF PrepareBatch, AdmitSend, RejectSend
<1> QED
    BY <1>3 DEF Touch, ReplaceChip, RemoveSelection, Transition, NewBatch, Batch

\* Recording changes on a chip, or resolving them, leaves the elements of a batch alone.
LEMMA RecordingKeepsLines ==
    ASSUME NEW batch \in Batch, OneEach(batch.selections),
           NEW chip \in batch.selections, NEW new,
           new.id = chip.id, new.element = chip.element
    PROVE  Elementwise(ReplaceChip(batch, new)) = Elementwise(batch)
<1> DEFINE chips == batch.selections
<1>1. ReplaceChip(batch, new).selections = WithChip(chips, new)
    BY ChipsAfter
<1>2. CompactLine(new) = CompactLine(chip)
    BY DEF CompactLine
<1>3. \A c \in chips : c.id = chip.id => CompactLine(c) = CompactLine(chip)
    BY DEF OneEach, CompactLine
<1>4. \A c \in WithChip(chips, new) : \E d \in chips : CompactLine(c) = CompactLine(d)
    BY <1>2 DEF WithChip, WithoutChip
<1>5. \A d \in chips : \E c \in WithChip(chips, new) : CompactLine(c) = CompactLine(d)
    <2> TAKE d \in chips
    <2>1. CASE d.id = new.id
        BY <1>2, <1>3, <2>1 DEF WithChip
    <2>2. CASE d.id # new.id
        BY <2>2 DEF WithChip, WithoutChip
    <2> QED BY <2>1, <2>2
<1> HIDE DEF chips
<1> QED
    BY <1>1, <1>4, <1>5, SMTT(20) DEF Elementwise, chips

\* Marking a change of a chip resolved changes no line of the batch's compact context and
\* no element.
LEMMA ResolvingKeepsLines ==
    ASSUME NEW batch \in Batch, OneEach(batch.selections), NEW changeId
    PROVE  /\ Elementwise(ResolveIn(batch, changeId)) = Elementwise(batch)
           /\ OneEach(ResolveIn(batch, changeId).selections)
<1> DEFINE resolved(c) == [c EXCEPT !.changes = MarkChangeResolved(@, changeId)]
<1>1. ResolveIn(batch, changeId).selections = {resolved(c) : c \in batch.selections}
    <2> DEFINE chips == {resolved(c) : c \in batch.selections}
    <2>1. ResolveIn(batch, changeId) = Touch([batch EXCEPT !.selections = chips])
        BY DEF ResolveIn
    <2> HIDE DEF chips
    <2>2. Touch([batch EXCEPT !.selections = chips]).selections = chips
        BY ChipsAfter
    <2> QED BY <2>1, <2>2 DEF chips
<1>2. \A c \in batch.selections : /\ resolved(c).id = c.id
                                  /\ resolved(c).element = c.element
    BY DEF Batch, Chip
<1> HIDE DEF resolved
<1>3. \A c \in batch.selections : CompactLine(resolved(c)) = CompactLine(c)
    BY <1>2 DEF CompactLine
<1>4. Elementwise(ResolveIn(batch, changeId)) = Elementwise(batch)
    BY <1>1, <1>3 DEF Elementwise
<1>5. OneEach(ResolveIn(batch, changeId).selections)
    BY <1>1, <1>2 DEF OneEach
<1> QED
    BY <1>4, <1>5

\* What a step does to the chips: it edits a working batch, archives one, records on an
\* archive, deletes a session, or nothing.
Rewrites(k, batch) ==
    /\ OneEach(batch.selections)
    /\ batches' = MapSet(batches, k, batch)
    /\ UNCHANGED admittedBySession

Archives(k, batch, archive) ==
    /\ Existing(k)
    /\ OneEach(batch.selections) /\ OneEach(archive.selections)
    /\ archive.id = batches[k].id
    /\ batches' = MapSet(batches, k, batch)
    /\ admittedBySession' = MapSet(admittedBySession, k, archive)

Records(k, archive) ==
    /\ k \in DOMAIN admittedBySession
    /\ OneEach(archive.selections)
    /\ Elementwise(archive) = Elementwise(admittedBySession[k])
    /\ admittedBySession' = MapSet(admittedBySession, k, archive)
    /\ UNCHANGED batches

Forgets(k) ==
    /\ batches' = MapDelete(batches, k)
    /\ admittedBySession' = MapDelete(admittedBySession, k)

ChipsEffect(k) ==
    \/ \E batch : Rewrites(k, batch)
    \/ \E batch, archive : Archives(k, batch, archive)
    \/ \E archive : Records(k, archive)
    \/ Forgets(k)
    \/ UNCHANGED <<batches, admittedBySession>>

\* Drafting edits a working batch.
LEMMA DraftChips ==
    ASSUME TypeOK, ChipsInv, NEW k \in Keys, Draft(k)
    PROVE  \E batch : Rewrites(k, batch)
<1> USE StoredBatchType
<1>1. /\ OneEach(GetOrCreate(k).selections) /\ OneEach(EnsureDraft(k).selections)
      /\ Existing(k) => OneEach(batches[k].selections)
    BY DEF ChipsInv, GetOrCreate, EnsureDraft, NewBatch, Existing, OneEach
<1>2. ASSUME NEW batch, OneEach(batch.selections), Store(k, batch), UNCHANGED sendVars
      PROVE  \E b : Rewrites(k, b)
    BY <1>2 DEF Rewrites, Store, sendVars
<1>3. CASE Snapshot(k) \/ AttachTooLarge(k)
    BY <1>1, <1>2, <1>3 DEF Snapshot, AttachTooLarge
<1>4. CASE Clear(k)
    <2>1. OneEach(ClearVisualBatch(GetOrCreate(k)).selections)
        BY <1>1, ChipsAfter, WithChipOne DEF ClearVisualBatch
    <2> QED BY <1>2, <1>4, <2>1 DEF Clear
<1>5. ASSUME NEW element \in Elements, Attach(k, element)
      PROVE  \E batch : Rewrites(k, batch)
    <2> DEFINE after == AttachSelection(EnsureDraft(k), element, lastSelectionId + 1)
    <2>1. \E chip : after = ReplaceChip(EnsureDraft(k), chip)
        BY DEF AttachSelection, ReplaceChip
    <2>2. OneEach(after.selections)
        <3> HIDE DEF after
        <3> QED BY <1>1, <2>1, ChipsAfter, WithChipOne
    <2>3. Store(k, after) /\ UNCHANGED sendVars
        BY <1>5 DEF Attach
    <2> HIDE DEF after
    <2> QED BY <1>2, <2>2, <2>3
<1>6. ASSUME NEW id \in SelectionIds, Remove(k, id)
      PROVE  \E batch : Rewrites(k, batch)
    <2>1. OneEach(RemoveSelection(batches[k], id).selections)
        BY <1>1, <1>6, ChipsAfter, WithChipOne DEF Remove
    <2> QED BY <1>2, <1>6, <2>1 DEF Remove
<1>7. ASSUME NEW id, NEW element, NEW changes, ReplaceSelection(k, id, element, changes)
      PROVE  \E batch : Rewrites(k, batch)
    <2> DEFINE chip == [id |-> id, element |-> element, changes |-> changes]
    <2>1. OneEach(ReplaceChip(EnsureDraft(k), chip).selections)
        <3> HIDE DEF chip
        <3> QED BY <1>1, ChipsAfter, WithChipOne
    <2>2. \/ Store(k, ReplaceChip(EnsureDraft(k), chip))
          \/ Store(k, EnsureDraft(k))
        BY <1>7 DEF ReplaceSelection
    <2>3. UNCHANGED sendVars
        BY <1>7 DEF ReplaceSelection
    <2> HIDE DEF chip
    <2> QED BY <1>1, <1>2, <2>1, <2>2, <2>3
<1>8. ASSUME NEW id, NEW element, UpdateChip(k, id, element) \/ UpdateMissing(k, id, element)
      PROVE  \E batch : Rewrites(k, batch)
    BY <1>7, <1>8 DEF UpdateChip, UpdateMissing
<1> QED
    BY <1>3, <1>4, <1>5, <1>6, <1>8 DEF Draft

\* A Send moves its chips along, to the archive or back to the draft.
LEMMA SendChips ==
    ASSUME TypeOK, ChipsInv, NEW k \in Keys, Send(k)
    PROVE  ChipsEffect(k)
<1> USE StoredBatchType
<1>1. /\ OneEach(GetOrCreate(k).selections)
      /\ Existing(k) => OneEach(batches[k].selections) /\ batches[k] \in Batch
    BY DEF ChipsInv, GetOrCreate, NewBatch, Existing, OneEach
<1>2. ASSUME NEW preparing \in Batch, NEW compact, Existing(k),
             OneEach(preparing.selections), preparing.id = batches[k].id,
             AdmitPreparation(k, preparing, compact)
      PROVE  ChipsEffect(k)
    <2>1. /\ AdmitSend(preparing).selections = preparing.selections
          /\ NewBatch(lastBatchId + 1).selections = {}
          /\ AdmitSend(preparing).id = preparing.id
        BY <1>2, ChipsAfter, SendBatchFacts DEF TypeOK
    <2>2. Archives(k, NewBatch(lastBatchId + 1), AdmitSend(preparing))
        BY <1>2, <2>1, WithChipOne DEF Archives, AdmitPreparation, Store
    <2> QED BY <2>2 DEF ChipsEffect
<1>3. ASSUME NEW batch, OneEach(batch.selections), Store(k, batch), UNCHANGED admittedBySession
      PROVE  ChipsEffect(k)
    BY <1>3 DEF ChipsEffect, Rewrites, Store
<1>4. ASSUME Existing(k)
      PROVE  LET next == PrepareBatch(batches[k], lastPreparationId + 1)
             IN  /\ next \in Batch
                 /\ next.selections = batches[k].selections
                 /\ next.id = batches[k].id
    <2>1. batches[k] \in Batch /\ lastPreparationId + 1 \in Nat
        BY <1>1, <1>4 DEF TypeOK
    <2> QED BY <2>1, SendStepsType, SendBatchFacts, ChipsAfter
<1>5. ASSUME NEW expectedRevision, PrepareSend(k, expectedRevision)
      PROVE  ChipsEffect(k)
    <2> DEFINE next == PrepareBatch(batches[k], lastPreparationId + 1)
    <2>1. Existing(k) /\ Store(k, next) /\ UNCHANGED admittedBySession
        BY <1>5 DEF PrepareSend
    <2>2. next.selections = batches[k].selections
        BY <1>4, <2>1
    <2> HIDE DEF next
    <2> QED BY <1>1, <1>3, <2>1, <2>2
<1>6. ASSUME NEW p, NEW admitted \in BOOLEAN, CompleteSend(k, p, admitted)
      PROVE  ChipsEffect(k)
    <2>1. Existing(k)
        BY <1>6 DEF CompleteSend, Awaits
    <2>2. CASE AdmitPreparation(k, batches[k], PinnedContext(batches[k]))
        BY <1>1, <1>2, <2>1, <2>2
    <2>3. CASE RejectPreparation(k, batches[k])
        BY <1>1, <1>3, <2>1, <2>3, ChipsAfter DEF RejectPreparation
    <2> QED BY <1>6, <2>2, <2>3 DEF CompleteSend
<1>7. ASSUME NEW p, NEW admitted, ReplayOutcome(k, p, admitted)
      PROVE  ChipsEffect(k)
    BY <1>1, <1>3, <1>7 DEF ReplayOutcome, sendVars
<1>8. CASE AdmitDraftForTurn(k)
    <2> DEFINE next == PrepareBatch(batches[k], lastPreparationId + 1)
    <2>1. Existing(k)
        BY <1>8 DEF AdmitDraftForTurn
    <2>2. \/ AdmitPreparation(k, next, CompactContext(next))
          \/ AdmitPreparation(k, batches[k], PinnedContext(batches[k]))
        BY <1>8 DEF AdmitDraftForTurn
    <2>3. /\ next \in Batch
          /\ next.selections = batches[k].selections
          /\ next.id = batches[k].id
        BY <1>4, <2>1
    <2> HIDE DEF next
    <2> QED BY <1>1, <1>2, <2>1, <2>2, <2>3
<1> QED
    BY <1>5, <1>6, <1>7, <1>8 DEF Send

\* The tools record and resolve changes, on the batch of a pending Send or on the archive.
LEMMA ToolsChips ==
    ASSUME TypeOK, ChipsInv, NEW k \in Keys, Tools(k)
    PROVE  ChipsEffect(k)
<1> DEFINE context == ActiveContext(k)
<1>1. HasActiveContext(k) => context \in Batch /\ OneEach(context.selections)
    BY StoredBatchType
    DEF ChipsInv, HasActiveContext, WorkingIsActive, ArchiveIsActive, ActiveContext, Existing
<1>2. ASSUME HasActiveContext(k), NEW batch, WriteActiveContext(k, batch),
             OneEach(batch.selections), Elementwise(batch) = Elementwise(context)
      PROVE  ChipsEffect(k)
    <2>1. CASE WorkingIsActive(k)
        BY <1>2, <2>1 DEF WriteActiveContext, ChipsEffect, Rewrites
    <2>2. CASE ~WorkingIsActive(k)
        BY <1>2, <2>2 DEF WriteActiveContext, ChipsEffect, Records, HasActiveContext,
                          ArchiveIsActive, ActiveContext
    <2> QED BY <2>1, <2>2
<1> HIDE DEF context
<1>3. ASSUME HasActiveContext(k), NEW chip \in context.selections, NEW new,
             new.id = chip.id, new.element = chip.element,
             WriteActiveContext(k, ReplaceChip(context, new))
      PROVE  ChipsEffect(k)
    BY <1>1, <1>2, <1>3, RecordingKeepsLines, ChipsAfter, WithChipOne
<1>4. HasActiveContext(k) =>
         \A chip \in context.selections : \A changes :
            /\ [chip EXCEPT !.changes = changes].id = chip.id
            /\ [chip EXCEPT !.changes = changes].element = chip.element
    BY <1>1 DEF Batch, Chip
<1>5. ASSUME NEW id, NEW property, RecordPreviewApply(k, id, property)
      PROVE  ChipsEffect(k)
    <2>1. HasActiveContext(k)
        BY <1>5 DEF RecordPreviewApply
    <2>2. \E chip \in context.selections : \E changes :
             WriteActiveContext(k, ReplaceChip(context, [chip EXCEPT !.changes = changes]))
        BY <1>5 DEF RecordPreviewApply, context
    <2> QED BY <1>3, <1>4, <2>1, <2>2
<1>6. ASSUME NEW id, MarkSelection(k, id)
      PROVE  ChipsEffect(k)
    <2>1. HasActiveContext(k)
        BY <1>6 DEF MarkSelection
    <2>2. \E chip \in context.selections : \E changes :
             WriteActiveContext(k, ReplaceChip(context, [chip EXCEPT !.changes = changes]))
        BY <1>6 DEF MarkSelection, context
    <2> QED BY <1>3, <1>4, <2>1, <2>2
<1>7. ASSUME NEW changeId, MarkChange(k, changeId)
      PROVE  ChipsEffect(k)
    <2>1. HasActiveContext(k) /\ WriteActiveContext(k, ResolveIn(context, changeId))
        BY <1>7 DEF MarkChange, context
    <2> QED BY <1>1, <1>2, <2>1, ResolvingKeepsLines
<1> QED
    BY <1>5, <1>6, <1>7 DEF Tools

\* Every step has one of these effects.
LEMMA StepChips ==
    ASSUME TypeOK, ChipsInv, [Next]_vars
    PROVE  \E k : ChipsEffect(k)
<1>1. ASSUME NEW k \in Keys, Draft(k) \/ Send(k) \/ Tools(k)
      PROVE  ChipsEffect(k)
    BY <1>1, DraftChips, SendChips, ToolsChips DEF ChipsEffect
<1>2. ASSUME NEW s \in SessionKeys, Cleanup(s)
      PROVE  \E k : ChipsEffect(k)
    BY <1>2 DEF Cleanup, DeleteSession, ChipsEffect, Forgets, vars
<1>3. CASE UNCHANGED vars
    BY <1>3 DEF vars, ChipsEffect
<1> QED
    BY <1>1, <1>2, <1>3 DEF Next

ElementsStay ==
    \A k \in DOMAIN admittedBySession \cap DOMAIN admittedBySession' :
        admittedBySession'[k].id = admittedBySession[k].id =>
            Elementwise(admittedBySession'[k]) = Elementwise(admittedBySession[k])

\* A session's next archive is another batch than its last, which was handed over.
LEMMA StepKeepsElements ==
    ASSUME TypeOK, ChipsInv, ArchiveWasHandedOver, BatchIdInv, [Next]_vars
    PROVE  ChipsInv' /\ ElementsStay
<1>1. ASSUME NEW k, NEW batch, Rewrites(k, batch)
      PROVE  ChipsInv' /\ ElementsStay
    BY <1>1 DEF Rewrites, ChipsInv, ElementsStay, MapSet
<1>2. ASSUME NEW k, NEW batch, NEW archive, Archives(k, batch, archive)
      PROVE  ChipsInv' /\ ElementsStay
    <2>1. k \in DOMAIN admittedBySession => admittedBySession[k].id # batches[k].id
        BY <1>2 DEF Archives, ArchiveWasHandedOver, BatchIdInv, Admitted, Existing
    <2>2. ChipsInv'
        BY <1>2 DEF Archives, ChipsInv, MapSet
    <2>3. ElementsStay
        BY <1>2, <2>1 DEF Archives, ElementsStay, MapSet
    <2> QED BY <2>2, <2>3
<1>3. ASSUME NEW k, NEW archive, Records(k, archive)
      PROVE  ChipsInv' /\ ElementsStay
    BY <1>3 DEF Records, ChipsInv, ElementsStay, MapSet
<1>4. ASSUME NEW k, Forgets(k)
      PROVE  ChipsInv' /\ ElementsStay
    BY <1>4 DEF Forgets, ChipsInv, ElementsStay, MapDelete
<1>5. CASE UNCHANGED <<batches, admittedBySession>>
    BY <1>5 DEF ChipsInv, ElementsStay
<1> QED
    BY <1>1, <1>2, <1>3, <1>4, <1>5, StepChips DEF ChipsEffect

\* In no batch do two elements share a chip's id.
THEOREM ChipsApart == Spec => []ChipsInv
<1>1. Init => ChipsInv
    BY DEF Init, ChipsInv, EmptyMap
<1>2. TypeOK /\ ChipsInv /\ ArchiveWasHandedOver /\ BatchIdInv /\ [Next]_vars => ChipsInv'
    BY StepKeepsElements
<1> QED
    BY <1>1, <1>2, TypeCorrect, ArchiveHandedOver, BatchIdsApart, PTL DEF Spec

\* The elements a Send handed over stay as they were as long as its archive is there:
\* tools record and resolve changes on them, but add, drop or exchange none.
THEOREM ArchiveStays == Spec => ArchiveKeepsItsElements
<1>1. TypeOK /\ ChipsInv /\ ArchiveWasHandedOver /\ BatchIdInv /\ [Next]_vars
          => [ElementsStay]_vars
    BY StepKeepsElements
<1>2. [][ElementsStay]_vars => ArchiveKeepsItsElements
    BY PTL DEF ElementsStay, ArchiveKeepsItsElements
<1> QED
    BY <1>1, <1>2, TypeCorrect, ChipsApart, ArchiveHandedOver, BatchIdsApart, PTL DEF Spec

-------------------------------------------------------------------------------
(* How a pending Send ends                                                 *)

\* No drafting or tool call takes a batch out of preparing: a pending Send
\* leaves only with an outcome or with its session.
THEOREM PendingEndsProperly == Spec => PendingSendEndsProperly
<1> DEFINE Properly == \A k \in DOMAIN batches, p \in PreparationIds :
                          Awaits(k, p) => \/ Awaits(k, p)'
                                          \/ p \in DOMAIN completedOutcomes'
                                          \/ k \notin DOMAIN batches'
<1>1. TypeOK /\ SendInv /\ [Next]_vars => Properly
    <2> SUFFICES ASSUME TypeOK, SendInv, [Next]_vars PROVE Properly
        OBVIOUS
    <2>1. ASSUME NEW q \in Keys, NEW batch, Edited(q, batch)
          PROVE  Properly
        BY <2>1 DEF Edited, SameSend, MapSet, Awaits, Existing, GetOrCreate
    <2>2. ASSUME NEW q \in Keys, NEW batch, NEW text, Opened(q, batch, text)
          PROVE  Properly
        BY <2>2 DEF Opened, MapSet, Awaits, Existing
    <2>3. ASSUME NEW q \in Keys, NEW batch, NEW outcome, Settled(q, batch, outcome)
          PROVE  Properly
        BY <2>3 DEF Settled, MapSet, Awaits, Existing, Preparing
    <2>4. ASSUME NEW q \in Keys, NEW batch, NEW outcome, AdmittedAtOnce(q, batch, outcome)
          PROVE  Properly
        BY <2>4 DEF AdmittedAtOnce, MapSet, Awaits, Existing
    <2>5. ASSUME NEW q \in Keys, Dropped(q)
          PROVE  Properly
        BY <2>5 DEF Dropped, MapDelete, Awaits, Existing
    <2>6. ASSUME Idle
          PROVE  Properly
        BY <2>6 DEF Idle, sendState, Awaits, Existing
    <2> QED
        BY <2>1, <2>2, <2>3, <2>4, <2>5, <2>6, StepEffect DEF Effect
<1>2. TypeOK /\ SendInv /\ [Next]_vars => [Properly]_vars
    BY <1>1
<1> QED
    BY <1>2, SendInvariant, TypeCorrect, PTL DEF Spec, PendingSendEndsProperly

-------------------------------------------------------------------------------
(* The store implements SendContract                                       *)

Fate == [p \in PreparationIds |-> FateOf(p)]

\* The next preparation id has no pinned text and no outcome.
LEMMA FreshIsUnused ==
    ASSUME TypeOK, SendInv
    PROVE  /\ lastPreparationId + 1 \notin DOMAIN completedOutcomes
           /\ lastPreparationId + 1 \notin DOMAIN pendingCompact
           /\ ~(lastPreparationId + 1 <= lastPreparationId)
<1>1. lastPreparationId \in Nat
    BY DEF TypeOK
<1>2. \A k \in Keys : Preparing(k) => /\ batches[k].preparationId \in Nat
                                      /\ batches[k].preparationId <= lastPreparationId
    BY DEF SendInv, Preparing, Existing, TypeOK, IsMap, Batch
<1> QED
    BY <1>1, <1>2 DEF SendInv, PendingIffAwaited

\* What SendContract sees of a session and its preparation.
LEMMA OpenFacts ==
    ASSUME TypeOK, SendInv, NEW k \in Keys
    PROVE  /\ OpenPreparation \in [Keys -> Nat]
           /\ OpenPreparation[k] =
                IF Preparing(k) THEN batches[k].preparationId ELSE 0
           /\ OpenPreparation[k] # 0 <=> Preparing(k)
           /\ Preparing(k) => /\ batches[k].preparationId \in DOMAIN pendingCompact
                              /\ batches[k].preparationId \notin DOMAIN completedOutcomes
                              /\ batches[k].preparationId \in 1 .. lastPreparationId
<1>1. \A j \in Keys : Preparing(j) => batches[j].preparationId \in Nat
    BY DEF Preparing, Existing, TypeOK, IsMap, Batch
<1>2. Preparing(k) => /\ batches[k].preparationId # 0
                      /\ batches[k].preparationId <= lastPreparationId
    BY DEF SendInv, PendingIffAwaited, Preparing, Existing, NoPreparation
<1>3. lastPreparationId \in Nat
    BY DEF TypeOK
<1>4. Preparing(k) => /\ batches[k].preparationId \in DOMAIN pendingCompact
                      /\ batches[k].preparationId \notin DOMAIN completedOutcomes
    BY DEF SendInv, PendingIffAwaited
<1> QED
    BY <1>1, <1>2, <1>3, <1>4 DEF OpenPreparation

\* An edit is invisible to SendContract.
LEMMA EditedStutters ==
    ASSUME TypeOK, SendInv, NEW k \in Keys, NEW batch, Edited(k, batch)
    PROVE  UNCHANGED <<OpenPreparation, Fate>>
<1>1. /\ batches'[k] = batch
      /\ k \in DOMAIN batches'
      /\ \A j \in Keys \ {k} : /\ j \in DOMAIN batches' <=> j \in DOMAIN batches
                               /\ j \in DOMAIN batches => batches'[j] = batches[j]
    BY DEF Edited, MapSet
<1>2. /\ batch.state = "preparing" <=> Preparing(k)
      /\ Preparing(k) => batch.preparationId = batches[k].preparationId
    BY DEF Edited, SameSend, GetOrCreate, NewBatch, Preparing, Existing
<1>3. \A j \in Keys :
          /\ Preparing(j)' <=> Preparing(j)
          /\ Preparing(j) => batches'[j].preparationId = batches[j].preparationId
    BY <1>1, <1>2 DEF Preparing, Existing
<1>4. OpenPreparation' = OpenPreparation
    BY <1>3 DEF OpenPreparation
<1>5. Fate' = Fate
    BY DEF Fate, FateOf, Edited
<1> QED
    BY <1>4, <1>5

\* Opening a preparation is SendContract's Prepare.
LEMMA OpenedPrepares ==
    ASSUME TypeOK, SendInv, NEW k \in Keys, NEW batch, NEW text,
           Opened(k, batch, text)
    PROVE  Contract!Prepare(k, lastPreparationId + 1)
<1> DEFINE p == lastPreparationId + 1
<1>1. lastPreparationId \in Nat /\ p \in PreparationIds
    BY BoundsAssumption DEF Opened, TypeOK, PreparationIds
<1>2. OpenPreparation[k] = 0
    BY OpenFacts DEF Opened, Preparing
<1>3. Fate[p] = "unused"
    BY <1>1, FreshIsUnused DEF Fate, FateOf
<1>4. /\ batches'[k] = batch
      /\ k \in DOMAIN batches'
      /\ \A j \in Keys \ {k} : /\ j \in DOMAIN batches' <=> j \in DOMAIN batches
                               /\ j \in DOMAIN batches => batches'[j] = batches[j]
    BY DEF Opened, MapSet
<1>5. OpenPreparation' = [OpenPreparation EXCEPT ![k] = p]
    BY <1>4 DEF OpenPreparation, Preparing, Existing, Opened
<1>6. Fate' = [Fate EXCEPT ![p] = "open"]
    <2>1. /\ DOMAIN pendingCompact' = DOMAIN pendingCompact \cup {p}
          /\ completedOutcomes' = completedOutcomes
          /\ lastPreparationId' = p
        BY DEF Opened, MapSet
    <2>2. \A q \in PreparationIds : q = p => FateOf(q)' = "open"
        BY <2>1, FreshIsUnused DEF FateOf
    <2>3. \A q \in PreparationIds : q # p => FateOf(q)' = FateOf(q)
        BY <1>1, <2>1 DEF FateOf, PreparationIds
    <2> QED BY <2>2, <2>3 DEF Fate
<1> QED
    BY <1>2, <1>3, <1>5, <1>6 DEF Contract!Prepare, Fate

\* Completing a Send is SendContract's Settle.
LEMMA SettledSettles ==
    ASSUME TypeOK, SendInv, NEW k \in Keys, NEW batch, NEW outcome,
           Settled(k, batch, outcome)
    PROVE  \E verdict \in {"admitted", "rejected"} : Contract!Settle(k, verdict)
<1> DEFINE p       == batches[k].preparationId
           verdict == IF outcome.admitted THEN "admitted" ELSE "rejected"
<1>1. OpenPreparation[k] = p /\ p # 0
    BY OpenFacts DEF Settled
<1>2. /\ batches'[k] = batch
      /\ k \in DOMAIN batches'
      /\ \A j \in Keys \ {k} : /\ j \in DOMAIN batches' <=> j \in DOMAIN batches
                               /\ j \in DOMAIN batches => batches'[j] = batches[j]
    BY DEF Settled, MapSet
<1>3. OpenPreparation' = [OpenPreparation EXCEPT ![k] = 0]
    BY <1>2 DEF OpenPreparation, Preparing, Existing, Settled, IsDraft
<1>4. Fate' = [Fate EXCEPT ![p] = verdict]
    <2>1. /\ DOMAIN pendingCompact' = DOMAIN pendingCompact \ {p}
          /\ DOMAIN completedOutcomes' = DOMAIN completedOutcomes \cup {p}
          /\ completedOutcomes'[p] = outcome
          /\ \A q \in DOMAIN completedOutcomes :
                q # p => completedOutcomes'[q] = completedOutcomes[q]
          /\ lastPreparationId' = lastPreparationId
        BY DEF Settled, MapSet, MapDelete
    <2>2. \A q \in PreparationIds : q = p => FateOf(q)' = verdict
        BY <2>1 DEF FateOf
    <2>3. \A q \in PreparationIds : q # p => FateOf(q)' = FateOf(q)
        BY <2>1 DEF FateOf
    <2> QED BY <2>2, <2>3 DEF Fate
<1>5. verdict \in {"admitted", "rejected"}
    OBVIOUS
<1>6. Contract!Settle(k, verdict)
    BY <1>1, <1>3, <1>4, <1>5 DEF Contract!Settle, Fate
<1> QED
    BY <1>5, <1>6

\* Admitting a draft for a turn is SendContract's AdmitAtOnce.
LEMMA AtOnceAdmits ==
    ASSUME TypeOK, SendInv, NEW k \in Keys, NEW batch, NEW outcome,
           AdmittedAtOnce(k, batch, outcome)
    PROVE  Contract!AdmitAtOnce(k, lastPreparationId + 1)
<1> DEFINE p == lastPreparationId + 1
<1>1. lastPreparationId \in Nat /\ p \in PreparationIds
    BY BoundsAssumption DEF AdmittedAtOnce, TypeOK, PreparationIds
<1>2. OpenPreparation[k] = 0
    BY OpenFacts DEF AdmittedAtOnce, Preparing
<1>3. Fate[p] = "unused"
    BY <1>1, FreshIsUnused DEF Fate, FateOf
<1>4. /\ batches'[k] = batch
      /\ k \in DOMAIN batches'
      /\ \A j \in Keys \ {k} : /\ j \in DOMAIN batches' <=> j \in DOMAIN batches
                               /\ j \in DOMAIN batches => batches'[j] = batches[j]
    BY DEF AdmittedAtOnce, MapSet
<1>5. OpenPreparation' = OpenPreparation
    BY <1>4 DEF OpenPreparation, Preparing, Existing, AdmittedAtOnce, IsDraft
<1>6. Fate' = [Fate EXCEPT ![p] = "admitted"]
    <2>1. /\ DOMAIN pendingCompact' = DOMAIN pendingCompact \ {p}
          /\ DOMAIN completedOutcomes' = DOMAIN completedOutcomes \cup {p}
          /\ completedOutcomes'[p] = outcome
          /\ \A q \in DOMAIN completedOutcomes :
                q # p => completedOutcomes'[q] = completedOutcomes[q]
          /\ lastPreparationId' = p
        BY DEF AdmittedAtOnce, MapSet, MapDelete
    <2>2. \A q \in PreparationIds : q = p => FateOf(q)' = "admitted"
        BY <2>1 DEF FateOf, AdmittedAtOnce
    <2>3. \A q \in PreparationIds : q # p => FateOf(q)' = FateOf(q)
        BY <1>1, <2>1 DEF FateOf, PreparationIds
    <2> QED BY <2>2, <2>3 DEF Fate
<1> QED
    BY <1>2, <1>3, <1>5, <1>6 DEF Contract!AdmitAtOnce, Fate

\* Dropping a session settles its preparation as dropped, or is invisible.
LEMMA DroppedDrops ==
    ASSUME TypeOK, SendInv, NEW k \in Keys, Dropped(k)
    PROVE  Contract!Settle(k, "dropped") \/ UNCHANGED <<OpenPreparation, Fate>>
<1> DEFINE p == batches[k].preparationId
<1>1. /\ k \notin DOMAIN batches'
      /\ \A j \in Keys \ {k} : /\ j \in DOMAIN batches' <=> j \in DOMAIN batches
                               /\ j \in DOMAIN batches => batches'[j] = batches[j]
      /\ DOMAIN pendingCompact' = DOMAIN pendingCompact \ {p}
      /\ DOMAIN completedOutcomes' = DOMAIN completedOutcomes \ {p}
      /\ \A q \in DOMAIN completedOutcomes :
            q # p => completedOutcomes'[q] = completedOutcomes[q]
      /\ lastPreparationId' = lastPreparationId
    BY DEF Dropped, MapDelete
<1>2. \A q \in PreparationIds : q # p => FateOf(q)' = FateOf(q)
    BY <1>1 DEF FateOf
<1>3. CASE Preparing(k)
    <2>1. OpenPreparation[k] = p /\ p # 0
        BY <1>3, OpenFacts
    <2>2. OpenPreparation' = [OpenPreparation EXCEPT ![k] = 0]
        BY <1>1 DEF OpenPreparation, Preparing, Existing
    <2>3. p <= lastPreparationId
        BY <1>3, OpenFacts DEF TypeOK
    <2>4. \A q \in PreparationIds : q = p => FateOf(q)' = "dropped"
        BY <1>1, <2>3 DEF FateOf
    <2>5. Fate' = [Fate EXCEPT ![p] = "dropped"]
        BY <1>2, <2>4 DEF Fate
    <2> QED
        BY <2>1, <2>2, <2>5 DEF Contract!Settle, Fate
<1>4. CASE ~Preparing(k)
    <2>1. p = 0
        BY <1>4 DEF SendInv, PendingIffAwaited, Dropped, Existing, NoPreparation
    <2>2. OpenPreparation' = OpenPreparation
        BY <1>1, <1>4 DEF OpenPreparation, Preparing, Existing
    <2>3. Fate' = Fate
        BY <1>2, <2>1 DEF Fate, PreparationIds
    <2> QED
        BY <2>2, <2>3
<1> QED
    BY <1>3, <1>4

\* Every behaviour of the store is a behaviour of SendContract: a preparation
\* is consumed once and a session has at most one open.
THEOREM StoreKeepsContract == Spec => KeepsSendContract
<1>1. Init => Contract!Init
    <2> SUFFICES ASSUME Init PROVE Contract!Init
        OBVIOUS
    <2>1. OpenPreparation = [k \in Keys |-> 0]
        BY EmptyIsMap DEF Init, OpenPreparation, Preparing, Existing
    <2>2. \A p \in PreparationIds : FateOf(p) = "unused"
        BY EmptyIsMap DEF Init, FateOf, PreparationIds
    <2> QED
        BY <2>1, <2>2 DEF Contract!Init, Contract!Preparations, PreparationIds
<1>2. TypeOK /\ SendInv /\ [Next]_vars => [Contract!Next]_(Contract!vars)
    <2> SUFFICES ASSUME TypeOK, SendInv, [Next]_vars
                 PROVE  Contract!Next \/ UNCHANGED <<OpenPreparation, Fate>>
        BY DEF Contract!vars, Fate
    <2>1. CASE Idle
        BY <2>1 DEF Idle, sendState, OpenPreparation, Preparing, Existing, Fate, FateOf
    <2>2. ASSUME NEW k \in Keys, Effect(k)
          PROVE  Contract!Next \/ UNCHANGED <<OpenPreparation, Fate>>
        <3>1. ASSUME NEW batch, NEW text, Opened(k, batch, text)
              PROVE  Contract!Next
            <4>1. lastPreparationId + 1 \in Contract!Preparations
                BY <3>1, BoundsAssumption DEF Opened, TypeOK, Contract!Preparations
            <4> QED BY <3>1, <4>1, OpenedPrepares DEF Contract!Next
        <3>2. ASSUME NEW batch, NEW outcome, AdmittedAtOnce(k, batch, outcome)
              PROVE  Contract!Next
            <4>1. lastPreparationId + 1 \in Contract!Preparations
                BY <3>2, BoundsAssumption DEF AdmittedAtOnce, TypeOK, Contract!Preparations
            <4> QED BY <3>2, <4>1, AtOnceAdmits DEF Contract!Next
        <3>3. ASSUME NEW batch, NEW outcome, Settled(k, batch, outcome)
              PROVE  Contract!Next
            BY <3>3, SettledSettles DEF Contract!Next
        <3>4. CASE Dropped(k)
            BY <3>4, DroppedDrops DEF Contract!Next
        <3> QED
            BY <2>1, <2>2, <3>1, <3>2, <3>3, <3>4, EditedStutters DEF Effect
    <2> QED
        BY <2>1, <2>2, StepEffect
<1> QED
    BY <1>1, <1>2, SendInvariant, TypeCorrect, PTL
    DEF Spec, KeepsSendContract, Contract!Spec

===============================================================================
