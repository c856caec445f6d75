----------------------------- MODULE VisualBatch ------------------------------
(***************************************************************************)
(* The VisualBatch value of packages/core: its state machine, the admission *)
(* and deduplication of selections ("chips") and the changes recorded on a  *)
(* chip.  Everything here is a pure function of a batch, as in the source;  *)
(* the stores that hold batches are in BatchStore.                          *)
(*                                                                         *)
(* A selection is reduced to its id, its stable identity (tag + selector +  *)
(* text, one member of Elements) and its changes.  Ids are minted in        *)
(* increasing order, so the order of batch.selections is the order of ids   *)
(* and a set carries the same information as the array.                     *)
(***************************************************************************)
EXTENDS Naturals, FiniteSets

CONSTANTS
    Elements,    \* stable identities a selection can have
    Properties,  \* CSS properties a change can be about
    MaxChips     \* MAX_CHIPS_PER_DRAFT

ASSUME MaxChipsAssumption == MaxChips \in Nat \ {0}

States == {"draft", "preparing", "sent", "cleared", "expired"}

AllowedTransitions ==
    [draft     |-> {"preparing", "cleared", "expired"},
     preparing |-> {"sent", "draft", "expired"},
     sent      |-> {"expired"},
     cleared   |-> {},
     expired   |-> {}]

\* A change is open while its status is pending or in_progress.
Change == [id : Nat, property : Properties, open : BOOLEAN]

Chip == [id : Nat, element : Elements, changes : SUBSET Change]

\* preparationId is absent outside a Send; 0 is "absent", ids start at 1.
NoPreparation == 0

Batch == [id            : Nat,
          state         : States,
          revision      : Nat,
          preparationId : Nat,
          selections    : SUBSET Chip]

NewBatch(id) ==
    [id            |-> id,
     state         |-> "draft",
     revision      |-> 0,
     preparationId |-> NoPreparation,
     selections    |-> {}]

ChipIds(batch) == {chip.id : chip \in batch.selections}

-------------------------------------------------------------------------------
(* Transitions                                                             *)

Touch(batch) == [batch EXCEPT !.revision = @ + 1]

\* assertTransition throws where this is FALSE.
CanTransition(batch, to) == to \in AllowedTransitions[batch.state]

Transition(batch, to) ==
    Touch([batch EXCEPT
             !.state      = to,
             !.selections = IF to = "cleared" THEN {} ELSE @])

\* The array filter by id, and the array with one element replaced in place.
WithoutChip(chips, id) == {chip \in chips : chip.id # id}

WithChip(chips, chip) == WithoutChip(chips, chip.id) \cup {chip}

-------------------------------------------------------------------------------
(* Attaching and removing chips                                            *)

\* findIndex by stable identity: the first of the chips in id order.
TwinsOf(batch, element) ==
    {chip \in batch.selections : chip.element = element}

FirstTwin(batch, element) ==
    CHOOSE chip \in TwinsOf(batch, element) :
        \A other \in TwinsOf(batch, element) : chip.id <= other.id

\* attachSelection accepts only a draft, and a new identity only below the
\* limit: the lookup of a twin comes before the limit.
CanAttach(batch, element) ==
    /\ batch.state = "draft"
    /\ \/ TwinsOf(batch, element) # {}
       \/ Cardinality(batch.selections) < MaxChips

AttachSelection(batch, element, newId) ==
    LET twin == FirstTwin(batch, element)
        chip == IF TwinsOf(batch, element) # {}
                THEN twin
                ELSE [id |-> newId, element |-> element, changes |-> {}]
    IN  Touch([batch EXCEPT !.selections = WithChip(@, chip)])

RemoveSelection(batch, id) ==
    Touch([batch EXCEPT !.selections = WithoutChip(@, id)])

\* store.replaceSelection on a chip that is present.
ReplaceChip(batch, chip) ==
    Touch([batch EXCEPT !.selections = WithChip(@, chip)])

\* Mutant: the transition table lets a preparing batch be cleared.
CanClearPreparing(batch) == batch.state \in {"draft", "preparing", "cleared"}

\* clearVisualBatch's own list of states admits a preparing batch; the
\* transition it then asks for does not.
CanClear(batch) ==
    \/ batch.state = "cleared"
    \/ /\ batch.state \in {"draft", "preparing"}
       /\ CanTransition(batch, "cleared")

ClearVisualBatch(batch) ==
    IF batch.state = "cleared" THEN batch ELSE Transition(batch, "cleared")

-------------------------------------------------------------------------------
(* Send                                                                    *)

PrepareBatch(batch, preparationId) ==
    [Transition(batch, "preparing") EXCEPT !.preparationId = preparationId]

AdmitSend(batch) ==
    [Transition(batch, "sent") EXCEPT !.preparationId = NoPreparation]

RejectSend(batch) ==
    [Transition(batch, "draft") EXCEPT !.preparationId = NoPreparation]

\* buildCompactNextTurnContext: the batch it names and one line per chip with
\* the chip's id and label.  Changes, DOM and screenshots are not in the text.
CompactLine(chip) == [id |-> chip.id, element |-> chip.element]

Compact == [batch : Nat, lines : SUBSET [id : Nat, element : Elements]]

CompactContext(batch) ==
    [batch |-> batch.id, lines |-> {CompactLine(c) : c \in batch.selections}]

-------------------------------------------------------------------------------
(* Changes on a chip                                                       *)

UpsertChange(changes, change) ==
    {c \in changes : c.id # change.id} \cup {change}

\* upsertStylePreviewChange: an open change of the same property is reused,
\* otherwise a change with a fresh id is appended.
UpsertStylePreview(changes, property, newId) ==
    LET same == {c \in changes : c.property = property /\ c.open}
    IN  IF same # {}
        THEN changes
        ELSE UpsertChange(changes,
                          [id |-> newId, property |-> property, open |-> TRUE])

MarkChangeResolved(changes, id) ==
    {IF c.id = id THEN [c EXCEPT !.open = FALSE] ELSE c : c \in changes}

MarkAllChangesResolved(changes) ==
    {[c EXCEPT !.open = FALSE] : c \in changes}

===============================================================================
