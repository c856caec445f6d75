---------------------------- MODULE ChangeTracker ----------------------------
(***************************************************************************)
(* The change tracker of the side panel (editor/change-tracker.ts): the list *)
(* of preview changes with its undo and redo stacks.  A tracker is a value,  *)
(* every method an operator from trackers to trackers; what a method returns *)
(* for the page is given by UndoEffect and RedoEffect.                       *)
(*                                                                         *)
(* A target is a style property, the text of the element or its comment: a   *)
(* target stands for the kind and the property of a change.                  *)
(***************************************************************************)
EXTENDS Naturals, Sequences, SequencesExt

CONSTANTS
    Styles,   \* style properties that are edited
    Values    \* values typed by the user or sent by the agent

Empty == ""                \* no inline value, or no text
Undefined == "undefined"   \* a field that is not there

ASSUME ValuesAssumption == Empty \notin Values /\ Undefined \notin Values

ASSUME StylesAssumption == "text" \notin Styles /\ "comment" \notin Styles

Targets == Styles \cup {"text", "comment"}

\* The effect of a call that has none: undefined, or nothing to send.  The effect of a
\* clear has the list as it was: what counts of it for panel and worker is pending.
NoEffect == [type |-> "nothing"]

NewTracker == [changes |-> <<>>, undo |-> <<>>, redo |-> <<>>, lastId |-> 0]

Indexes(t, id) == {i \in DOMAIN t.changes : t.changes[i].id = id}

\* Where the list has pending changes of a target.
PendingAt(list, target) ==
    {i \in DOMAIN list : list[i].target = target /\ list[i].status = "pending"}

Upsert(list, change) ==
    IF \E i \in DOMAIN list : list[i].id = change.id
    THEN [i \in DOMAIN list |-> IF list[i].id = change.id THEN change ELSE list[i]]
    ELSE Append(list, change)

\* The ids of a list differ, so the filter takes one change away at most.
Without(list, id) ==
    IF \E i \in DOMAIN list : list[i].id = id
    THEN RemoveAt(list, CHOOSE i \in DOMAIN list : list[i].id = id)
    ELSE list

AllReverted(list) ==
    [i \in DOMAIN list |-> IF list[i].status = "pending"
                           THEN [list[i] EXCEPT !.status = "reverted"] ELSE list[i]]

\* Mutant: an edit does not forget what was undone before it.
DoKeepingRedo(t, action, list) ==
    [t EXCEPT !.changes = list, !.undo = Append(@, action)]

Do(t, action, list) ==
    [t EXCEPT !.changes = list, !.undo = Append(@, action), !.redo = <<>>]

\* The change an edit makes: a pending change of the target is edited again
\* under its id and with the old value it has.
EditedChange(t, target, old, new) ==
    LET found == PendingAt(t.changes, target)
        first == t.changes[Min(found)]
    IN  [id     |-> IF found = {} THEN t.lastId + 1 ELSE first.id,
         target |-> target,
         old    |-> IF found = {} THEN old ELSE first.old,
         new    |-> new,
         status |-> "pending"]

\* applyStyle, applyText and applyComment.
TrackEdit(t, target, old, new) ==
    LET change == EditedChange(t, target, old, new)
    IN  [Do(t, [type |-> "apply", change |-> change], Upsert(t.changes, change))
           EXCEPT !.lastId = IF change.id > @ THEN change.id ELSE @]

SetOldValue(t, id, old) ==
    LET entries == {i \in DOMAIN t.undo :
                      t.undo[i].type = "apply" /\ t.undo[i].change.id = id}
        latest  == CHOOSE i \in entries : \A j \in entries : j <= i
    IN  IF Indexes(t, id) = {} THEN t
        ELSE [t EXCEPT
                !.changes = [i \in DOMAIN @ |-> IF @[i].id = id
                                                THEN [@[i] EXCEPT !.old = old] ELSE @[i]],
                !.undo = IF entries = {} THEN @ ELSE [@ EXCEPT ![latest].change.old = old]]

CanRevert(t, id) == \E i \in Indexes(t, id) : t.changes[i].status # "reverted"

TrackRevert(t, id) ==
    LET i == CHOOSE j \in Indexes(t, id) : TRUE
        before == t.changes[i]
    IN  Do(t, [type |-> "revert", change |-> before],
           [t.changes EXCEPT ![i].status = "reverted"])

TrackClear(t) ==
    IF t.changes = <<>> THEN t
    ELSE Do(t, [type |-> "clear", before |-> t.changes], AllReverted(t.changes))

\* Mutant: a revert taken back leaves the change reverted.
UndoneKeepingReverts(list, action) ==
    CASE action.type = "apply"  -> Without(list, action.change.id)
      [] action.type = "revert" -> list
      [] action.type = "clear"  -> action.before

\* What the tracker lists once an action has been taken back.
Undone(list, action) ==
    CASE action.type = "apply"  -> Without(list, action.change.id)
      [] action.type = "revert" -> IF \E i \in DOMAIN list : list[i].id = action.change.id
                                   THEN Upsert(list, action.change) ELSE list
      [] action.type = "clear"  -> action.before

TrackUndo(t) ==
    LET action == Last(t.undo)
    IN  [t EXCEPT !.undo = Front(@), !.redo = Append(@, action),
                  !.changes = Undone(@, action)]

UndoEffect(t) ==
    LET action == Last(t.undo)
    IN  CASE action.type = "apply"  ->
               [type |-> "revert", change |-> [action.change EXCEPT !.status = "reverted"]]
          [] action.type = "revert" -> [type |-> "edit", change |-> action.change]
          [] action.type = "clear"  -> [type |-> "clear", changes |-> action.before]

\* What the tracker lists once an action has been taken (again).
Redone(list, action) ==
    CASE action.type = "apply"  -> Upsert(list, action.change)
      [] action.type = "revert" -> IF \E i \in DOMAIN list : list[i].id = action.change.id
                                   THEN Upsert(list, [action.change EXCEPT !.status = "reverted"])
                                   ELSE list
      [] action.type = "clear"  -> AllReverted(action.before)

TrackRedo(t) ==
    LET action == Last(t.redo)
    IN  [t EXCEPT !.redo = Front(@), !.undo = Append(@, action),
                  !.changes = Redone(@, action)]

RedoEffect(t) ==
    LET action == Last(t.redo)
    IN  CASE action.type = "apply"  -> [type |-> "edit", change |-> action.change]
          [] action.type = "revert" /\ Indexes(t, action.change.id) # {} ->
               [type |-> "revert", change |-> [action.change EXCEPT !.status = "reverted"]]
          [] action.type = "revert" /\ Indexes(t, action.change.id) = {} -> NoEffect
          [] action.type = "clear"  -> [type |-> "clear", changes |-> action.before]

===============================================================================
