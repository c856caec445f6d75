------------------------------ MODULE PanelEdits ------------------------------
(***************************************************************************)
(* Editing a selected element from the side panel.  The panel's handlers     *)
(* (sidepanel.ts) change the tracker at once and send a message; the service *)
(* worker (service-worker.ts) takes the messages in order, has the content   *)
(* script change the page of the active tab, and pushes the change to the    *)
(* gateway.  The design form sends one message per field and waits for each  *)
(* answer; the other buttons do not, so clicks come between its steps, also   *)
(* another one on Apply.                                                      *)
(*                                                                         *)
(* The circumstances of a behaviour are fixed when it starts:                *)
(***************************************************************************)
EXTENDS PagePreview, Maps

CONSTANTS
    Scenarios,     \* sets of circumstances to examine
    FormFields,    \* the fields of the design form, in the order they are sent
    SelectionTab,  \* tab and
    SelectorOf,    \* selector of each agent selection
    MaxClicks      \* bound: clicks of the user and previews of the agent, per set

Circumstances ==
    {"styled",      \* the page has inline values of its own
     "text",        \* texts are edited
     "again",       \* a target is edited again while its change is pending
     "unclear",     \* Clear all is taken back
     "reselect",    \* another element is selected
     "switch",      \* another tab becomes active
     "gone",        \* an element is replaced and its selector finds nothing
     "unreachable", \* the content script of the active tab does not answer
     "offline",     \* the bridge loses its connection
     "refused",     \* the gateway refuses an update: its chip is local, sent or another chat's
     "sourced",     \* the chip has a source, which the gateway looks up in every update
     "agent",       \* the agent previews styles too
     "moved",       \* a selection of the agent gets another selector
     "shared"}      \* several selections of the agent share an element

ASSUME PanelAssumption ==
    /\ Scenarios \subseteq SUBSET Circumstances
    /\ FormFields \in Seq(Targets) /\ Range(FormFields) = Targets
    /\ SelectionTab \in [Selections -> Tabs]
    /\ SelectorOf \in [Selections -> Selectors]
    /\ MaxClicks \in [Scenarios -> Nat]

VARIABLES
    scenario,   \* the circumstances of this behaviour
    tracker,
    selected,   \* selector of the selection the panel shows
    activeTab,
    designs,    \* forms being sent: number -> the fields that are left and the one sent last
    queue,      \* messages on their way from the panel to the worker
    online,     \* the bridge is connected
    gateway,    \* <<selector, change id>> -> what the gateway has of it
    updates,    \* updates that wait for the source: the changes they will write
    merged,     \* history: some edit met a pending change of its target
    clicks

panelVars ==
    <<scenario, tracker, selected, activeTab, designs, queue, online, gateway, updates,
      merged, clicks>>
vars == <<pageVars, panelVars>>

\* In a message: nobody waits for its answer.
NoForm == 0

Clicked == clicks < MaxClicks[scenario] /\ clicks' = clicks + 1

-------------------------------------------------------------------------------
(* The side panel                                                          *)

\* What applyDesign reads from the form: at most one value per field.
Forms ==
    {form \in UNION {[S -> Values] : S \in SUBSET Targets} :
        /\ form # EmptyMap
        /\ "text" \in scenario \/ "text" \notin DOMAIN form
        /\ "again" \in scenario \/ \A f \in DOMAIN form : PendingAt(tracker.changes, f) = {}}

FirstField(form) ==
    FormFields[CHOOSE i \in DOMAIN FormFields :
                 /\ FormFields[i] \in DOMAIN form
                 /\ \A j \in DOMAIN FormFields : FormFields[j] \in DOMAIN form => i <= j]

\* One field of form n: the change is tracked and sent.  The old value is not known
\* yet and given as empty.
SendField(n, t, form, selector) ==
    LET field  == FirstField(form)
        change == EditedChange(t, field, Empty, form[field])
    IN  /\ tracker' = TrackEdit(t, field, Empty, form[field])
        /\ queue' = Append(queue, [type |-> "edit", selector |-> selector,
                                   change |-> change, form |-> n])
        /\ designs' = MapSet(designs, n, [form |-> MapDelete(form, field), selector |-> selector,
                                          awaiting |-> change, answer |-> Undefined])
        /\ merged' = (merged \/ PendingAt(t.changes, field) # {})

ClickApply ==
    /\ Clicked
    /\ \E form \in Forms : SendField(clicks + 1, tracker, form, selected)
    /\ UNCHANGED <<pageVars, scenario, selected, activeTab, online, gateway, updates>>

\* The answer to a field arrives.  Only the answer to a style tells an old value
\* that is noted.
ContinueApply(n) ==
    /\ designs[n].answer # Undefined
    /\ LET design == designs[n]
           t == IF design.answer = "failed" \/ design.awaiting.target \notin Styles THEN tracker
                ELSE SetOldValue(tracker, design.awaiting.id, design.answer)
       IN  IF design.form = EmptyMap
           THEN tracker' = t /\ designs' = MapDelete(designs, n) /\ UNCHANGED <<queue, merged>>
           ELSE SendField(n, t, design.form, design.selector)
    /\ UNCHANGED <<pageVars, scenario, selected, activeTab, online, gateway, updates, clicks>>

\* What the panel sends for the effect of revert, undo, redo or clear.
Send(effect) ==
    queue' = CASE effect.type = "nothing" -> queue
               [] effect.type = "edit"    -> Append(queue, [type |-> "edit", selector |-> selected,
                                                            change |-> effect.change, form |-> NoForm])
               [] effect.type = "revert"  -> Append(queue, [type |-> "revert", selector |-> selected,
                                                            change |-> effect.change])
               [] effect.type = "clear"   -> Append(queue, [type |-> "clear", selector |-> selected,
                                                            changes |-> effect.changes])

elsewhereVars ==
    <<pageVars, scenario, selected, activeTab, designs, online, gateway, updates, merged>>

ClickRevert(id) ==
    /\ Clicked
    /\ CanRevert(tracker, id)
    /\ tracker' = TrackRevert(tracker, id)
    /\ Send([type |-> "revert",
             change |-> [Last(tracker'.undo).change EXCEPT !.status = "reverted"]])
    /\ UNCHANGED elsewhereVars

ClickClear ==
    /\ Clicked
    /\ tracker' = TrackClear(tracker)
    /\ Send([type |-> "clear", changes |-> tracker.changes])
    /\ UNCHANGED elsewhereVars

CanUndo ==
    /\ tracker.undo # <<>>
    /\ "unclear" \in scenario \/ Last(tracker.undo).type # "clear"

\* Mutant: Undo is not sent to the page.
ClickUndoInListOnly ==
    /\ Clicked
    /\ CanUndo
    /\ tracker' = TrackUndo(tracker)
    /\ UNCHANGED <<elsewhereVars, queue>>

ClickUndo ==
    /\ Clicked
    /\ CanUndo
    /\ tracker' = TrackUndo(tracker)
    /\ Send(UndoEffect(tracker))
    /\ UNCHANGED elsewhereVars

ClickRedo ==
    /\ Clicked
    /\ tracker.redo # <<>>
    /\ tracker' = TrackRedo(tracker)
    /\ Send(RedoEffect(tracker))
    /\ UNCHANGED elsewhereVars

-------------------------------------------------------------------------------
(* The service worker, the content script and the gateway                  *)

\* The gateway's changes with some put in place of those with their ids, or added.
WithChanges(known, selector, changes) ==
    LET told(key) == {[status |-> c.status, new |-> c.new] :
                        c \in {d \in changes : key = <<selector, d.id>>}}
    IN  [key \in DOMAIN known \cup {<<selector, c.id>> : c \in changes} |->
            IF told(key) = {} THEN known[key] ELSE CHOOSE what \in told(key) : TRUE]

\* Which of the changes that are pushed the gateway takes.
Taken(changes) ==
    IF ~online THEN {{}} ELSE IF "refused" \in scenario THEN SUBSET changes ELSE {changes}

\* pushChangeUpdate for each of a set of changes, with ids of their own, of the selection
\* shown by the panel, for which its selector stands.  An update of a chip with a source
\* takes the chip's changes as they are now and waits.
Push(selector, changes) ==
    \E taken \in Taken(changes) :
        IF "sourced" \in scenario
        THEN /\ updates' = updates \o
                    SetToSeq({[selector |-> selector, changes |-> WithChanges(gateway, selector, {c})] :
                                c \in taken})
             /\ UNCHANGED gateway
        ELSE gateway' = WithChanges(gateway, selector, taken) /\ UNCHANGED updates

\* The source is known, and the update writes its chip: what another has written
\* since is lost.
UpdateEnds(i) ==
    /\ LET update == updates[i]
           written == {key \in DOMAIN update.changes : key[1] = update.selector}
       IN  gateway' = [key \in {k \in DOMAIN gateway : k[1] # update.selector} \cup written |->
                         IF key \in written THEN update.changes[key] ELSE gateway[key]]
    /\ updates' = RemoveAt(updates, i)
    /\ UNCHANGED <<pageVars, scenario, tracker, selected, activeTab, designs, queue, online,
                   merged, clicks>>

\* The worker fills in the old value it is told, when the message has none.
WorkerChange(change, onPage) ==
    IF change.old = Undefined THEN [change EXCEPT !.old = onPage] ELSE change

Answer(message, answer) ==
    designs' = IF message.form = NoForm THEN designs
               ELSE [designs EXCEPT ![message.form].answer = answer]

\* sendToActiveTab rejects: nothing more is done for the message.
Unreachable == "unreachable" \in scenario /\ UNCHANGED <<pageVars, gateway, updates>>

HandleEdit(message) ==
    LET target == message.change.target
        change == WorkerChange(message.change,
                               page[activeTab][message.selector][target])
    IN  /\ message.type = "edit"
        /\ \/ /\ target = "comment"
              /\ Push(message.selector, {message.change})
              /\ Answer(message, message.change.old)
              /\ UNCHANGED pageVars
           \/ /\ target # "comment"
              /\ Found(activeTab, message.selector)
              /\ WriteUserValue(activeTab, message.selector, target, message.change.new)
              /\ Push(message.selector, {change})
              /\ Answer(message, change.old)
           \/ /\ target # "comment"
              /\ ~Found(activeTab, message.selector)
              /\ Answer(message, "failed")
              /\ UNCHANGED <<pageVars, gateway, updates>>
           \/ target # "comment" /\ Unreachable /\ Answer(message, "failed")

\* The answer of the content script is not looked at, but there has to be one.
HandleRevert(message) ==
    /\ message.type = "revert"
    /\ LET target == message.change.target
       IN  \/ /\ IF target = "comment" THEN UNCHANGED pageVars
                 ELSE WriteUserValue(activeTab, message.selector, target, message.change.old)
              /\ Push(message.selector, {message.change})
           \/ target # "comment" /\ Unreachable
    /\ UNCHANGED designs

\* The changes of the message that are pending.
PendingIn(list) == {list[i] : i \in {j \in DOMAIN list : list[j].status = "pending"}}

\* Mutant: the gateway is not told of Clear all.
HandleClearOnPage(message) ==
    /\ message.type = "clear"
    /\ \/ /\ ClearUserValues(activeTab, message.selector, message.changes)
          /\ UNCHANGED <<gateway, updates>>
       \/ Unreachable
    /\ UNCHANGED designs

HandleClear(message) ==
    /\ message.type = "clear"
    /\ \/ /\ ClearUserValues(activeTab, message.selector, message.changes)
          /\ Push(message.selector,
                  {[c EXCEPT !.status = "reverted"] : c \in PendingIn(message.changes)})
       \/ Unreachable
    /\ UNCHANGED designs

HandleMessage ==
    /\ queue # <<>>
    /\ \/ HandleEdit(Head(queue))
       \/ HandleRevert(Head(queue))
       \/ HandleClear(Head(queue))
    /\ queue' = Tail(queue)
    /\ UNCHANGED <<scenario, tracker, selected, activeTab, online, merged, clicks>>

-------------------------------------------------------------------------------
(* The user's browser and the agent                                        *)

Reselect ==
    /\ "reselect" \in scenario
    /\ selected' \in Selectors
    /\ UNCHANGED <<pageVars, scenario, tracker, activeTab, designs, queue, online, gateway,
                   updates, merged, clicks>>

SwitchTab ==
    /\ "switch" \in scenario
    /\ activeTab' \in Tabs
    /\ UNCHANGED <<pageVars, scenario, tracker, selected, designs, queue, online, gateway,
                   updates, merged, clicks>>

\* The page replaces an element.
ReplaceElement(tab, selector) ==
    /\ "gone" \in scenario
    /\ missing' = missing \cup {<<tab, selector>>}
    /\ UNCHANGED <<page, overrides, panelVars>>

Reconnect ==
    /\ "offline" \in scenario
    /\ online' = ~online
    /\ UNCHANGED <<pageVars, scenario, tracker, selected, activeTab, designs, queue, gateway,
                   updates, merged, clicks>>

\* A preview command of the agent reaches the content script.
AgentPreviews(selection) ==
    /\ "agent" \in scenario
    /\ Clicked
    /\ \E selector \in IF "moved" \in scenario THEN Selectors ELSE {SelectorOf[selection]} :
       \E S \in SUBSET Styles \ {{}} : \E styles \in [S -> Values] :
          /\ \/ "shared" \in scenario
             \/ \A b \in Range(overrides) :
                   <<b.tab, b.selector>> = <<SelectionTab[selection], selector>>
                     => b.selection = selection
          /\ AgentApply(selection, SelectionTab[selection], selector, styles)
    /\ UNCHANGED <<scenario, tracker, selected, activeTab, designs, queue, online, gateway,
                   updates, merged>>

AgentClears ==
    /\ AgentClearAll \/ \E selection \in Selections : AgentClear(selection)
    /\ UNCHANGED panelVars

-------------------------------------------------------------------------------
(* Specification                                                           *)

\* What the page came with.
OriginalValue(target) ==
    IF target = "text" \/ "styled" \in scenario THEN Original ELSE Empty

Init ==
    /\ scenario \in Scenarios
    /\ tracker = NewTracker
    /\ selected \in Selectors
    /\ activeTab \in Tabs
    /\ designs = EmptyMap
    /\ queue = <<>>
    /\ online = TRUE
    /\ gateway = EmptyMap
    /\ updates = <<>>
    /\ merged = FALSE
    /\ clicks = 0
    /\ page = [tab \in Tabs |-> [selector \in Selectors |->
                 [target \in Written |-> OriginalValue(target)]]]
    /\ missing = {}
    /\ overrides = <<>>

Next ==
    \/ ClickApply
    \/ \E n \in DOMAIN designs : ContinueApply(n)
    \/ \E id \in 1 .. tracker.lastId : ClickRevert(id)
    \/ ClickClear \/ ClickUndo \/ ClickRedo
    \/ HandleMessage
    \/ \E i \in DOMAIN updates : UpdateEnds(i)
    \/ Reselect \/ SwitchTab \/ Reconnect
    \/ \E tab \in Tabs, selector \in Selectors : ReplaceElement(tab, selector)
    \/ \E selection \in Selections : AgentPreviews(selection)
    \/ AgentClears

Spec == Init /\ [][Next]_vars

-------------------------------------------------------------------------------
(* Properties                                                              *)

Idle == queue = <<>> /\ DOMAIN designs = {}

Absent(circumstances) == scenario \cap circumstances = {}

\* What an action meant when it was first taken.
Meaning(list, action) ==
    CASE action.type = "apply"  -> Upsert(list, action.change)
      [] action.type = "revert" -> Upsert(list, [action.change EXCEPT !.status = "reverted"])
      [] action.type = "clear"  -> AllReverted(list)

\* What actions add up to, one after the other.
Replayed(actions) ==
    LET list[n \in 0 .. Len(actions)] ==
            IF n = 0 THEN <<>> ELSE Meaning(list[n - 1], actions[n])
    IN  list[Len(actions)]

\* Undo and redo are exact: the list of changes is always what the actions that
\* are not undone add up to, whatever was undone and redone between them (FR-016).
\* A target that is edited again while its change is pending is left out: undoing
\* the second edit takes the first with it.  That happens without a second use of the
\* form, too, when clicks between its steps bring a change of a later field back.
HistoryReplays == ~merged => tracker.changes = Replayed(tracker.undo)

\* A property of the element has one pending change at most: redo does not bring
\* back a second one, nor do revert and clear taken back (FR-016).
OnePendingChange ==
    ~merged => \A target \in Targets :
                   \A i, j \in PendingAt(tracker.changes, target) : i = j

\* When all messages are handled, the page shows the pending changes of the list
\* and otherwise what it came with: "Undo restores the previous browser state
\* without touching source files" (PRD, SCN-010).
PageShowsTracker ==
    Idle => \A target \in Written :
        page[activeTab][selected][target] =
            LET pending == PendingAt(tracker.changes, target)
            IN  IF pending = {} THEN OriginalValue(target) ELSE tracker.changes[Max(pending)].new

\* The same for the circumstances in which it holds: one element in one tab, which
\* is there and answers, without inline values of its own, styles and comments only,
\* no edit of a property whose change is pending (whose undo takes both away), no
\* undo of Clear all, no preview of the agent.  Whether the gateway takes the
\* changes is all the same to the page.
PageShowsPlainEdits ==
    Absent(Circumstances \ {"again", "offline", "refused", "sourced"}) /\ ~merged => PageShowsTracker

\* When all messages are handled, the gateway has the status and the value of
\* every change of the list, and every other change it has as reverted.  The panel
\* does not learn of a push that is skipped or fails, so that holds only as long as
\* the element is there and its page answers, the bridge is connected, and no update
\* is refused or overlaps another of its chip in the wait for a source; for one
\* element, without an edit of a property whose change is pending, and without an
\* undo of Clear all.
GatewayHasTracker ==
    Absent({"unclear", "reselect", "gone", "unreachable", "offline", "refused", "sourced"})
        /\ ~merged /\ Idle =>
        /\ \A c \in Range(tracker.changes) :
              /\ <<selected, c.id>> \in DOMAIN gateway
              /\ gateway[<<selected, c.id>>] = [status |-> c.status, new |-> c.new]
        /\ \A key \in DOMAIN gateway :
              Indexes(tracker, key[2]) = {} => gateway[key].status = "reverted"

\* Once the agent's previews are taken back, the page is as it came: an override
\* of several commands, or of a selection that has moved to another element,
\* leaves nothing behind.  Elements that only one selection overrides and the
\* user does not edit.
AgentLeavesNothing ==
    Absent({"shared"}) /\ overrides = <<>> /\ tracker.lastId = 0 =>
        \A tab \in Tabs, selector \in Selectors : Found(tab, selector) =>
            \A target \in Written : page[tab][selector][target] = OriginalValue(target)

===============================================================================
