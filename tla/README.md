# AgentVisualEditor: TLA+ verification

AgentVisualEditor lets a user pick elements in a web page, attach them as
*chips* to an OpenClaw chat, edit them in place, and send them with the next
message, so that the agent gets a compact description of exactly those elements
and can read the rest with tools, or preview changes in the page. This directory
holds TLA+ modules of its stateful parts, TLC runs on small instances, and TLAPS
proofs for all instances.

Run everything from this directory, for example

    tlc -workers 2 -config BatchStore_sends.cfg MCBatchStore
    tlc -workers 2 -config Capture_select.cfg MCCapture
    tlapm PairingProofs.tla

`PROJECT.json` is the machine-readable index: components, runs, one mutant per
checked property, the source lines each definition stands for, findings,
hazards and theorems.

## The system

    page --(content scripts)-- extension --(WebSocket bridge)-- plugin in the gateway
                             panel, worker                        |       |
                                           composer UI (control-ui)   agent tools, host hooks

| Component | State | Operations | Hard behaviour | Module |
|---|---|---|---|---|
| Batch machine (`core/src/batch.ts`, ...) | a `VisualBatch` value | attach, remove, clear, prepare, admit, reject | dedupe and limit, what each state allows | `VisualBatch` |
| Batch store (`openclaw-plugin/src/store.ts`) | four Maps: working batches, admitted archives, pinned texts, recorded outcomes | the above per session, replace, turn admission, session cleanup, tool writes | one Send is recorded in three places; callers interleave at their awaits | `BatchStore` |
| Send (`control-ui.ts`, `index.ts`, host) | click handler in progress, host injections, turns | `prepare_send`, `send()`, `send_outcome`, `agent_turn_prepare` | session switch, dispose, page close, throwing host, early and unrelated turns | `SendFlow` |
| Pairing (`pairing.ts`) | pending codes, connections, tokens, rate windows | start, complete, authenticate, revoke | expiry, eviction, window boundaries | `Pairing` |
| Active session (`active-session.ts`, `control-ui.ts`, `index.ts`) | the one session chips go to | report, requireExact | order of reports of views that replace each other | `ActiveSession` |
| Bridge handler (`bridge-handler.ts`) | executions that wait for the resolver | create, update, remove, upload | read before an await and written after it; target fixed before it; cleanup meanwhile | `BridgeRequests` |
| Artifacts (`artifact-store.ts`) | screenshots with expiry, hash index | put, get, purge, delete | limits, expiry, stale index entries | `ArtifactStore` |
| Bridge connections, `apply_preview` (`bridge-routes.ts`, `preview-apply.ts`) | sockets, owners, pending applies, cached results | bind, close, revoke, send a command, its answer, its timeout | late answers, repeated ids, several sockets of a browser | `PreviewCommands` |
| Bridge client and worker lifecycle (`bridge/client.ts`, `service-worker.ts`) | socket, backoff, stored pairing, shown session | boot, pair, disconnect, reconnect | losses, restarts, revocation, handlers that wait for the storage | `Connection` |
| Selections in the worker (`service-worker.ts`, `sidepanel.ts`) | last selection, owners by tab, preview queue | select, acknowledge, pump, crop, route a preview | quick selections, acknowledgements and images out of step | `Capture` |
| Edits (`change-tracker.ts`, `sidepanel.ts`, `service-worker.ts`, `content/preview.ts`) | change list, undo and redo, messages under way | apply, revert, undo, redo, clear | three records of one edit: panel, page, gateway | `ChangeTracker`, `PanelEdits` |
| Agent preview (`content/agent-preview.ts`) | overrides per selection | apply, clear | overlapping overrides, elements that go | `PagePreview` |

Also there, without a module: agent tool payloads, contract and configuration,
message schemas, page inspection and cropping, Domscribe adapter, MCP
placeholder, privacy helpers, build scripts (see *Not modelled*).

How they interact. The extension's messages reach the store through the bridge
handler, in the session that the composer last reported as active; the
composer calls the plugin's operations for the session it shows; the host
calls the plugin's hooks (`agent_turn_prepare`, session cleanup) and keeps the
next-turn injections the plugin enqueues; agent tools read and write the store
for the session of their turn, and `apply_preview` sends a command back to the
browser whose connection owns the selection, where the worker routes it to a
tab. All of the plugin runs on one JavaScript thread: a synchronous method is
atomic, and so is everything between two awaits of a caller. The same holds for
the worker, the panel and each page; between them are messages.

What makes each part correct:

* batch and store: a Send is consumed once, its text and outcome belong
  together, sessions share nothing, cleanup leaves nothing behind;
* Send: context goes to the agent exactly for the Sends the host has accepted,
  once, in its own session, and no Send stays pending;
* pairing: a code makes one connection before it expires, a revoked token
  never works again, guesses are limited;
* bridge: a chip goes where it was aimed, an update loses nothing, an answer
  goes to the command it answers, a screenshot is not there for the next session;
* extension: what it shows as attached, connected, edited or pictured is so in
  the gateway and in the page.

## Modules

| Module | What it is |
|---|---|
| `Maps` | JavaScript `Map` as a function with a changing domain |
| `VisualBatch` | `packages/core`: a batch as a value and its operations |
| `BatchStore` | `store.ts`: one action per method that changes state |
| `SendContract` | what the store promises of a Send, seen from outside; `BatchStore` refines it |
| `SendFlow` | composer, plugin and host around one or more Sends; extends `BatchStore` |
| `Pairing` | codes, credentials and rate windows under an integer clock |
| `ActiveSession` | composer views, their reports on the way, the active session |
| `ArtifactStore` | the screenshot store as operators on a value |
| `BridgeRequests` | requests that wait for the resolver; composes `ActiveSession`, `ArtifactStore` and the chips |
| `PreviewCommands` | `apply_preview`, the hub, its sockets, and the browser at the other end |
| `ChangeTracker` | the tracker as a value and its methods |
| `PagePreview` | inline values of elements under the user's and the agent's previews |
| `PanelEdits` | panel, worker, page and gateway during edits; extends `PagePreview`, which extends `ChangeTracker` |
| `Capture` | selections, their images, acknowledgements and owners |
| `Connection` | client, stored pairing, and what the panel shows of them |
| `MC*` | instances for TLC |
| `BatchStoreProofs`, `SendFlowProofs`, `PairingProofs`, `ConnectionProofs`, `PreviewCommandsProofs`, `CaptureProofs`, `BridgeRequestsProofs`, `PanelEditsProofs` | the theorems |

### Correspondence with the code

*VisualBatch.* A selection is its id, its stable identity (tag, selector and
text together are one member of `Elements`) and its changes. Selections are a
set: ids are minted in increasing order and nothing but attach appends, so the
array order is the id order. A change keeps id, property and whether it is
open. The compact text is the batch it names and one line per chip. Sizes of
fields are abstracted: that admission of an oversized selection throws after
`ensureDraft` has run is the action `AttachTooLarge`. The cut of the text at
8 KB is not modelled.

*BatchStore.* `batches`, `admittedBySession`, `pendingCompact` and
`completedOutcomes` are the Maps of the same names; `position` is the
iteration order of `batches`, which `findBySessionKey` depends on. UUIDs are
counters, so every id is fresh. `sessionStoreKey` joins two strings with `::`;
the model's keys are pairs. Calls that are refused without a write are stuttering.
`UpdateChip` is the part of `selection.update` after the wait for the source
resolver: it writes back a copy of the chip's changes that may be any earlier
version. `completedOutcomes.delete` in `deleteSession` is modelled as written
although it never finds an entry: a working batch's preparation has no outcome
yet. That is part of what `OutcomesFinal` proves.

*SendFlow.* `flows[p]` is the click handler that opened preparation `p`,
stopped at one of its awaits; `origin` and `target` are the sessions it named
in `prepare_send` and `send()`, read from `current.props` each time as the
code does. `injections` and `deliveries` are the host's. The host is external:
it decides, throws, starts turns, drops injections when their time is over or
refuses them, as the code's own calls and catch clauses expect.

*Pairing.* Codes, connections and tokens are numbered as they are made; random
ones are assumed to differ. `startWindow` and `failWindows` are the code's fixed
windows, with its `>` for starts and `>=` for failures. `startedAt` and `failedAt` are
histories for the rate property only. `Start` purges, evicts when full, and
mints; the three ways `complete` fails and is counted are actions of their own, since
they differ in what becomes of the waiting codes. A call that is refused by its rate limit
changes nothing.

*ActiveSession.* A view mounts, updates and is disposed of, and each reports over
the context of its browser tab, so the reports of one tab arrive in order and
those of two do not. `Reported` is `report()` together with the two guards of the
`report_active_session` handler. Nothing keeps views of a tab from showing the same chat: `crossed` is a history
that notes it, since the gateway cannot tell such views apart.

*BridgeRequests.* `Arrives` is everything up to the first await, with the target
that `requireExact` returns then; `CreateEnds` and `UpdateEnds` are what runs after
it. A chip's id is the number of the create that made it and a change's value the
number of its request, which makes "the change of this request" visible. An
update waits only for elements with a `data-ds` attribute (`Sourced`). The two
actions about screenshots go through `Purged`, `Duplicate`, `AtLimit` and `Put`
in the code's order. A session is a key with an agent, and the circumstance `shared` gives all sessions one key.
`batches` is the order of the store's batches, on which `findBySessionKey` depends: `Cleanup` names a key, finds the
first batch with it and retires that agent's chips and screenshots only. `lives` counts how often a session's key was
cleaned up.

*PreviewCommands.* A call of the tool is a record with its timer; `CallTool` is
`runApplyPreview` up to the wait, `Ends` what follows it. `pending` is keyed by request id alone, as in
`BridgeHub`, `recent` by session and request id. Sockets are numbered as bound, and
the browser is at the end of the one it opened last; an answer is matched by
connection and request id. A command is answered with the value it carried, or with a
failure; it may be slow.

*ChangeTracker, PagePreview, PanelEdits.* The tracker's methods are operators
between trackers; `UndoEffect` and `RedoEffect` are what `undo()` and `redo()` return
for the page. The panel's click handlers change the tracker at once and append to
`queue`; `HandleEdit`, `HandleRevert` and `HandleClear` are the worker's handlers, which
write the page and push to the gateway; when the page does not answer (`Unreachable`) they do not push.
`Push` sends updates without waiting for their answers: the gateway takes them, refuses some, or, for a chip with a
source, holds them in `updates`, each with the chip as it was, until the source is known (`UpdateEnds`). Nothing of
that comes back to the panel. The design form awaits each field's answer
(`designs`, by click, as a second click begins a second one), so clicks fall between its steps. `merged` is a history: it notes that some edit met a
pending change of its target and took over its id and old value (`existing` in `applyStyle`), which is where
undo is not exact.
`AgentApply` is one command for one element, `ApplyMore` where the selection has its bucket already and
`ApplyNew` where it gets one, after the old one was restored if the selector is another.

*Capture.* Captures are numbered. `last` is `lastSelection`, `owners`
`selectionTabById`, `creating` `pendingCreateByRequestId`, `job` and `pump` the
preview queue with its backoff, `cropping` the frames the panel is cutting,
`results` the crops on the way back. A local id is replaced by the gateway's when the
answer comes (`Accepted`, from `onSelectionResult`). `shows` is the page of each tab, which `Navigate` changes, and `pageOf` the
page a capture was made on. `routed` is a history of where agent previews went and what was shown there.

*Connection.* `bridge` is the client, its timer a socket state; `booting`,
`pairing` and `leaving` are the worker's handlers while they wait for storage or
network: a stop of the worker can come between the acceptance of a code, its storing and the new client, and between
the stop of the client and the removal of the pairing. `attachBridge` and `disconnect` stop a client before they replace it, so
one is enough. `session` and `inbox` are the gateway's sessions and their
messages; the handler's revision guard is in `SessionArrives`.

### Circumstances

Several modules have a constant `Scenarios` (`Situations` in `SendFlow`): sets of
things that may happen besides the plain course - losses, slow answers, a second
browser, a second edit of the same property. A behaviour chooses one set
initially. This keeps instances small, lets one run ask its question of
each combination, and lets a property say where it holds: `Without({"sameid"}) => ...`
is true of every behaviour in which no calls share a request id, and the proofs show
it for all sets. Each circumstance that is excluded in a property is listed under
*Known limits* with what goes wrong there; the table there names them by property.

## Runs

"Distinct" is the number of states TLC finds.

| Run | Question | Result | Distinct |
|---|---|---|---|
| `store_sends` | two agents under one session key, two elements, limit 1: agreement of the records of a Send, texts, archives and outcomes under every order of edits, stale updates, tools, Sends, turns and cleanup; refinement of `SendContract` | holds | 243 209 |
| `send_flow` | two Sends in one session with every fault, one Send while the user switches, and everything at once: injections only for accepted Sends, no delivery after a recorded refusal; where turns follow outcomes a context is delivered once, and that of a single Send in its session | holds | 962 512 |
| `send_live` | no faults, but early turns: pending Sends end, accepted ones are delivered | holds | 626 |
| `pairing` | codes right, wrong, late and evicted, revocation, both rate limits | holds | 488 181 |
| `bridge_requests` | views that replace each other; captures with edits, with screenshots, with cleanups of one agent's key and of a key that two share, around the wait for the resolver | holds | 1 528 559 |
| `preview_apply` | calls with refused and slow answers, removed chips, several sockets, two browsers, repeated ids | holds | 516 255 |
| `panel_edits` | edits, undo, redo, revert, clear with one circumstance each; pages that do not answer, updates refused and overlapping; agent previews over moved, missing and shared elements | holds | 1 811 220 |
| `capture` | selections in quick succession over three tabs, failing images, losses, other answers, closed tabs, tabs that navigate, agent previews | holds | 451 524 |
| `connection` | losses, worker stops in the middle of handlers, gateway restarts, revocation, refused codes, handlers that overlap | holds | 53 226 |
| `send_twice` | is context delivered once, early turns included? | violated | |
| `bridge_overlap` | are the changes of overlapping updates kept? | violated | |
| `panel_text` | does the page show the list, text edits included? | violated | |

### What the violated runs show

* `send_twice`: the turn of an accepted Send starts before the composer has
  reported the outcome. `agent_turn_prepare` delivers the context; the report
  is then answered from the recorded outcome, text included, and enqueued for the
  turn after.
* `bridge_overlap`: two updates of one chip wait for the resolver at once; each
  writes back the copy it took before, so the second removes the first's change,
  which was acknowledged.
* `panel_text`: every edit is recorded with the old value `""`, and since that is not
  `undefined`, the worker never fills in the value the page reports: undo erases the text. (Of a
  style it removes the inline value, which is right where the page has none of its own.)

### What the properties are about

Of the properties that are not evident from their comment in the module:

* `ArchiveKeepsItsElements`: tools that mark or update archived chips while other
  Sends run do not change which elements an archive has.
* `RefusedNotDelivered` has no precondition in its first half: a recorded refusal is final, whichever turns run.
  SCN-014 wants more, that no unrelated turn consumes a batch; the code does not keep that (`store.ts:334`), so
  the half that speaks of what the *host* refused is for turns that follow outcomes.
* `AttemptsLimited` states the strongest bounds that fixed windows give in any stretch of a
  window's length, wherever it begins: twice the limit of failures, and one less of
  starts, whose window is opened by a start.
* `CodesStayUsable`: the only ways to lose a code early are to spend it, or
  `MAX_PENDING` newer ones.
* `ActiveFollowsViews`: for one tab whose views show different chats, mount-before-dispose and
  dispose-before-mount both end with the session the user sees; otherwise the target is at least an open
  chat.
* `ScreenshotsEndWithSession`: a cleanup looks up by key and retires one agent. With one agent to a key none of its
  screenshots is left; with n agents one outlives n - 1 cleanups at most, however their batches are made, deleted
  and made again between.
* `PreviewsStayOnPage`: the tab is the selection's own, or one that was found by the page's address. Its second
  half, that the tab shows that page, is for tabs that do not navigate.
* `UploadsCountTheLiving` is an action property: an upload is judged by the
  screenshots alive when it is made, and a duplicate is one of its own.
* `LatestIsRecorded`: with nothing under way, what the context says of a selection is what
  its browser shows, also after overlapping calls; for one browser with one socket that answers in time, calls with
  ids of their own, and chips that are not removed meanwhile.
* `GatewayHasTracker`: clear and revert reach page and gateway by different
  messages; afterwards the gateway knows the status of every change, as long as each push happens, is taken and
  does not overlap another. `PageShowsPlainEdits` does not depend on the gateway.
* `StoredIsLive` includes workers that are stopped between two steps of pairing or disconnecting.
* `ReconnectsWhileValid`: in each state of the client, with every way to lose a
  connection, a valid credential gets it back or is replaced.

### Bounds

Ids are counters, so bounds on them bound a behaviour's length. Every bound is a
constant named in its module; those of the gateway's own limits (`MaxChips`, `TTL`,
`FailLimit`, `MaxPending`, `DedupMax`, `MaxGlobal`, ...) are scaled-down program
constants, the others cut off behaviours.

* `store_sends` has room for a refused Send that is sent again, a second chip
  after the first was sent, one more element than the limit, and a change recorded and
  resolved before or after its chip was sent (`MaxRevision` 5); two agents under one key
  give the lookup by session key a choice.
* In `SendFlow` every bound except `MaxSends`, `MaxSelections` and `MaxOtherTurns` is
  large enough never to disable an action; two Sends are what it takes for one to
  interfere with another, one unrelated turn what it takes to consume or repeat a
  context.
* `pairing`: time begins at 3, after the first window, and ends at 6: with `Window` 2
  two windows adjoin, and with `TTL` 2 a code is used, refused at its last moment, or met
  expired. Five codes with `MaxPending` 2 fill the table and evict, and are
  more starts than the three that two adjoining windows can grant with `StartLimit` 2; limits 2 and 1 are
  enough for a granted event, the last one granted, and one refused, in each window.
* `bridge_requests`: three requests (four with screenshots) are a chip, an update of it
  and something between, or a duplicate after an expired artifact at the limit.
  `bridge_overlap` needs four. Where two agents share a key, three requests and two cleanups: one
  retires each agent.
  `MaxReports` 2 lets a dispose and the next mount be under way in one tab together. Besides requests there
  is one view, which changes its chat when its last report has arrived: the target changes as often, and requests
  arrive and end before and after each report.
* `preview_apply`: three calls with `DedupMax` 2 forget one result; three sockets allow a
  reconnect before the old one is closed.
* `panel_edits`: four clicks without circumstances, three or two with one: an edit,
  its undo, its redo and a new edit among them; a form begun while another is being sent.
* `capture`: two captures overlap, one when tabs navigate; `QuotaRetries` 1 has a retry and a give-up.
* `connection`: two tokens replace each other; five events are two losses, a restart,
  a revocation and one more.

Symmetry is used where the values are interchangeable in the specification and
the run checks no liveness (`store_sends`, `bridge_requests`, `panel_edits`). `CHECK_DEADLOCK FALSE`
stands where the system may stop: the user need not do anything, and the bounds end a
behaviour. `BatchStore` is checked for deadlock.

### Fairness

* `SendFlow`, `FairFlowSpec`: the continuations of the click handler (a resolved
  promise's continuation runs), the host's answer to `send()`, the turn of an
  accepted Send.
* `PreviewCommands`, `FairSpec`: the timers of waiting calls, and nothing of the browser: it need
  not answer.
* `Capture`, `FairSpec`: some step of the preview loop or of the crop (`PreviewStep`) is taken
  as long as one is possible; the loop runs on its own pauses, and a frame that is sent is cropped,
  reported as failed, or meets no panel.
* `Connection`, `FairSpec`: the ends of handlers that wait, the opening or refusal of a
  socket, the reconnection timer. Losses are bounded by `MaxEvents`, so an
  attempt succeeds eventually.

All is weak fairness of steps the JavaScript runtime or a timer takes. Nothing is
assumed of the user, of other turns or of faults.

## Proofs

Each theorem holds for all values of the constants under the named assumptions of its
module (`BoundsAssumption`, `MaxChipsAssumption`, `PairingAssumption`,
`ConnectionAssumption`, `PreviewAssumption`, `CaptureAssumption`,
`BridgeAssumption`, ...), which TLC evaluates in each run.

| Module | Theorems | Property |
|---|---|---|
| `BatchStoreProofs` | `TypeCorrect`, `SendInvariant`, `PendingAgrees`, `OutcomesFinal`, `PinnedNamesBatch`, `ArchiveHandedOver`, `BatchIdsApart`, `BatchHandedOverOnce`, `ChipsApart`, `ArchiveStays`, `PendingEndsProperly`, `StoreKeepsContract` | `TypeOK`, `SendInv`, `PendingIffAwaited`, `OutcomesAreFinal`, `PinnedTextNamesItsBatch`, `ArchiveWasHandedOver`, `BatchIdInv`, `HandedOverOnce`, `ChipsInv`, `ArchiveKeepsItsElements`, `PendingSendEndsProperly`, `KeepsSendContract` |
| `SendFlowProofs` | `FlowTypeCorrect`, `FlowIsStore`, `FlowInvariant`, `InjectionsAdmitted`, `FlowInOrder`, `DeliveryIsOrderly`, `ContextStays`, `RefusedIsNotDelivered`, `OutcomesAgree` | types, the refinement `FlowSpec => Spec`, `FlowInv`, `InjectionsFollowAdmission`, `FlowOrder`, `OrderlyDelivery`, `OrderlyContextStays`, `RefusedNotDelivered`, `OutcomeAgreesWithHost` |
| `PairingProofs` | `PairingTypeCorrect`, `CredentialsAreSound`, `CodesAreUsable`, `AttemptsAreLimited` | types, `CredentialsSound`, `CodesStayUsable`, `AttemptsLimited` |
| `ConnectionProofs` | `ConnectionTypeCorrect`, `StoredPairingIsLive`, `ShownConnectionIsOpen`, `ChatIsTheGateways` | types, `StoredIsLive`, `ConnectedMeansOpen`, `ChatFollowsGateway` |
| `PreviewCommandsProofs` | `PreviewHubTyped`, `OwnersFollowSockets`, `AnswersHold`, `AnswersAreOwn`, `LatestWins` | types, `OwnersDropWithLastSocket`, `AnswersInv`, `AnswersOwnCommand`, `LatestIsRecorded` |
| `CaptureProofs` | `CapturesKeepPages`, `PreviewsKeepPage`, `PreviewsAreOwn`, `OwnersAreRecorded` | `PagesInv`, `PreviewsStayOnPage`, `PreviewShowsElement`, `AttachedHaveOwners` |
| `PanelEditsProofs` | `EditInvariant`, `UndoIsExact`, `OnePendingPerTarget`, `PageInvariant`, `PageFollowsEdits`, `GatewayFollowsEdits`, `AgentRestoresPage` | `EditInv`, `HistoryReplays`, `OnePendingChange`, `PageInv`, `PageShowsPlainEdits`, `GatewayHasTracker`, `AgentLeavesNothing` |
| `BridgeRequestsProofs` | `ChipsAlwaysKept`, `ChipsKeepTheirSession`, `ArtifactsAlwaysKept`, `ScreenshotsGoWithSession`, `UploadsFindTheLiving`, `AcknowledgedIsKept`, `TargetIsShown` | `ChipsInv`, `ChipsStayWhereAimed`, `ArtifactsInv`, `ScreenshotsEndWithSession`, `UploadsCountTheLiving`, `AcknowledgedChangesKept`, `ActiveFollowsViews` |

The arguments:

*BatchStore.* `PendingIffAwaited` alone is not inductive: nothing in it says that a
preparation id minted next is not already in use, or that a working batch is
never `sent`. `SendInv` adds both. Type correctness is proved per operation.
For the rest each step is first reduced to its *effect* on the state of the
Sends - an edit, an opened, settled, at-once admitted or dropped preparation,
or none (`StepEffect`) - and invariant, action properties and
refinement are proved per effect, not per action. Pinned texts and archives
follow the same effects. `BatchIdInv` adds that a session goes on with a batch of a new id
after a Send, so none is handed over twice; that is what lets `ArchiveKeepsItsElements` treat
an archive as one batch for good. A tool writes a chip into an archive by the chip's id; with
`ChipsInv` that exchanges no chip of another element.

*SendFlow.* `FlowIsStore` shows that each step of composer, plugin and host is an operation
of the store or leaves it alone, so all theorems about `BatchStore` hold in the flow, and
the proofs below use them. `FlowInv` holds under all faults: what the plugin awaits is a Send of the
composer, and an injection has an accepted Send and its recorded text. The other properties
hold where turns follow outcomes, and their invariants (`FlowOrder`) say what a Send
can have left behind at each stage. In one session (`InOrder`) an active handler is what
the plugin awaits, of accepted Sends at most one has not had its turn, and a context that is
enqueued has not been delivered; with one Send (`OneSendInOrder`) nothing but its own report
records its outcome. Both are needed for `OrderlyContextStays`, whose two cases they are: with two Sends
*and* two sessions it is false (see *Known limits*), which the attempt to prove it brought up.

*Pairing.* `CredentialInv` says that a spent code is not pending, which is what keeps a
second connection from it. `UsableInv` says that codes expire in the order they were
made: hence the evicted one is the oldest, and counting the others
(`EvictedIsOld`) gives `MaxPending` newer ones. For the rate limits `WindowSound` says
that within the current window at most the limit was granted, and that all
but the last limit of the earlier events lie a full window before it: then 2 *
limit + 1 events cannot be within one window.

*Connection.* `HandlersInv` says what each waiting handler still holds, at each of its stages: what it
will write is what is stored, or still the old pairing until it has stored the new one. `ChatInv` says that the last session on its way to an
open connection is the gateway's and none is newer, so the revision guard does not
drop the last one.

*PreviewCommands.* `OwnersFollow` is proved per step: only the close of the last socket
empties a connection. `BookInv` is about the books of the calls: results remembered
and calls waiting are together no more than the calls made, so before `DedupMax` calls
none was forgotten, and so an id that is used again is answered from memory and never
sent twice. With `MessagesInv` (each command and answer on its way belongs to a call)
an answer is that of its own call. `LatestInv` is about values: of the answers on their way
that tell of a selection, the last one has the value its browser shows, and with none that value is
recorded already. It rests on `OnTheWay` - a request id that waits has a command or an answer under
way, never both - and on a record's being made and its owner set before anything is sent for it.

*Capture.* `PagesInv`: an owner under the gateway's id shows the page of its capture, because it
comes either from the capture's own tab by way of its create or from a preview that had
already looked for a tab with that page. `ImagesInv`: jobs, frames and crops carry the
local id of their capture, which no other selection has. `OwnersInv`: with one selection at a
time under way, `last` still has its local id when the answer comes, and its tab is still remembered.

*BridgeRequests.* `ChipsInv`: the chip's id is that of the create whose target and
element it has, so ids are unique over all sessions and an update that was aimed at one
session finds its chip there or nowhere. `AckInv`: besides the chip, also the copy
that an update is waiting to write back has all acknowledged changes - which is false
exactly when updates of one chip overlap. `ArtifactsInv`: an entry of the hash index may be
stale, but one that leads to an artifact leads to its own content. `OutlivedInv` counts against the order of the
store's batches: a session with screenshots has a batch, and the cleanups they have outlived and the batches of their key that
are ahead of it are together no more than the other agents, because each cleanup takes one from ahead and new batches come last. `TargetInv` and `OneTabInv` are about
the queues of reports: a session that is reported is shown in its tab or a later report of that tab ends it,
and what the reports of a single tab leave as target is the session of the view mounted last. The second is why
a dispose names the session it ends: a dispose after the next mount must spare that one.

*PanelEdits.* `HistoryReplays` says that the list of changes is a fold over the undo stack; by itself it
says nothing of the redo stack, nor that taking an action back leads to the list before it. `HistoryIsExact` keeps
the lists in between: there are lists from the empty one to the present one, each with ids of its own and one
pending change per target, of which each undoable action leads from one to the next (`Past`), and others that the
undone actions lead on to (`Future`). An undo moves the boundary between the two back by one list, a redo forward, and an edit begins
another future. `OnePendingChange` is a property of those lists. `PastReplayed` then shows that the last of them is the fold.
A step sends a message that says how one list became another (`Reports`). Page and gateway follow by the *last*
message on its way: the last one that writes a style writes what the tracker lists now, and with none on its way the
page shows it already (`Follows`), whatever other messages are between; for the gateway the same is said per change id (`Tells`). For
the agent, `AsItCame` says that buckets keep what the page came with and that every value outside them is
that; restoring all of them is a fold again (`RestoreAllSteps`, `RestoreAllFacts`).

Folds. The installed provers cannot use the library's theorems of induction, which have an operator as
parameter. Where a fold is over a history or a list of buckets, the proofs argue by least counterexamples instead: the natural
numbers below are well-founded (`NatLessThanWellFounded`), so a set of numbers that is not empty has a least element
(`LeastNumber`), and a set that has 0 and with each number the next one has all (`AllNumbers`).

Every safety property that a passing run checks is proved. Only model-checked: the liveness
properties (`PendingSendsEnd`, `AcceptedSendsDelivered`, `CallsAreAnswered`, `PreviewSettles`,
`ReconnectsWhileValid`), which rest on fairness and are out of the prover's reach. The proofs assume of the
constants of `PanelEdits` what the code has: the form has each target once or more (`PanelAssumption`), and no style property
is called `text` or `comment` (`StylesAssumption`).

## Known limits

What the code does outside the circumstances of the properties above, met while
modelling. Those with a run are the findings of `PROJECT.json`.

| Property | Leaves out | See |
|---|---|---|
| `OrderlyDelivery`, `OutcomeAgreesWithHost`, second half of `RefusedNotDelivered` | early, queued and unrelated turns, a switch of chats | S1, S2 |
| `OrderlyContextStays` | the same turns, a second Send together with a switch | S1, S4 |
| `PendingSendsEnd`, `AcceptedSendsDelivered` | faults (their run has none) | S3 |
| `ActiveFollowsViews` (which session it is) | several tabs, views of a tab that show one chat or change it side by side | B5 |
| `AcknowledgedChangesKept` | updates of one chip that overlap | `bridge_overlap` |
| `ScreenshotsEndWithSession` | nothing, but its bound is the number of agents under the key | B6 |
| `AnswersOwnCommand` | `sameid` | B1 |
| `LatestIsRecorded` | `sameid`, `slow`, `sockets`, `two`, `removed` | B1, B2, B3 |
| `AttachedHaveOwners` | `overlap`, `others`, `agent` | X1 |
| `PreviewsStayOnPage` (what the tab shows) | `navigates` | X2 |
| `PreviewShowsElement` (which tab the picture is of) | `switch`, `closed` | X3 |
| `PreviewSettles` | `connected` | X4 |
| `ConnectedMeansOpen` | `badcode`, `busy` | X5 |
| `StoredIsLive` | `busy` | X5 |
| `ChatFollowsGateway` | `gateway`, `busy` | X5, X6 |
| `HistoryReplays`, `OnePendingChange` | merged edits | X7 |
| `PageShowsPlainEdits` | `styled`, `text`, `unclear`, `reselect`, `switch`, `gone`, `unreachable`, `agent`, `moved`, `shared`, merged edits | `panel_text`, X7, X8 |
| `GatewayHasTracker` | `unclear`, `reselect`, `gone`, `unreachable`, `offline`, `refused`, `sourced`, merged edits | X7, X9 |
| `AgentLeavesNothing` | `shared`, elements the user edits | X10 |

Sends:
* S1. After an early turn the late report is a replay: its text is enqueued for the turn after
  (`send_twice`), and after a switch of chats for the other session.
* S2. A turn nobody asked for that runs between `prepare_send` and the
  host's refusal takes the batch with it (`store.ts:334`; `docs/PRD.md:500` wants no unrelated turn
  to). The report of the refusal is then answered with `stale_preparation`, and the chips are gone.
* S3. When `send()` throws no outcome is reported, and a preparing batch can be neither
  sent again nor cleared.
* S4. Two Sends of two sessions can cross in one composer, all turns after their outcomes: the turn that one
  asks for finds the other's text pending in its session and consumes it, and the report of that other Send is then
  replayed, and its context enqueued, for the session shown by then.
* A chip may be edited while its Send is pending: the text was pinned before, the
  archive is taken after. `selection.update` can give two chips one element, since `replaceSelection` does not
  dedupe.

Bridge:
* B1. Calls of `apply_preview` that share a request id - while the first waits, in two
  sessions, or after its result was forgotten - get each other's answers
  (`bridge-routes.ts:289`); failures are remembered as well, so a repeated call after
  `browser_unavailable` fails again.
* B2. A call that times out, or whose answer is lost with its socket, records nothing, while the
  browser may well have applied it: the page shows a value that the context lacks, until the next preview of that
  selection. So does a chip that is removed, or attached anew, while the browser applies.
* B3. When another browser takes a selection over, its page has none of the values that the context records.
* B4. A create that ends after its socket closed makes an owner of a connection that is
  gone, until the chip goes.
* B5. Of two tabs of the Control UI, closing the one that reported last leaves no active
  session. A second mount of the same session in a tab, before the old view is disposed of, does as well: the old
  view's report names the session that both show, so `callerOwnsActive` (`index.ts:586`) lets it clear it. A view
  beside another that changes its chat can take the target from the one mounted last.
* B6. `cleanup` (`index.ts:188`) finds one batch, by key alone, and retires its agent only: chips, archive and
  screenshots of another agent under the key stay until a further cleanup. A create that waited for the
  resolver meanwhile brings a draft back after the cleanup.

Extension:
* X1. Answers to edits and screenshots overwrite the id by which a selection waits for its
  own answer: its owner is lost, and so it is when two selections overlap. A preview of the agent that finds
  no owner, or finds it closed, makes another tab with the same page the owner.
* X2. The tab that owns a selection is taken without a look at its address (`service-worker.ts:111`): once it has
  gone to another page, a preview of the agent changes whatever its selector finds there.
* X3. A screenshot is of the tab that is active when it is taken: after a switch of tabs the picture with a
  selection is cut from another page, at the place where its own element was.
* X4. A preview stays pending when the gateway answers a selection before its screenshot is
  there.
* X5. A refused code while connected shows `re_pair_required` over a live connection. What
  happens while boot, pair or disconnect waits can leave a live bridge without a stored
  pairing, or the reverse. A worker that is stopped during a disconnect before the pairing is removed
  (`service-worker.ts:604`) connects again; one that is stopped between the acceptance of a code and its storing
  leaves a credential nobody uses, and the old pairing. After a revocation while offline the client tries for
  ever.
* X6. After a restart of the gateway, whose revisions begin anew, the worker drops its
  sessions. After a disconnect the owners are gone until elements are selected again.
* X7. Undo of a repeated edit removes the change altogether, undo of Clear all clears again. An edit can meet a
  pending change without a second use of the form, by clicks between the form's steps: apply a field, revert it, apply
  a form of an earlier field and that one, undo twice before the form goes on - its second field then merges
  with the change that came back, and undoing it takes both away. A second click on Apply while the first form
  is still being sent does it too.
* X8. Undo and revert write `""` for a value the page had of its own. Messages name the selection that is shown when
  they are sent and go to the tab that is active when they are handled: after a selection of another element or a switch
  of tabs they change that one. An element that is gone, or a page that does not answer, keeps the list's edits out
  of the page, and the panel does not notice. Overrides of the agent lie over the user's values.
* X9. The gateway is without a change when the push was skipped because the page did not answer
  (`service-worker.ts:827`, `:857`) or the element was gone, when it met no connection, or when the update was
  refused: for a local id, a chip that is sent or removed, or a chat that is not active. Updates of a chip with a
  source are pushed back to back without waiting for their answers - Clear all pushes one for each
  change (`service-worker.ts:851`) - and the last to end writes back a chip without the others
  (`bridge-handler.ts:345`). After another element is selected the changes are pushed under its id.
* X10. When two selections of the agent override one element and are taken back in the order they were made,
  the second leaves what the first had put there.

## Not modelled

* Agent tool payloads and projections, contract, configuration, translations, message
  schemas: formatting and validation without state. The state changes of the tools are
  in `BatchStore` and `PreviewCommands`; messages of the models are valid ones.
* Page inspection, selectors, cropping, redaction and URL cleaning: functions of a DOM or
  a string that no property here depends on.
* The Domscribe adapter: HTTP and parsing. Its wait, which others interleave with, is in
  `BridgeRequests`.
* In modelled components: the answers `bridge-handler` keeps by request id (the
  extension never repeats one); rendering of chips and the batch watch of `control-ui`;
  inspect mode and removal of a selection in the worker; the comparison of tokens in
  constant time; HTTP parsing of pairing requests.
* `expireBatch`, `revertAllPending`, `beginPrepare` and `clearPreview` have no caller in the running
  system; the `ambiguous` status of the active session has no sender.
* MCP placeholder, build and CI scripts.
