-------------------------------- MODULE Capture --------------------------------
(***************************************************************************)
(* Selecting elements in the browser: the service worker's record of the     *)
(* last selection, its requests to the gateway and their answers, the queue   *)
(* that takes a preview image of the element, the crop in the side panel, and *)
(* the routing of agent previews to the tab a selection was made in           *)
(* (service-worker.ts, sidepanel.ts).                                         *)
(*                                                                         *)
(* Captures are numbered.  A capture's selection is called by a local id until *)
(* the gateway has answered, then by the gateway's.                            *)
(***************************************************************************)
EXTENDS Naturals, FiniteSets, Maps

CONSTANTS
    Scenarios,     \* sets of circumstances to examine
    Tabs,          \* tabs of the browser's window
    UrlOf,         \* page of each tab at first, without query and fragment
    MaxCaptures,   \* bound: elements the user selects; one while tabs navigate
    MaxOthers,     \* bound: edits and screenshots sent to the gateway
    QuotaRetries   \* length of QUOTA_BACKOFF_MS

Circumstances ==
    {"connected",   \* the bridge is connected
     "refused",     \* the gateway refuses some selections
     "overlap",     \* an element is selected before the last one is answered
     "others",      \* edits and screenshots of a selection are answered too
     "dropped",     \* the connection is lost, and with it what was not answered
     "switch",      \* another tab becomes active
     "closed",      \* tabs are closed
     "navigates",   \* tabs go to other pages
     "agent",       \* the agent previews on selections
     "failures"}    \* screenshots fail: quota, permissions, no panel, no crop

Captures == 1 .. MaxCaptures

ASSUME CaptureAssumption ==
    /\ Scenarios \subseteq SUBSET Circumstances
    /\ DOMAIN UrlOf = Tabs
    /\ MaxCaptures \in Nat \ {0}
    /\ MaxOthers \in Nat
    /\ QuotaRetries \in Nat

VARIABLES
    scenario,
    activeTab, openTabs, connected,
    shows,       \* page of each tab
    last,        \* lastSelection: id, the capture it describes, sync, preview
    lastId,      \* lastSelectionId
    owners,      \* selectionTabById
    creating,    \* pendingCreateByRequestId, by capture
    job,         \* previewJobLatest, by capture; 0 for none
    lastJob,     \* lastPreviewJob
    pump,        \* the loop of pumpSelectionPreviewQueue: stage, job, attempt
    cropping,    \* frames in the side panel
    results,     \* crops on their way back to the worker
    requests,    \* requests the gateway has not answered
    attached,    \* external: selections the gateway has
    tabOf,       \* history: capture -> tab it was made in
    pageOf,      \* page a capture was made on: the chip has it, and its commands name it
    routed,      \* history: of each agent preview, its capture, tab and the tab's page
    others

gatewayVars == <<requests, attached, others>>
previewVars == <<job, lastJob, pump, cropping, results>>
browserVars == <<scenario, activeTab, openTabs, shows, connected>>
captureVars == <<tabOf, pageOf>>
selectionVars == <<last, lastId, owners, creating>>
vars == <<browserVars, selectionVars, previewVars, gatewayVars, captureVars, routed>>

Local(n) == <<"local", n>>
Remote(n) == <<"remote", n>>
NoId == <<"none", 0>>

Pending == [state |-> "pending"]
Failed == [state |-> "failed"]
Ready(frame) == [state |-> "ready", of |-> frame.of, tab |-> frame.tab]

Idle == [stage |-> "idle", of |-> 0, attempt |-> 0]

\* setPreviewPending, setPreviewFailed and the answer of the panel change the
\* record only while it has the id they are meant for.
SetPreview(id, preview) ==
    last' = IF last.id = id THEN [last EXCEPT !.preview = preview] ELSE last

-------------------------------------------------------------------------------
(* The preview queue                                                       *)

\* Mutant: the loop ends with its job, whatever has been queued meanwhile.
TakeNoJob(latest, selection) ==
    /\ pump' = IF pump = Idle /\ latest # 0
               THEN [stage |-> "waiting", of |-> latest, attempt |-> 0] ELSE Idle
    /\ job' = IF pump = Idle THEN 0 ELSE job

\* The loop takes the latest job, and drops it when another selection is shown.
TakeJob(latest, selection) ==
    /\ job' = 0
    /\ pump' = IF latest = 0 \/ selection.id # Local(latest) THEN Idle
               ELSE [stage |-> "waiting", of |-> latest, attempt |-> 0]

\* enqueueSelectionPreview: the pump runs already or starts at once.
Enqueue(n, selection) ==
    /\ lastJob' = n
    /\ IF pump = Idle THEN TakeJob(n, selection) ELSE job' = n /\ UNCHANGED pump

\* The wait for the screenshot interval is over.
AfterWait ==
    /\ pump.stage = "waiting"
    /\ IF job # 0 \/ last.id # Local(pump.of)
       THEN TakeJob(job, last)
       ELSE pump' = [pump EXCEPT !.stage = "capturing"] /\ UNCHANGED job
    /\ UNCHANGED <<browserVars, selectionVars, lastJob, cropping, results, gatewayVars, captureVars, routed>>

\* captureVisibleTab has taken what the window shows; the panel gets the image
\* unless another selection is shown by then.
Screenshot ==
    /\ pump.stage = "capturing"
    /\ cropping' = IF last.id = Local(pump.of)
                   THEN cropping \cup {[of |-> pump.of, tab |-> activeTab]} ELSE cropping
    /\ TakeJob(job, last)
    /\ UNCHANGED <<browserVars, selectionVars, lastJob, results, gatewayVars, captureVars, routed>>

\* captureVisibleTab refuses: over the quota it is tried again after a pause.
ScreenshotRefused ==
    /\ pump.stage = "capturing"
    /\ "failures" \in scenario
    /\ \/ /\ pump.attempt < QuotaRetries
          /\ SetPreview(Local(pump.of), Pending)
          /\ pump' = [pump EXCEPT !.stage = "pausing"]
          /\ UNCHANGED job
       \/ /\ SetPreview(Local(pump.of), Failed)
          /\ TakeJob(job, last')
    /\ UNCHANGED <<browserVars, lastId, owners, creating, lastJob, cropping, results,
                   gatewayVars, captureVars, routed>>

AfterPause ==
    /\ pump.stage = "pausing"
    /\ IF job # 0 \/ last.id # Local(pump.of)
       THEN TakeJob(job, last)
       ELSE /\ pump' = [pump EXCEPT !.stage = "capturing", !.attempt = @ + 1]
            /\ UNCHANGED job
    /\ UNCHANGED <<browserVars, selectionVars, lastJob, cropping, results, gatewayVars, captureVars, routed>>

\* handlePreviewFrame: the panel drops the frame when it shows another selection
\* by now.  A crop that fails falls back on the whole image.
PanelCrops(frame) ==
    /\ cropping' = cropping \ {frame}
    /\ \/ results' = results \cup {[id |-> Local(frame.of), preview |-> Ready(frame)]}
       \/ /\ "failures" \in scenario
          /\ results' = results \cup {[id |-> Local(frame.of), preview |-> Failed]}
       \/ last.id # Local(frame.of) /\ UNCHANGED results
    /\ UNCHANGED <<browserVars, selectionVars, job, lastJob, pump, gatewayVars, captureVars, routed>>

\* There is no panel to crop the frame.
PanelGone(frame) ==
    /\ "failures" \in scenario
    /\ cropping' = cropping \ {frame}
    /\ SetPreview(Local(frame.of), Failed)
    /\ UNCHANGED <<browserVars, lastId, owners, creating, job, lastJob, pump, results,
                   gatewayVars, captureVars, routed>>

\* Mutant: the crop is taken for the selection that is shown.
PreviewResultForShown(result) ==
    /\ results' = results \ {result}
    /\ last' = [last EXCEPT !.preview = result.preview]
    /\ UNCHANGED <<browserVars, lastId, owners, creating, job, lastJob, pump, cropping,
                   gatewayVars, captureVars, routed>>

\* selection_preview_result
PreviewResult(result) ==
    /\ results' = results \ {result}
    /\ SetPreview(result.id, result.preview)
    /\ UNCHANGED <<browserVars, lastId, owners, creating, job, lastJob, pump, cropping,
                   gatewayVars, captureVars, routed>>

\* selection_preview_retry: the button is there while the preview has failed.
Retry ==
    /\ last.preview = Failed
    /\ lastJob # 0
    /\ last.id = Local(lastJob)
    /\ last' = [last EXCEPT !.preview = Pending]
    /\ Enqueue(lastJob, last')
    /\ UNCHANGED <<browserVars, lastId, owners, creating, cropping, results,
                   gatewayVars, captureVars, routed>>

-------------------------------------------------------------------------------
(* Selections                                                              *)

\* selection_captured, after the selection has been stored.
SelectionCaptured ==
    LET n == Cardinality(DOMAIN tabOf) + 1
    IN  /\ n <= (IF "navigates" \in scenario THEN 1 ELSE MaxCaptures)
        /\ "overlap" \in scenario \/ requests = {}
        /\ activeTab \in openTabs
        /\ tabOf' = MapSet(tabOf, n, activeTab)
        /\ pageOf' = MapSet(pageOf, n, shows[activeTab])
        /\ last' = [id |-> Local(n), of |-> n, synced |-> FALSE, preview |-> Pending]
        /\ lastId' = Local(n)
        /\ owners' = MapSet(owners, Local(n), activeTab)
        /\ Enqueue(n, last')
        /\ IF connected
           THEN /\ requests' = requests \cup {[kind |-> "create", of |-> n, id |-> n]}
                /\ creating' = MapSet(creating, n, activeTab)
           ELSE UNCHANGED <<requests, creating>>
        /\ UNCHANGED <<browserVars, cropping, results, attached, routed, others>>

\* An edit or a screenshot of the selection the panel shows.
SendOther ==
    /\ "others" \in scenario
    /\ others < MaxOthers
    /\ connected
    /\ lastId[1] = "remote"
    /\ others' = others + 1
    /\ requests' = requests \cup {[kind |-> "other", of |-> lastId[2], id |-> MaxCaptures + others']}
    /\ UNCHANGED <<browserVars, selectionVars, previewVars, attached, captureVars, routed>>

\* Mutant: the owner stays recorded under the local id.
AcceptedWithoutOwner(request) ==
    LET id == Remote(request.of)
    IN  /\ requests' = requests \ {request}
        /\ attached' = IF request.kind = "create" THEN attached \cup {request.of} ELSE attached
        /\ lastId' = id
        /\ last' = [last EXCEPT !.id = id, !.synced = TRUE]
        /\ creating' = IF request.kind = "create" THEN MapDelete(creating, request.of) ELSE creating
        /\ UNCHANGED <<browserVars, previewVars, captureVars, routed, others, owners>>

\* onSelectionResult of an accepted request: whatever it was, the record that is
\* shown gets the id it names.  Only the answer to a create says who owns it.
Accepted(request) ==
    LET id == Remote(request.of)
        owned == request.kind = "create" /\ request.of \in DOMAIN creating
    IN  /\ requests' = requests \ {request}
        /\ attached' = IF request.kind = "create" THEN attached \cup {request.of} ELSE attached
        /\ lastId' = id
        /\ last' = [last EXCEPT !.id = id, !.synced = TRUE]
        /\ owners' = IF ~owned THEN owners
                     ELSE MapSet(IF lastId = id THEN owners ELSE MapDelete(owners, lastId),
                                 id, creating[request.of])
        /\ creating' = IF owned THEN MapDelete(creating, request.of) ELSE creating
        /\ UNCHANGED <<browserVars, previewVars, captureVars, routed, others>>

Refused(request) ==
    /\ "refused" \in scenario
    /\ requests' = requests \ {request}
    /\ last' = [last EXCEPT !.synced = FALSE]
    /\ creating' = IF request.kind = "create" THEN MapDelete(creating, request.of) ELSE creating
    /\ UNCHANGED <<browserVars, lastId, owners, previewVars, attached, others, captureVars, routed>>

\* The connection is lost or comes back; nobody repeats what was not answered.
Drop ==
    /\ "dropped" \in scenario
    /\ connected' = ~connected
    /\ requests' = {}
    /\ UNCHANGED <<scenario, activeTab, openTabs, shows, selectionVars, previewVars, attached, others,
                   captureVars, routed>>

-------------------------------------------------------------------------------
(* Tabs and agent previews                                                 *)

SwitchTab ==
    /\ "switch" \in scenario
    /\ activeTab' \in openTabs
    /\ UNCHANGED <<scenario, openTabs, shows, connected, selectionVars, previewVars, gatewayVars,
                   captureVars, routed>>

CloseTab(tab) ==
    /\ "closed" \in scenario
    /\ openTabs' = openTabs \ {tab}
    /\ activeTab' = IF activeTab = tab /\ openTabs' # {}
                    THEN CHOOSE t \in openTabs' : TRUE ELSE activeTab
    /\ UNCHANGED <<scenario, shows, connected, selectionVars, previewVars, gatewayVars, captureVars, routed>>

\* A tab goes to another page, and the worker does not listen.
Navigate(tab) ==
    /\ "navigates" \in scenario
    /\ tab \in openTabs
    /\ \E other \in Tabs : shows' = [shows EXCEPT ![tab] = UrlOf[other]]
    /\ UNCHANGED <<scenario, activeTab, openTabs, connected, selectionVars, previewVars,
                   gatewayVars, captureVars, routed>>

\* Mutant: without an owner the active tab is taken.
PreviewTabsActive(n) ==
    LET id == Remote(n)
    IN  IF id \in DOMAIN owners /\ owners[id] \in openTabs THEN {owners[id]}
        ELSE {activeTab} \cap openTabs

\* resolvePreviewTabId: the tab that owns the selection, whatever it shows by now, else
\* one that shows the page the command names; tabs are searched in the browser's order.
PreviewTabs(n) ==
    LET id == Remote(n)
        twins == {tab \in openTabs : shows[tab] = pageOf[n]}
    IN  IF id \in DOMAIN owners /\ owners[id] \in openTabs THEN {owners[id]} ELSE twins

RoutePreview(n) ==
    /\ "agent" \in scenario
    /\ connected
    /\ n \in attached
    /\ \E tab \in PreviewTabs(n) :
          /\ routed' = routed \cup {[of |-> n, tab |-> tab, page |-> shows[tab]]}
          /\ owners' = MapSet(owners, Remote(n), tab)
    /\ UNCHANGED <<browserVars, last, lastId, creating, previewVars, gatewayVars, captureVars>>

\* No tab is left: the owner that was recorded is forgotten.
RefusePreview(n) ==
    /\ "agent" \in scenario
    /\ connected
    /\ n \in attached
    /\ PreviewTabs(n) = {}
    /\ owners' = MapDelete(owners, Remote(n))
    /\ UNCHANGED <<browserVars, last, lastId, creating, previewVars, gatewayVars, captureVars, routed>>

-------------------------------------------------------------------------------
(* Specification                                                           *)

Init ==
    /\ scenario \in Scenarios
    /\ connected = ("connected" \in scenario)
    /\ activeTab \in Tabs
    /\ openTabs = Tabs
    /\ shows = UrlOf
    /\ last = [id |-> NoId, of |-> 0, synced |-> FALSE, preview |-> Failed]
    /\ lastId = NoId
    /\ owners = EmptyMap
    /\ creating = EmptyMap
    /\ job = 0
    /\ lastJob = 0
    /\ pump = Idle
    /\ cropping = {}
    /\ results = {}
    /\ requests = {}
    /\ attached = {}
    /\ tabOf = EmptyMap
    /\ pageOf = EmptyMap
    /\ routed = {}
    /\ others = 0

PreviewStep ==
    \/ AfterWait \/ Screenshot \/ ScreenshotRefused \/ AfterPause
    \/ \E frame \in cropping : PanelCrops(frame) \/ PanelGone(frame)
    \/ \E result \in results : PreviewResult(result)

Next ==
    \/ SelectionCaptured \/ SendOther \/ Drop \/ SwitchTab \/ Retry
    \/ \E request \in requests : Accepted(request) \/ Refused(request)
    \/ PreviewStep
    \/ \E tab \in Tabs : CloseTab(tab) \/ Navigate(tab)
    \/ \E n \in Captures : RoutePreview(n) \/ RefusePreview(n)

Spec == Init /\ [][Next]_vars

\* Timers end, screenshots are answered, messages between worker and panel
\* arrive.  Nothing is assumed of the user, the gateway or the network.
FairSpec == Spec /\ WF_vars(PreviewStep)

-------------------------------------------------------------------------------
(* Properties                                                              *)

Without(circumstances) == scenario \cap circumstances = {}

\* The preview that is shown with a selection is an image of its own element,
\* however quickly elements are selected one after the other ("newer click
\* replaces preview job"), and of its own tab, if that stays active.
PreviewShowsElement ==
    last.preview.state = "ready" =>
        /\ last.preview.of = last.of
        /\ Without({"switch", "closed"}) => last.preview.tab = tabOf[last.of]

\* Every selection the gateway has taken has its tab, so that a preview of the
\* agent finds the way to it ("Extension tracks selectionId -> tabId via capture
\* sender + bridge requestId ack").  Not when answers to other requests come
\* between a selection and its answer: then the id to be replaced is another's.
AttachedHaveOwners ==
    Without({"overlap", "others", "agent"}) =>
        \A n \in attached : Remote(n) \in DOMAIN owners /\ owners[Remote(n)] = tabOf[n]

\* A preview of the agent is applied in the tab its selection was made in, or in one that
\* was found showing the same page: "no cross-tab selector resolution" (EDGE-004),
\* whichever answers, drops and closed tabs came before.  That the tab shows the page
\* of the selection leaves out tabs that go to other pages: a tab that owns the selection
\* is taken without a look at what it shows.
PreviewsStayOnPage ==
    \A r \in routed :
        /\ \/ r.tab = tabOf[r.of]
           \/ \E found \in routed :
                /\ found.of = r.of /\ found.tab = r.tab
                /\ found.page = pageOf[r.of]
        /\ Without({"navigates"}) => r.page = pageOf[r.of]

\* The preview of a selection does not stay pending: "Local selection + preview
\* still work" without OpenClaw; a failure is shown and can be retried.  With a
\* connection it is left pending when the gateway answers before the screenshot
\* is there.
PreviewSettles ==
    (last.preview.state = "pending" /\ Without({"connected"}))
        ~> last.preview.state # "pending"

===============================================================================
