------------------------------ MODULE CaptureProofs ------------------------------
(***************************************************************************)
(* Theorems about Capture for every value of its constants: agent previews stay on *)
(* the page their selection was made in, the preview image shown with a            *)
(* selection is of its own element, and a chip attached has its owner recorded.    *)
(***************************************************************************)
EXTENDS Capture, SequenceTheorems, FiniteSetTheorems, Integers, TLAPS

-------------------------------------------------------------------------------
(* Agent previews                                                          *)

Selected == DOMAIN tabOf

\* Captures are numbered in order.
NumberedInv == Selected = 1 .. Cardinality(Selected) /\ Cardinality(Selected) \in Nat

\* A tab is the capture's own, or a preview of the capture has found it to show its
\* page; and it shows the page, unless tabs go to other pages.
Reaches(n, tab) ==
    /\ \/ tab = tabOf[n]
       \/ \E found \in routed : found.of = n /\ found.tab = tab /\ found.page = pageOf[n]
    /\ Without({"navigates"}) => shows[tab] = pageOf[n]

\* Whatever names a capture names one that was made, and an owner recorded under the
\* gateway's id reaches its capture: it comes from the capture's own tab by way of the
\* create that is answered, or from a preview that found a tab of the page.
PagesInv ==
    /\ NumberedInv /\ Selected \subseteq DOMAIN pageOf
    /\ \A n \in DOMAIN creating : n \in Selected /\ creating[n] = tabOf[n]
    /\ \A request \in requests : request.of \in Selected
    /\ attached \subseteq Selected
    /\ lastId[1] = "remote" => lastId[2] \in Selected
    /\ \A n \in Selected : Reaches(n, tabOf[n])
    /\ \A id \in DOMAIN owners :
          id[1] = "remote" => id[2] \in Selected /\ Reaches(id[2], owners[id])
    /\ \A r \in routed : r.of \in Selected
    /\ PreviewsStayOnPage

\* A capture has a number of its own; the others keep their tabs.
LEMMA NewCapture ==
    ASSUME NumberedInv, NEW tab, tabOf' = MapSet(tabOf, Cardinality(Selected) + 1, tab)
    PROVE  LET n == Cardinality(Selected) + 1 IN
           /\ NumberedInv'
           /\ n \notin Selected /\ Selected' = Selected \cup {n} /\ tabOf'[n] = tab
           /\ \A m \in Selected : tabOf'[m] = tabOf[m]
<1> DEFINE k == Cardinality(Selected)
<1>1. k \in Nat /\ Selected = 1 .. k
    BY DEF NumberedInv
<1>2. /\ DOMAIN tabOf' = DOMAIN tabOf \cup {k + 1}
      /\ tabOf'[k + 1] = tab
      /\ \A m \in DOMAIN tabOf : m # k + 1 => tabOf'[m] = tabOf[m]
    BY DEF MapSet
<1>3. Selected' = Selected \cup {k + 1}
    BY <1>2 DEF Selected
<1> HIDE DEF k
<1>4. Selected' = 1 .. (k + 1) /\ k + 1 \notin Selected
    BY <1>1, <1>3
<1>5. Cardinality(Selected') = k + 1
    <2>1. k + 1 >= 1 /\ k + 1 \in Int
        BY <1>1
    <2> QED BY <1>4, <2>1, FS_Interval
<1>6. NumberedInv'
    <2>1. (k + 1) \in Nat
        BY <1>1
    <2> QED BY <1>4, <1>5, <2>1 DEF NumberedInv
<1> QED BY <1>2, <1>3, <1>4, <1>6 DEF k, Selected

\* A tab goes on reaching a capture while nothing is forgotten.
LEMMA GoesOnReaching ==
    ASSUME NEW n, NEW tab, Reaches(n, tab), UNCHANGED scenario,
           Without({"navigates"}) => shows' = shows,
           routed \subseteq routed', tabOf'[n] = tabOf[n], pageOf'[n] = pageOf[n]
    PROVE  Reaches(n, tab)'
BY DEF Reaches, Without

\* A step that makes no capture leaves the pages of the captures alone.
LEMMA SamePages ==
    ASSUME PagesInv, UNCHANGED <<scenario, tabOf, pageOf, creating, attached, lastId, owners, routed>>,
           Without({"navigates"}) => shows' = shows,
           requests' \subseteq requests
    PROVE  PagesInv'
BY DEF PagesInv, NumberedInv, Selected, PreviewsStayOnPage, Reaches, Without

\* Previews that were applied stay where they were, whatever is captured since.
LEMMA AppliedStay ==
    ASSUME PreviewsStayOnPage, UNCHANGED <<scenario, routed>>,
           \A r \in routed : tabOf'[r.of] = tabOf[r.of] /\ pageOf'[r.of] = pageOf[r.of]
    PROVE  PreviewsStayOnPage'
BY DEF PreviewsStayOnPage, Without

\* Every step keeps the captures and their pages.
LEMMA StepKeepsPages ==
    ASSUME PagesInv, [Next]_vars
    PROVE  PagesInv'
<1> USE DEF gatewayVars, previewVars, browserVars, selectionVars, captureVars
<1>1. CASE SelectionCaptured
    <2>0. PICK n : n = Cardinality(Selected) + 1
        OBVIOUS
    <2>1. /\ NumberedInv'
          /\ n \notin Selected /\ Selected' = Selected \cup {n} /\ tabOf'[n] = activeTab
          /\ \A m \in Selected : tabOf'[m] = tabOf[m]
        <3>1. tabOf' = MapSet(tabOf, Cardinality(Selected) + 1, activeTab)
            BY <1>1 DEF SelectionCaptured, Selected
        <3> QED BY <2>0, <3>1, NewCapture DEF PagesInv
    <2>2. /\ lastId' = Local(n) /\ owners' = MapSet(owners, Local(n), activeTab)
          /\ pageOf' = MapSet(pageOf, n, shows[activeTab])
          /\ UNCHANGED <<attached, routed, scenario, shows>>
          /\ \/ requests' = requests \cup {[kind |-> "create", of |-> n, id |-> n]}
                /\ creating' = MapSet(creating, n, activeTab)
             \/ UNCHANGED <<requests, creating>>
        BY <1>1, <2>0 DEF SelectionCaptured, Selected
    <2>3. \A m \in DOMAIN creating' : m \in Selected' /\ creating'[m] = tabOf'[m]
        <3>1. CASE creating' = MapSet(creating, n, activeTab)
            BY <2>1, <3>1 DEF PagesInv, MapSet
        <3>2. CASE creating' = creating
            BY <2>1, <3>2 DEF PagesInv
        <3> QED BY <2>2, <3>1, <3>2
    <2>4. \A request \in requests' : request.of \in Selected'
        BY <2>1, <2>2 DEF PagesInv
    <2>5. lastId'[1] # "remote"
        BY <2>2 DEF Local
    <2>6. /\ pageOf'[n] = shows[activeTab] /\ DOMAIN pageOf' = DOMAIN pageOf \cup {n}
          /\ \A m \in DOMAIN pageOf : m # n => pageOf'[m] = pageOf[m]
        BY <2>2 DEF MapSet
    <2>7. \A m \in Selected : tabOf'[m] = tabOf[m] /\ pageOf'[m] = pageOf[m]
        BY <2>1, <2>6 DEF PagesInv
    <2>8. ASSUME NEW m \in Selected, NEW tab, Reaches(m, tab)
          PROVE  Reaches(m, tab)'
        BY <2>2, <2>7, <2>8, GoesOnReaching
    <2>9. ASSUME NEW id \in DOMAIN owners', id[1] = "remote"
          PROVE  id[2] \in Selected' /\ Reaches(id[2], owners[id])' /\ owners'[id] = owners[id]
        <3>1. id # Local(n)
            BY <2>9 DEF Local
        <3>2. id \in DOMAIN owners /\ owners'[id] = owners[id]
            BY <2>2, <2>9, <3>1 DEF MapSet
        <3>3. id[2] \in Selected /\ Reaches(id[2], owners[id])
            BY <2>9, <3>2 DEF PagesInv
        <3> QED BY <2>1, <2>8, <3>2, <3>3 DEF Reaches
    <2>10. \A m \in Selected' : Reaches(m, tabOf[m])'
        <3>1. Reaches(n, tabOf[n])'
            <4>1. tabOf'[n] = activeTab /\ shows'[activeTab] = pageOf'[n]
                BY <2>1, <2>2, <2>6
            <4> QED BY <4>1 DEF Reaches
        <3>2. ASSUME NEW m \in Selected
              PROVE  Reaches(m, tabOf[m])'
            <4>1. PICK tab : tab = tabOf[m] /\ Reaches(m, tab)
                BY DEF PagesInv
            <4>2. Reaches(m, tab)' /\ tabOf'[m] = tab
                BY <2>7, <2>8, <4>1
            <4> QED BY <4>2 DEF Reaches
        <3> QED BY <2>1, <3>1, <3>2
    <2>11. PreviewsStayOnPage' /\ \A r \in routed' : r.of \in Selected'
        BY <2>1, <2>2, <2>7, AppliedStay DEF PagesInv
    <2>12. attached' \subseteq Selected'
        BY <2>1, <2>2 DEF PagesInv
    <2>13. Selected' \subseteq DOMAIN pageOf'
        BY <2>1, <2>6 DEF PagesInv
    <2> QED BY <2>1, <2>3, <2>4, <2>5, <2>9, <2>10, <2>11, <2>12, <2>13 DEF PagesInv
<1>2. CASE SendOther
    <2>1. lastId[2] \in Selected
        BY <1>2 DEF SendOther, PagesInv
    <2>2. /\ UNCHANGED <<scenario, shows, tabOf, pageOf, creating, attached, lastId, owners, routed>>
          /\ requests' = requests \cup
                {[kind |-> "other", of |-> lastId[2], id |-> MaxCaptures + others']}
        BY <1>2 DEF SendOther
    <2>3. \A request \in requests' : request.of \in Selected
        BY <2>1, <2>2 DEF PagesInv
    <2> QED BY <2>2, <2>3 DEF PagesInv, NumberedInv, Selected, PreviewsStayOnPage, Reaches, Without
<1>3. ASSUME NEW request \in requests, Accepted(request)
      PROVE  PagesInv'
    <2> DEFINE n == request.of
               owned == request.kind = "create" /\ n \in DOMAIN creating
    <2>1. n \in Selected
        BY DEF PagesInv
    <2>2. /\ UNCHANGED <<scenario, shows, tabOf, pageOf, routed>> /\ requests' \subseteq requests
          /\ attached' \subseteq attached \cup {n} /\ lastId' = Remote(n)
          /\ owners' = IF ~owned THEN owners
                       ELSE MapSet(IF lastId = Remote(n) THEN owners ELSE MapDelete(owners, lastId),
                                   Remote(n), creating[n])
          /\ creating' = IF owned THEN MapDelete(creating, n) ELSE creating
        BY <1>3 DEF Accepted
    <2>3. \A m \in DOMAIN creating' : m \in DOMAIN creating /\ creating'[m] = creating[m]
        BY <2>2 DEF MapDelete
    <2>4. Selected' = Selected /\ NumberedInv'
        BY <2>2 DEF Selected, NumberedInv, PagesInv
    <2>5. ASSUME NEW id \in DOMAIN owners', id[1] = "remote"
          PROVE  id[2] \in Selected /\ \E tab : owners'[id] = tab /\ Reaches(id[2], tab)
        <3>1. CASE owned /\ id = Remote(n)
            <4>1. owners'[id] = creating[n] /\ creating[n] = tabOf[n]
                BY <2>2, <3>1 DEF PagesInv, MapSet
            <4>2. id[2] = n
                BY <3>1 DEF Remote
            <4> QED BY <2>1, <4>1, <4>2 DEF PagesInv
        <3>2. CASE ~(owned /\ id = Remote(n))
            <4>1. id \in DOMAIN owners /\ owners'[id] = owners[id]
                <5>1. CASE ~owned
                    BY <2>2, <2>5, <5>1
                <5>2. CASE owned /\ lastId = Remote(n)
                    <6>1. owners' = MapSet(owners, Remote(n), creating[n])
                        BY <2>2, <5>2
                    <6> QED BY <2>5, <3>2, <5>2, <6>1 DEF MapSet
                <5>3. CASE owned /\ lastId # Remote(n)
                    <6>1. owners' = MapSet(MapDelete(owners, lastId), Remote(n), creating[n])
                        BY <2>2, <5>3
                    <6>2. id \in DOMAIN MapDelete(owners, lastId)
                          /\ owners'[id] = MapDelete(owners, lastId)[id]
                        BY <2>5, <3>2, <5>3, <6>1 DEF MapSet
                    <6> QED BY <6>2 DEF MapDelete
                <5> QED BY <5>1, <5>2, <5>3
            <4> QED BY <2>5, <4>1 DEF PagesInv
        <3> QED BY <3>1, <3>2
    <2>6. lastId'[2] = n
        BY <2>2 DEF Remote
    <2> HIDE DEF n
    <2>7. \A m, tab : Reaches(m, tab)' <=> Reaches(m, tab)
        BY <2>2 DEF Reaches, Without
    <2>8. \A id \in DOMAIN owners' :
              id[1] = "remote" => id[2] \in Selected' /\ Reaches(id[2], owners[id])'
        BY <2>2, <2>4, <2>5 DEF Reaches, Without
    <2>9. (\A m \in Selected : Reaches(m, tabOf[m]))'
        BY <2>2, <2>4 DEF PagesInv, Reaches, Without
    <2>10. PreviewsStayOnPage' /\ \A r \in routed' : r.of \in Selected'
        BY <2>2, <2>4, AppliedStay DEF PagesInv
    <2>11. (\A m \in DOMAIN creating : m \in Selected /\ creating[m] = tabOf[m])'
           /\ (\A other \in requests : other.of \in Selected)' /\ (attached \subseteq Selected)'
           /\ (Selected \subseteq DOMAIN pageOf)'
        BY <2>1, <2>2, <2>3, <2>4 DEF PagesInv
    <2> QED BY <2>1, <2>4, <2>6, <2>8, <2>9, <2>10, <2>11 DEF PagesInv
<1>4. ASSUME NEW request \in requests, Refused(request)
      PROVE  PagesInv'
    <2>1. /\ UNCHANGED <<scenario, shows, tabOf, pageOf, attached, lastId, owners, routed>>
          /\ requests' \subseteq requests
          /\ creating' = IF request.kind = "create" THEN MapDelete(creating, request.of) ELSE creating
        BY <1>4 DEF Refused
    <2>2. \A m \in DOMAIN creating' : m \in DOMAIN creating /\ creating'[m] = creating[m]
        BY <2>1 DEF MapDelete
    <2> QED BY <2>1, <2>2 DEF PagesInv, NumberedInv, Selected, PreviewsStayOnPage, Reaches, Without
<1>5. ASSUME NEW n \in Captures, RoutePreview(n)
      PROVE  PagesInv'
    <2>1. n \in Selected
        BY <1>5 DEF RoutePreview, PagesInv
    <2>2. PICK tab \in PreviewTabs(n) :
              /\ routed' = routed \cup {[of |-> n, tab |-> tab, page |-> shows[tab]]}
              /\ owners' = MapSet(owners, Remote(n), tab)
        BY <1>5 DEF RoutePreview
    <2>3. Remote(n)[1] = "remote" /\ Remote(n)[2] = n
        BY DEF Remote
    <2>4. UNCHANGED <<scenario, shows, tabOf, pageOf, creating, attached, lastId, requests>>
        BY <1>5 DEF RoutePreview
    <2> DEFINE new == [of |-> n, tab |-> tab, page |-> shows[tab]]
    <2>5. new.of = n /\ new.tab = tab /\ new.page = shows[tab] /\ routed' = routed \cup {new}
        BY <2>2
    <2> HIDE DEF new
    <2>6. Reaches(n, tab) \/ shows[tab] = pageOf[n]
        BY <2>2, <2>3 DEF PreviewTabs, PagesInv
    <2>7. \A m, other : Reaches(m, other) => Reaches(m, other)'
        BY <2>4, <2>5 DEF Reaches, Without
    <2>8. Reaches(n, tab)'
        <3>1. CASE shows[tab] = pageOf[n]
            BY <2>4, <2>5, <3>1 DEF Reaches
        <3> QED BY <2>6, <2>7, <3>1
    <2>9. ASSUME NEW id \in DOMAIN owners', id[1] = "remote"
          PROVE  id[2] \in Selected /\ \E other : owners'[id] = other /\ Reaches(id[2], other)'
        <3>1. CASE id = Remote(n)
            BY <2>1, <2>2, <2>3, <2>8, <3>1 DEF MapSet
        <3>2. CASE id # Remote(n)
            <4>1. id \in DOMAIN owners /\ owners'[id] = owners[id]
                BY <2>2, <2>9, <3>2 DEF MapSet
            <4> QED BY <2>7, <2>9, <4>1 DEF PagesInv
        <3> QED BY <3>1, <3>2
    <2>10. Selected' = Selected
        BY <2>4 DEF Selected
    <2>11. \A id \in DOMAIN owners' :
              id[1] = "remote" => id[2] \in Selected' /\ Reaches(id[2], owners[id])'
        BY <2>9, <2>10 DEF Reaches
    <2>12. (\A m \in Selected : Reaches(m, tabOf[m]))'
        BY <2>4, <2>5, <2>10 DEF PagesInv, Reaches, Without
    <2>13. \A r \in routed' :
              /\ r.of \in Selected
              /\ \/ r.tab = tabOf[r.of]
                 \/ \E found \in routed' :
                        found.of = r.of /\ found.tab = r.tab /\ found.page = pageOf[r.of]
              /\ Without({"navigates"}) => r.page = pageOf[r.of]
        <3>1. ASSUME NEW r \in routed
              PROVE  /\ r.of \in Selected
                     /\ \/ r.tab = tabOf[r.of]
                        \/ \E found \in routed' :
                               found.of = r.of /\ found.tab = r.tab /\ found.page = pageOf[r.of]
                     /\ Without({"navigates"}) => r.page = pageOf[r.of]
            BY <2>5 DEF PagesInv, PreviewsStayOnPage
        <3>2. /\ new.of \in Selected
              /\ \/ new.tab = tabOf[new.of]
                 \/ \E found \in routed' :
                        found.of = new.of /\ found.tab = new.tab /\ found.page = pageOf[new.of]
              /\ Without({"navigates"}) => new.page = pageOf[new.of]
            BY <2>1, <2>4, <2>5, <2>8 DEF Reaches, Without
        <3> QED BY <2>5, <3>1, <3>2
    <2>14. PreviewsStayOnPage' /\ \A r \in routed' : r.of \in Selected'
        BY <2>4, <2>10, <2>13 DEF PreviewsStayOnPage, Without
    <2> QED BY <2>4, <2>10, <2>11, <2>12, <2>14 DEF PagesInv, NumberedInv
<1>6. ASSUME NEW n \in Captures, RefusePreview(n)
      PROVE  PagesInv'
    <2>1. /\ UNCHANGED <<scenario, shows, tabOf, pageOf, creating, attached, lastId, requests, routed>>
          /\ owners' = MapDelete(owners, Remote(n))
        BY <1>6 DEF RefusePreview
    <2>2. \A id \in DOMAIN owners' : id \in DOMAIN owners /\ owners'[id] = owners[id]
        BY <2>1 DEF MapDelete
    <2> QED BY <2>1, <2>2 DEF PagesInv, NumberedInv, Selected, PreviewsStayOnPage, Reaches, Without
<1>7. CASE Drop \/ SwitchTab \/ Retry \/ \E tab \in Tabs : CloseTab(tab) \/ Navigate(tab)
    <2>1. /\ UNCHANGED <<scenario, tabOf, pageOf, creating, attached, lastId, owners, routed>>
          /\ Without({"navigates"}) => shows' = shows
          /\ requests' \subseteq requests
        BY <1>7 DEF Drop, SwitchTab, Retry, CloseTab, Navigate, Without
    <2> QED BY <2>1, SamePages
<1>8. CASE PreviewStep
    <2>1. UNCHANGED <<scenario, shows, tabOf, pageOf, creating, attached, lastId, owners, routed, requests>>
        BY <1>8 DEF PreviewStep, AfterWait, Screenshot, ScreenshotRefused, AfterPause, PanelCrops,
                    PanelGone, PreviewResult
    <2> QED BY <2>1, SamePages
<1>9. CASE UNCHANGED vars
    BY <1>9, SamePages DEF vars
<1> QED BY <1>1, <1>2, <1>3, <1>4, <1>5, <1>6, <1>7, <1>8, <1>9 DEF Next

\* No capture has been made at first.
LEMMA PagesInit == Init => PagesInv
<1> SUFFICES ASSUME Init PROVE PagesInv
    OBVIOUS
<1>1. /\ DOMAIN tabOf = {} /\ DOMAIN creating = {} /\ DOMAIN owners = {}
      /\ requests = {} /\ attached = {} /\ routed = {} /\ lastId = NoId
    BY DEF Init, EmptyMap
<1>2. Selected = {} /\ Cardinality(Selected) = 0
    BY <1>1, FS_EmptySet DEF Selected
<1>3. NumberedInv
    BY <1>2 DEF NumberedInv
<1> QED BY <1>1, <1>2, <1>3 DEF PagesInv, PreviewsStayOnPage, NoId

\* The captures are numbered, and what names one names its page.
THEOREM CapturesKeepPages == Spec => []PagesInv
<1>1. PagesInv /\ [Next]_vars => PagesInv'
    BY StepKeepsPages
<1> QED BY <1>1, PagesInit, PTL DEF Spec

\* A preview of the agent is applied in the tab its selection was made in, or in one that
\* was found showing the same page, whichever answers, drops and closed tabs came before;
\* and the tab shows that page, unless tabs go to other pages.
THEOREM PreviewsKeepPage == Spec => []PreviewsStayOnPage
<1>1. PagesInv => PreviewsStayOnPage
    BY DEF PagesInv
<1> QED BY <1>1, CapturesKeepPages, PTL

-------------------------------------------------------------------------------
(* Preview images                                                          *)

OneActiveTab == Without({"switch", "closed"})

\* An image shows the capture that its frame was taken for, and that capture's tab.
Shows(image) == image.of \in Selected /\ (OneActiveTab => image.tab = tabOf[image.of])

\* Jobs, frames and crops are of captures that were made, and each carries the local id
\* of its capture, so that none is put on another selection; the record keeps the
\* capture it describes when its local id is replaced by the gateway's.
ImagesInv ==
    /\ OneActiveTab => \A n \in Selected : tabOf[n] = activeTab
    /\ job # 0 => job \in Selected
    /\ lastJob # 0 => lastJob \in Selected
    /\ pump # Idle => pump.of \in Selected
    /\ \A frame \in cropping : Shows(frame)
    /\ \A result \in results :
          result.preview.state = "ready" =>
              result.id = Local(result.preview.of) /\ Shows(result.preview)
    /\ last.id[1] = "local" => last.id[2] = last.of
    /\ last.preview.state = "ready" => last.preview.of = last.of /\ Shows(last.preview)

\* The records that EXCEPT changes have their fields.
RecordsOK ==
    /\ last = [id |-> last.id, of |-> last.of, synced |-> last.synced, preview |-> last.preview]
    /\ pump = [stage |-> pump.stage, of |-> pump.of, attempt |-> pump.attempt]

PreviewInv == NumberedInv /\ RecordsOK /\ ImagesInv

\* What the loop takes up is a capture.
LEMMA TakenJobs ==
    ASSUME PreviewInv, NEW latest, NEW selection, latest # 0 => latest \in Selected,
           TakeJob(latest, selection)
    PROVE  /\ job' # 0 => job' \in Selected
           /\ pump' # Idle => pump'.of \in Selected
           /\ pump' = [stage |-> pump'.stage, of |-> pump'.of, attempt |-> pump'.attempt]
<1>1. job' = 0
    BY DEF TakeJob
<1>2. pump' = Idle \/ (latest \in Selected /\ pump' = [stage |-> "waiting", of |-> latest, attempt |-> 0])
    BY DEF TakeJob
<1> QED BY <1>1, <1>2 DEF Idle

\* Setting the preview of a selection by its id changes nothing else of the record, and
\* an image is only put on the selection it shows.
LEMMA SetPreviewFacts ==
    ASSUME PreviewInv, NEW id, NEW preview, SetPreview(id, preview),
           preview.state = "ready" => id = Local(preview.of) /\ Shows(preview)
    PROVE  /\ last' = [id |-> last'.id, of |-> last'.of, synced |-> last'.synced,
                       preview |-> last'.preview]
           /\ last'.id = last.id /\ last'.of = last.of
           /\ last'.preview.state = "ready" => last'.preview.of = last.of /\ Shows(last'.preview)
<1>1. last = [id |-> last.id, of |-> last.of, synced |-> last.synced, preview |-> last.preview]
    BY DEF PreviewInv, RecordsOK
<1>2. CASE last.id = id
    <2>1. last' = [id |-> last.id, of |-> last.of, synced |-> last.synced, preview |-> preview]
        BY <1>1, <1>2 DEF SetPreview
    <2>2. ASSUME preview.state = "ready"
          PROVE  preview.of = last.of
        <3>1. last.id[1] = "local" /\ last.id[2] = preview.of
            BY <1>2, <2>2 DEF Local
        <3> QED BY <3>1 DEF PreviewInv, ImagesInv
    <2> QED BY <2>1, <2>2
<1>3. CASE last.id # id
    <2>1. last' = last
        BY <1>3 DEF SetPreview
    <2> QED BY <1>1, <2>1 DEF PreviewInv, ImagesInv
<1> QED BY <1>2, <1>3

\* Failed and pending previews are no images.
LEMMA NoImages == Pending.state # "ready" /\ Failed.state # "ready"
BY DEF Pending, Failed

\* A step of the preview queue, the panel or the retry button keeps the images, when it
\* leaves jobs, frames, crops and the record as they must be.
LEMMA KeepsImages ==
    ASSUME PreviewInv, UNCHANGED <<tabOf, activeTab, scenario>>,
           job' # 0 => job' \in Selected, lastJob' # 0 => lastJob' \in Selected,
           pump' # Idle => pump'.of \in Selected,
           pump' = [stage |-> pump'.stage, of |-> pump'.of, attempt |-> pump'.attempt],
           last' = [id |-> last'.id, of |-> last'.of, synced |-> last'.synced,
                    preview |-> last'.preview],
           \A frame \in cropping' : Shows(frame),
           \A result \in results' :
               result.preview.state = "ready" =>
                   result.id = Local(result.preview.of) /\ Shows(result.preview),
           last'.id[1] = "local" => last'.id[2] = last'.of,
           last'.preview.state = "ready" => last'.preview.of = last'.of /\ Shows(last'.preview)
    PROVE  PreviewInv'
<1>1. Selected' = Selected /\ (OneActiveTab' <=> OneActiveTab) /\ NumberedInv'
    BY DEF Selected, OneActiveTab, Without, PreviewInv, NumberedInv
<1>2. \A frame \in cropping' : frame.of \in Selected /\ (OneActiveTab => frame.tab = tabOf[frame.of])
    BY DEF Shows
<1>3. \A result \in results' :
          result.preview.state = "ready" =>
              /\ result.id = Local(result.preview.of) /\ result.preview.of \in Selected
              /\ OneActiveTab => result.preview.tab = tabOf[result.preview.of]
    BY DEF Shows
<1>4. last'.preview.state = "ready" =>
          /\ last'.preview.of = last'.of /\ last'.preview.of \in Selected
          /\ OneActiveTab => last'.preview.tab = tabOf[last'.preview.of]
    BY DEF Shows
<1>5. OneActiveTab => \A n \in Selected : tabOf[n] = activeTab
    BY DEF PreviewInv, ImagesInv
<1>6. ImagesInv'
    BY <1>1, <1>2, <1>3, <1>4, <1>5 DEF ImagesInv, Shows
<1>7. RecordsOK'
    BY DEF RecordsOK
<1> QED BY <1>1, <1>6, <1>7 DEF PreviewInv

\* The steps of the queue and the panel keep the images.
LEMMA PreviewStepKeepsImages ==
    ASSUME PreviewInv, PreviewStep
    PROVE  PreviewInv'
<1> USE DEF browserVars, selectionVars, captureVars
<1>0. /\ job # 0 => job \in Selected
      /\ lastJob # 0 => lastJob \in Selected
      /\ pump # Idle => pump.of \in Selected
      /\ pump = [stage |-> pump.stage, of |-> pump.of, attempt |-> pump.attempt]
      /\ last = [id |-> last.id, of |-> last.of, synced |-> last.synced, preview |-> last.preview]
      /\ last.id[1] = "local" => last.id[2] = last.of
      /\ last.preview.state = "ready" => last.preview.of = last.of /\ Shows(last.preview)
    BY DEF PreviewInv, ImagesInv, RecordsOK
<1>1. \A frame \in cropping : Shows(frame)
    BY DEF PreviewInv, ImagesInv
<1>2. \A result \in results :
          result.preview.state = "ready" =>
              result.id = Local(result.preview.of) /\ Shows(result.preview)
    BY DEF PreviewInv, ImagesInv
<1>3. CASE AfterWait
    <2>1. UNCHANGED <<tabOf, activeTab, scenario, lastJob, last, cropping, results>>
        BY <1>3 DEF AfterWait
    <2>2. /\ job' # 0 => job' \in Selected
          /\ pump' # Idle => pump'.of \in Selected
          /\ pump' = [stage |-> pump'.stage, of |-> pump'.of, attempt |-> pump'.attempt]
        <3>1. CASE TakeJob(job, last)
            BY <1>0, <3>1, TakenJobs
        <3>2. CASE pump' = [pump EXCEPT !.stage = "capturing"] /\ UNCHANGED job
            <4>1. pump # Idle
                BY <1>3 DEF AfterWait, Idle
            <4> QED BY <1>0, <3>2, <4>1
        <3> QED BY <1>3, <3>1, <3>2 DEF AfterWait
    <2> QED BY <1>0, <1>1, <1>2, <2>1, <2>2, KeepsImages
<1>4. CASE Screenshot
    <2>1. UNCHANGED <<tabOf, activeTab, scenario, lastJob, last, results>> /\ TakeJob(job, last)
        BY <1>4 DEF Screenshot
    <2>2. /\ job' # 0 => job' \in Selected
          /\ pump' # Idle => pump'.of \in Selected
          /\ pump' = [stage |-> pump'.stage, of |-> pump'.of, attempt |-> pump'.attempt]
        BY <1>0, <2>1, TakenJobs
    <2>3. Shows([of |-> pump.of, tab |-> activeTab])
        <3>1. pump.of \in Selected
            BY <1>0, <1>4 DEF Screenshot, Idle
        <3>2. OneActiveTab => tabOf[pump.of] = activeTab
            BY <3>1 DEF PreviewInv, ImagesInv
        <3> QED BY <3>1, <3>2 DEF Shows
    <2>4. \A frame \in cropping' : Shows(frame)
        BY <1>1, <1>4, <2>3 DEF Screenshot
    <2> QED BY <1>0, <1>2, <2>1, <2>2, <2>4, KeepsImages
<1>5. CASE ScreenshotRefused
    <2>1. UNCHANGED <<tabOf, activeTab, scenario, lastJob, cropping, results>>
        BY <1>5 DEF ScreenshotRefused
    <2>2. /\ last' = [id |-> last'.id, of |-> last'.of, synced |-> last'.synced,
                      preview |-> last'.preview]
          /\ last'.id = last.id /\ last'.of = last.of
          /\ last'.preview.state = "ready" => last'.preview.of = last.of /\ Shows(last'.preview)
        BY <1>5, NoImages, SetPreviewFacts DEF ScreenshotRefused
    <2>3. /\ job' # 0 => job' \in Selected
          /\ pump' # Idle => pump'.of \in Selected
          /\ pump' = [stage |-> pump'.stage, of |-> pump'.of, attempt |-> pump'.attempt]
        <3>1. CASE TakeJob(job, last')
            BY <1>0, <3>1, TakenJobs
        <3>2. CASE pump' = [pump EXCEPT !.stage = "pausing"] /\ UNCHANGED job
            <4>1. pump # Idle
                BY <1>5 DEF ScreenshotRefused, Idle
            <4> QED BY <1>0, <3>2, <4>1
        <3> QED BY <1>5, <3>1, <3>2 DEF ScreenshotRefused
    <2> QED BY <1>0, <1>1, <1>2, <2>1, <2>2, <2>3, KeepsImages
<1>6. CASE AfterPause
    <2>1. UNCHANGED <<tabOf, activeTab, scenario, lastJob, last, cropping, results>>
        BY <1>6 DEF AfterPause
    <2>2. /\ job' # 0 => job' \in Selected
          /\ pump' # Idle => pump'.of \in Selected
          /\ pump' = [stage |-> pump'.stage, of |-> pump'.of, attempt |-> pump'.attempt]
        <3>1. CASE TakeJob(job, last)
            BY <1>0, <3>1, TakenJobs
        <3>2. CASE pump' = [pump EXCEPT !.stage = "capturing", !.attempt = @ + 1] /\ UNCHANGED job
            <4>1. pump # Idle
                BY <1>6 DEF AfterPause, Idle
            <4> QED BY <1>0, <3>2, <4>1
        <3> QED BY <1>6, <3>1, <3>2 DEF AfterPause
    <2> QED BY <1>0, <1>1, <1>2, <2>1, <2>2, KeepsImages
<1>7. ASSUME NEW frame \in cropping, PanelCrops(frame)
      PROVE  PreviewInv'
    <2>1. UNCHANGED <<tabOf, activeTab, scenario, job, lastJob, pump, last>>
          /\ cropping' \subseteq cropping
        BY <1>7 DEF PanelCrops
    <2>2. \A result \in results' :
              \/ result \in results
              \/ result = [id |-> Local(frame.of), preview |-> Ready(frame)]
              \/ result = [id |-> Local(frame.of), preview |-> Failed]
        BY <1>7 DEF PanelCrops
    <2>3. Ready(frame).of = frame.of /\ Shows(Ready(frame))
        BY <1>1 DEF Ready, Shows
    <2>4. \A result \in results' :
              result.preview.state = "ready" =>
                  result.id = Local(result.preview.of) /\ Shows(result.preview)
        BY <1>2, <2>2, <2>3, NoImages
    <2> QED BY <1>0, <1>1, <2>1, <2>4, KeepsImages
<1>8. ASSUME NEW frame \in cropping, PanelGone(frame)
      PROVE  PreviewInv'
    <2>1. UNCHANGED <<tabOf, activeTab, scenario, job, lastJob, pump, results>>
          /\ cropping' \subseteq cropping
        BY <1>8 DEF PanelGone
    <2>2. /\ last' = [id |-> last'.id, of |-> last'.of, synced |-> last'.synced,
                      preview |-> last'.preview]
          /\ last'.id = last.id /\ last'.of = last.of
          /\ last'.preview.state = "ready" => last'.preview.of = last.of /\ Shows(last'.preview)
        BY <1>8, NoImages, SetPreviewFacts DEF PanelGone
    <2> QED BY <1>0, <1>1, <1>2, <2>1, <2>2, KeepsImages
<1>9. ASSUME NEW result \in results, PreviewResult(result)
      PROVE  PreviewInv'
    <2>1. UNCHANGED <<tabOf, activeTab, scenario, job, lastJob, pump, cropping>>
          /\ results' \subseteq results
        BY <1>9 DEF PreviewResult
    <2>2. /\ last' = [id |-> last'.id, of |-> last'.of, synced |-> last'.synced,
                      preview |-> last'.preview]
          /\ last'.id = last.id /\ last'.of = last.of
          /\ last'.preview.state = "ready" => last'.preview.of = last.of /\ Shows(last'.preview)
        BY <1>2, <1>9, SetPreviewFacts DEF PreviewResult
    <2> QED BY <1>0, <1>1, <1>2, <2>1, <2>2, KeepsImages
<1> QED BY <1>3, <1>4, <1>5, <1>6, <1>7, <1>8, <1>9 DEF PreviewStep

\* Every step keeps the images.
LEMMA StepKeepsImages ==
    ASSUME PreviewInv, [Next]_vars
    PROVE  PreviewInv'
<1> USE DEF browserVars, selectionVars, previewVars, gatewayVars, captureVars
<1>0. /\ job # 0 => job \in Selected
      /\ lastJob # 0 => lastJob \in Selected
      /\ pump # Idle => pump.of \in Selected
      /\ pump = [stage |-> pump.stage, of |-> pump.of, attempt |-> pump.attempt]
      /\ last = [id |-> last.id, of |-> last.of, synced |-> last.synced, preview |-> last.preview]
      /\ last.id[1] = "local" => last.id[2] = last.of
      /\ last.preview.state = "ready" => last.preview.of = last.of /\ Shows(last.preview)
    BY DEF PreviewInv, ImagesInv, RecordsOK
<1>1. \A frame \in cropping : Shows(frame)
    BY DEF PreviewInv, ImagesInv
<1>2. \A result \in results :
          result.preview.state = "ready" =>
              result.id = Local(result.preview.of) /\ Shows(result.preview)
    BY DEF PreviewInv, ImagesInv
<1>3. CASE SelectionCaptured
    <2> DEFINE n == Cardinality(Selected) + 1
    <2>1. /\ NumberedInv'
          /\ n \notin Selected /\ Selected' = Selected \cup {n} /\ tabOf'[n] = activeTab
          /\ \A m \in Selected : tabOf'[m] = tabOf[m]
        <3>1. tabOf' = MapSet(tabOf, Cardinality(Selected) + 1, activeTab)
            BY <1>3 DEF SelectionCaptured, Selected
        <3> QED BY <3>1, NewCapture DEF PreviewInv
    <2>2. /\ last' = [id |-> Local(n), of |-> n, synced |-> FALSE, preview |-> Pending]
          /\ Enqueue(n, last') /\ UNCHANGED <<scenario, activeTab, cropping, results>>
        BY <1>3 DEF SelectionCaptured, Selected
    <2> HIDE DEF n
    <2>3. OneActiveTab' <=> OneActiveTab
        BY <2>2 DEF OneActiveTab, Without
    <2>4. \A image : Shows(image) => Shows(image)'
        BY <2>1, <2>3 DEF Shows
    <2>5. OneActiveTab => \A m \in Selected' : tabOf'[m] = activeTab'
        BY <2>1, <2>2 DEF PreviewInv, ImagesInv
    <2>6. /\ job' # 0 => job' \in Selected'
          /\ lastJob' # 0 => lastJob' \in Selected'
          /\ pump' # Idle => pump'.of \in Selected'
          /\ pump' = [stage |-> pump'.stage, of |-> pump'.of, attempt |-> pump'.attempt]
        <3>1. lastJob' = n
            BY <2>2 DEF Enqueue
        <3>2. CASE TakeJob(n, last')
            <4>1. job' = 0 /\ (pump' = Idle \/ pump' = [stage |-> "waiting", of |-> n, attempt |-> 0])
                BY <3>2 DEF TakeJob
            <4> QED BY <2>1, <3>1, <4>1 DEF Idle
        <3>3. CASE job' = n /\ UNCHANGED pump
            BY <1>0, <2>1, <3>1, <3>3
        <3> QED BY <2>2, <3>2, <3>3 DEF Enqueue
    <2>7. last'.id[1] = "local" /\ last'.id[2] = last'.of /\ last'.preview.state # "ready"
        BY <2>2, NoImages DEF Local
    <2>8. RecordsOK'
        BY <2>2, <2>6 DEF RecordsOK
    <2>9. ImagesInv'
        BY <1>1, <1>2, <2>2, <2>3, <2>4, <2>5, <2>6, <2>7 DEF ImagesInv
    <2> QED BY <2>1, <2>8, <2>9 DEF PreviewInv
<1>4. CASE Retry
    <2>1. /\ last' = [last EXCEPT !.preview = Pending] /\ Enqueue(lastJob, last') /\ lastJob # 0
          /\ UNCHANGED <<tabOf, activeTab, scenario, cropping, results>>
        BY <1>4 DEF Retry
    <2>2. last' = [id |-> last.id, of |-> last.of, synced |-> last.synced, preview |-> Pending]
        BY <1>0, <2>1
    <2>3. /\ lastJob' = lastJob
          /\ job' # 0 => job' \in Selected
          /\ pump' # Idle => pump'.of \in Selected
          /\ pump' = [stage |-> pump'.stage, of |-> pump'.of, attempt |-> pump'.attempt]
        <3>1. CASE TakeJob(lastJob, last')
            BY <1>0, <2>1, <3>1, TakenJobs DEF Enqueue
        <3>2. CASE job' = lastJob /\ UNCHANGED pump
            BY <1>0, <2>1, <3>2 DEF Enqueue
        <3> QED BY <2>1, <3>1, <3>2 DEF Enqueue
    <2>4. last'.preview.state # "ready" /\ last'.id = last.id /\ last'.of = last.of
          /\ last' = [id |-> last'.id, of |-> last'.of, synced |-> last'.synced, preview |-> last'.preview]
        BY <2>2, NoImages
    <2> QED BY <1>0, <1>1, <1>2, <2>1, <2>3, <2>4, KeepsImages
<1>5. ASSUME NEW request \in requests, Accepted(request)
      PROVE  PreviewInv'
    <2>1. /\ last' = [last EXCEPT !.id = Remote(request.of), !.synced = TRUE]
          /\ UNCHANGED <<tabOf, activeTab, scenario, job, lastJob, pump, cropping, results>>
        BY <1>5 DEF Accepted
    <2>2. last' = [id |-> Remote(request.of), of |-> last.of, synced |-> TRUE, preview |-> last.preview]
        BY <1>0, <2>1
    <2>3. /\ last'.id[1] # "local" /\ last'.of = last.of /\ last'.preview = last.preview
          /\ last' = [id |-> last'.id, of |-> last'.of, synced |-> last'.synced, preview |-> last'.preview]
        BY <2>2 DEF Remote
    <2> QED BY <1>0, <1>1, <1>2, <2>1, <2>3, KeepsImages
<1>6. ASSUME NEW request \in requests, Refused(request)
      PROVE  PreviewInv'
    <2>1. /\ last' = [last EXCEPT !.synced = FALSE]
          /\ UNCHANGED <<tabOf, activeTab, scenario, job, lastJob, pump, cropping, results>>
        BY <1>6 DEF Refused
    <2>2. last' = [id |-> last.id, of |-> last.of, synced |-> FALSE, preview |-> last.preview]
        BY <1>0, <2>1
    <2>3. /\ last'.id = last.id /\ last'.of = last.of /\ last'.preview = last.preview
          /\ last' = [id |-> last'.id, of |-> last'.of, synced |-> last'.synced, preview |-> last'.preview]
        BY <2>2
    <2> QED BY <1>0, <1>1, <1>2, <2>1, <2>3, KeepsImages
<1>7. CASE SwitchTab \/ \E tab \in Tabs : CloseTab(tab)
    <2>1. UNCHANGED <<tabOf, scenario, job, lastJob, pump, cropping, results, last>> /\ ~OneActiveTab
        BY <1>7 DEF SwitchTab, CloseTab, OneActiveTab, Without
    <2>2. Selected' = Selected /\ (OneActiveTab' <=> OneActiveTab) /\ NumberedInv'
        BY <2>1 DEF Selected, OneActiveTab, Without, PreviewInv, NumberedInv
    <2>3. RecordsOK'
        BY <2>1 DEF PreviewInv, RecordsOK
    <2>4. ImagesInv'
        BY <1>0, <1>1, <1>2, <2>1, <2>2 DEF ImagesInv, Shows
    <2> QED BY <2>2, <2>3, <2>4 DEF PreviewInv
<1>8. CASE PreviewStep
    BY <1>8, PreviewStepKeepsImages
<1>9. CASE UNCHANGED <<tabOf, activeTab, scenario, previewVars, last>>
    <2>1. UNCHANGED <<tabOf, activeTab, scenario, job, lastJob, pump, cropping, results, last>>
        BY <1>9
    <2> QED BY <1>0, <1>1, <1>2, <2>1, KeepsImages
<1> QED
    BY <1>3, <1>4, <1>5, <1>6, <1>7, <1>8, <1>9
    DEF Next, vars, SendOther, Drop, Navigate, RoutePreview, RefusePreview

\* The preview shown with a selection is an image of its own element, and of its own
\* tab if that stays active, however quickly elements are selected one after the other.
THEOREM PreviewsAreOwn == Spec => []PreviewShowsElement
<1>1. Init => PreviewInv
    <2> SUFFICES ASSUME Init PROVE PreviewInv
        OBVIOUS
    <2>1. DOMAIN tabOf = {}
        BY DEF Init, EmptyMap
    <2>2. Selected = {} /\ Cardinality(Selected) = 0
        BY <2>1, FS_EmptySet DEF Selected
    <2>3. NumberedInv
        BY <2>2 DEF NumberedInv
    <2>4. RecordsOK
        BY DEF Init, RecordsOK, Idle
    <2>5. ImagesInv
        BY <2>2, NoImages DEF Init, ImagesInv, NoId
    <2> QED BY <2>3, <2>4, <2>5 DEF PreviewInv
<1>2. PreviewInv /\ [Next]_vars => PreviewInv'
    BY StepKeepsImages
<1>3. PreviewInv => PreviewShowsElement
    BY DEF PreviewInv, ImagesInv, PreviewShowsElement, Shows, OneActiveTab
<1> QED BY <1>1, <1>2, <1>3, PTL DEF Spec

-------------------------------------------------------------------------------
(* Owners                                                                  *)

OneAtATime == Without({"overlap", "others", "agent"})

\* One selection at a time is under way: the record still has its local id, its tab is
\* remembered for the answer, and the owner recorded by the answer is that tab.  A tab
\* remembered for an answer that was lost is never used.
OwnersInv ==
    OneAtATime =>
        /\ \A request, other \in requests : request = other
        /\ \A request \in requests :
              /\ request.kind = "create"
              /\ request.of \in DOMAIN creating
              /\ lastId = Local(request.of)
        /\ \A n \in attached : Remote(n) \in DOMAIN owners /\ owners[Remote(n)] = tabOf[n]

\* The ids of the worker and those of the gateway are different.
LEMMA IdsApart ==
    ASSUME NEW n, NEW m
    PROVE  /\ Local(n) # Remote(m)
           /\ Remote(n) = Remote(m) => n = m
BY DEF Local, Remote

\* A step that is of no selection leaves the owners alone.
LEMMA SameOwners ==
    ASSUME OwnersInv,
           UNCHANGED <<scenario, tabOf, creating, attached, lastId, owners>>,
           requests' \subseteq requests
    PROVE  OwnersInv'
BY DEF OwnersInv, OneAtATime, Without

\* Every step keeps the owners.
LEMMA StepKeepsOwners ==
    ASSUME PagesInv, OwnersInv, [Next]_vars
    PROVE  OwnersInv'
<1> USE DEF gatewayVars, previewVars, browserVars, selectionVars, captureVars
<1>0. scenario' = scenario
    BY DEF Next, SelectionCaptured, SendOther, Drop, SwitchTab, Retry, Accepted, Refused,
           PreviewStep, AfterWait, Screenshot, ScreenshotRefused, AfterPause, PanelCrops,
           PanelGone, PreviewResult, CloseTab, Navigate, RoutePreview, RefusePreview, vars
<1>1. CASE SelectionCaptured
    <2> SUFFICES ASSUME OneAtATime
                 PROVE  /\ \A request, other \in requests' : request = other
                        /\ \A request \in requests' :
                              /\ request.kind = "create"
                              /\ request.of \in DOMAIN creating'
                              /\ lastId' = Local(request.of)
                        /\ \A n \in attached' : /\ Remote(n) \in DOMAIN owners'
                                                /\ owners'[Remote(n)] = tabOf'[n]
        BY <1>0 DEF OwnersInv, OneAtATime, Without
    <2> DEFINE n == Cardinality(Selected) + 1
               request == [kind |-> "create", of |-> n, id |-> n]
    <2>1. \A m \in Selected : tabOf'[m] = tabOf[m]
        <3>1. tabOf' = MapSet(tabOf, Cardinality(Selected) + 1, activeTab)
            BY <1>1 DEF SelectionCaptured, Selected
        <3> QED BY <3>1, NewCapture DEF PagesInv
    <2>2. /\ requests = {} /\ attached' = attached
          /\ lastId' = Local(n) /\ owners' = MapSet(owners, Local(n), activeTab)
          /\ \/ requests' = requests \cup {request} /\ creating' = MapSet(creating, n, activeTab)
             \/ requests' = requests
        BY <1>1 DEF SelectionCaptured, Selected, OneAtATime, Without
    <2>3. request.kind = "create" /\ request.of = n
        OBVIOUS
    <2> HIDE DEF n, request
    <2>4. requests' = {} \/ (requests' = {request} /\ n \in DOMAIN creating')
        BY <2>2 DEF MapSet
    <2>5. \A m \in attached : /\ Remote(m) \in DOMAIN owners'
                              /\ owners'[Remote(m)] = owners[Remote(m)]
        <3> TAKE m \in attached
        <3>1. Remote(m) \in DOMAIN owners
            BY DEF OwnersInv
        <3> QED BY <2>2, <3>1, IdsApart DEF MapSet
    <2> QED BY <2>1, <2>2, <2>3, <2>4, <2>5 DEF OwnersInv, PagesInv
<1>2. CASE SendOther
    BY <1>0, <1>2 DEF SendOther, OwnersInv, OneAtATime, Without
<1>3. ASSUME NEW request \in requests, Accepted(request)
      PROVE  OwnersInv'
    <2> SUFFICES ASSUME OneAtATime
                 PROVE  /\ requests' = {}
                        /\ \A m \in attached' : /\ Remote(m) \in DOMAIN owners'
                                                /\ owners'[Remote(m)] = tabOf'[m]
        BY <1>0 DEF OwnersInv, OneAtATime, Without
    <2> DEFINE n == request.of
    <2>1. /\ request.kind = "create" /\ n \in DOMAIN creating /\ lastId = Local(n)
          /\ creating[n] = tabOf[n]
          /\ requests = {request}
        BY DEF OwnersInv, PagesInv
    <2>2. /\ requests' = requests \ {request}
          /\ attached' = attached \cup {n}
          /\ tabOf' = tabOf
          /\ owners' = MapSet(IF lastId = Remote(n) THEN owners ELSE MapDelete(owners, lastId),
                              Remote(n), creating[n])
        BY <1>3, <2>1 DEF Accepted
    <2> HIDE DEF n
    <2>3. owners' = MapSet(MapDelete(owners, Local(n)), Remote(n), tabOf[n])
        BY <2>1, <2>2, IdsApart
    <2>4. \A m \in attached : Remote(m) \in DOMAIN MapDelete(owners, Local(n))
                              /\ MapDelete(owners, Local(n))[Remote(m)] = tabOf[m]
        BY IdsApart DEF OwnersInv, MapDelete
    <2>5. ASSUME NEW m \in attached'
          PROVE  Remote(m) \in DOMAIN owners' /\ owners'[Remote(m)] = tabOf[m]
        <3>1. CASE m = n
            BY <2>3, <3>1 DEF MapSet
        <3>2. CASE m # n
            <4>1. m \in attached /\ Remote(m) # Remote(n)
                BY <2>2, <3>2, IdsApart
            <4> QED BY <2>3, <2>4, <4>1 DEF MapSet
        <3> QED BY <3>1, <3>2
    <2> QED BY <2>1, <2>2, <2>5
<1>4. ASSUME NEW request \in requests, Refused(request)
      PROVE  OwnersInv'
    <2>1. /\ requests' = requests \ {request}
          /\ UNCHANGED <<tabOf, attached, owners>>
        BY <1>4 DEF Refused
    <2>2. OneAtATime => requests' = {}
        BY <2>1 DEF OwnersInv
    <2> QED BY <1>0, <2>1, <2>2 DEF OwnersInv, OneAtATime, Without
<1>5. ASSUME NEW n \in Captures, RoutePreview(n) \/ RefusePreview(n)
      PROVE  OwnersInv'
    <2>1. ~OneAtATime
        BY <1>5 DEF RoutePreview, RefusePreview, OneAtATime, Without
    <2> QED BY <1>0, <2>1 DEF OwnersInv, OneAtATime, Without
<1>6. CASE Drop \/ SwitchTab \/ Retry \/ \E tab \in Tabs : CloseTab(tab) \/ Navigate(tab)
    <2>1. /\ UNCHANGED <<tabOf, creating, attached, lastId, owners>>
          /\ requests' \subseteq requests
        BY <1>6 DEF Drop, SwitchTab, Retry, CloseTab, Navigate
    <2> QED BY <1>0, <2>1, SameOwners
<1>7. CASE PreviewStep
    <2>1. UNCHANGED <<tabOf, creating, attached, lastId, owners, requests>>
        BY <1>7 DEF PreviewStep, AfterWait, Screenshot, ScreenshotRefused, AfterPause, PanelCrops,
                    PanelGone, PreviewResult
    <2> QED BY <1>0, <2>1, SameOwners
<1>8. CASE UNCHANGED vars
    BY <1>8, SameOwners DEF vars
<1> QED BY <1>1, <1>2, <1>3, <1>4, <1>5, <1>6, <1>7, <1>8 DEF Next

\* When selections are answered one at a time, every selection the gateway has taken
\* is owned by the tab it was made in, whatever is refused, lost, switched or closed.
THEOREM OwnersAreRecorded == Spec => []AttachedHaveOwners
<1>1. Init => OwnersInv
    BY DEF Init, OwnersInv
<1>2. PagesInv /\ OwnersInv /\ [Next]_vars => OwnersInv'
    BY StepKeepsOwners
<1>3. OwnersInv => AttachedHaveOwners
    BY DEF OwnersInv, OneAtATime, AttachedHaveOwners
<1> QED BY <1>1, <1>2, <1>3, CapturesKeepPages, PTL DEF Spec

===============================================================================
