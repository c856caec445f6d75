---------------------------- MODULE BridgeRequests ----------------------------
(***************************************************************************)
(* Requests of the extension at the gateway (bridge-handler.ts): each finds its  *)
(* target session when it arrives, create and update then wait for the source     *)
(* resolver, and other requests, other chats and cleanups go on meanwhile.  It     *)
(* composes the active session, the chips of the sessions' drafts and the          *)
(* screenshot artifacts.                                                       *)
(*                                                                         *)
(* A chip has the number of the create that made it as its id, and a request's    *)
(* change the number of the request as its value.  The states of batches and their   *)
(* limits are BatchStore's; here they have chips and an order, the order of the        *)
(* store's Map in which a cleanup looks for one.                                 *)
(***************************************************************************)
EXTENDS ActiveSession, ArtifactStore

CONSTANTS
    Scenarios,     \* sets of circumstances to examine
    Elements, Properties, Hashes,
    Sourced,       \* elements with a data-ds attribute: an update resolves them anew
    MaxRequests,   \* bound: requests; one more with screenshots, unless a key is shared
    MaxTime,       \* bound: the clock
    MaxCleanups    \* bound: how often a session is deleted; once more with a shared key

Circumstances ==
    {"views",    \* composer views come and go; otherwise one changes its session
     "captures", \* requests of the extension: captures
     "edits",    \* updates and removals
     "overlap",  \* ... of one chip, one arriving while another waits
     "shots",    \* screenshots
     "cleanup",  \* sessions are deleted
     "shared"}   \* the sessions are several agents' of one key; otherwise each has its key

ASSUME BridgeAssumption ==
    /\ Scenarios \subseteq SUBSET Circumstances
    /\ IsFiniteSet(Sessions) /\ None \notin Sessions /\ Sourced \subseteq Elements
    /\ MaxRequests \in Nat /\ MaxTime \in Nat /\ MaxCleanups \in Nat

VARIABLES
    scenario,
    drafts,     \* chips of each session, by element
    batches,    \* the sessions that have a batch, each with those that stand before it
    requests,   \* requests that arrived, in order, with their targets and answers
    waiting,    \* executions waiting for the resolver
    artifacts,  \* the artifact store
    now,
    lives       \* how often a session was deleted

chipVars == <<drafts, batches, requests, waiting>>
vars == <<scenario, sessionVars, chipVars, artifacts, now, lives>>

Without(circumstances) == scenario \cap circumstances = {}

ChipIds(s) == {drafts[s][e].id : e \in DOMAIN drafts[s]}
ElementOf(s, id) == CHOOSE e \in DOMAIN drafts[s] : drafts[s][e].id = id

\* A session is a key and an agent.
SameKey(s, t) == s = t \/ "shared" \in scenario

\* getOrCreate: a new batch comes last.
Opened(s) == IF s \in DOMAIN batches THEN batches ELSE MapSet(batches, s, DOMAIN batches)

\* batches.delete
Closed(s) == [t \in DOMAIN batches \ {s} |-> batches[t] \ {s}]

-------------------------------------------------------------------------------
(* Arrival                                                                 *)

\* requireExact fixes the target; "no_active_session" is an answer like others.  A request
\* is of an element or of a chip; only an update has a property.
Arrives(kind, of, property, answer) ==
    /\ "captures" \in scenario
    /\ Len(requests) < (IF "shots" \in scenario /\ "shared" \notin scenario THEN MaxRequests + 1 ELSE MaxRequests)
    /\ requests' = Append(requests, [kind |-> kind, of |-> of, property |-> property,
                                     target |-> active, answer |-> answer])

Number == Len(requests) + 1
NoProperty == "none"

CreateArrives(e) ==
    /\ IF active = None
       THEN Arrives("create", e, NoProperty, "refused") /\ UNCHANGED waiting
       ELSE /\ Arrives("create", e, NoProperty, "none")
            /\ waiting' = waiting \cup {[request |-> Number, session |-> active]}
    /\ UNCHANGED <<scenario, sessionVars, drafts, batches, artifacts, now, lives>>

\* selection.remove: of a chip that is there.
RemoveArrives(id) ==
    /\ "edits" \in scenario
    /\ active # None
    /\ id \in ChipIds(active)
    /\ Arrives("remove", id, NoProperty, "ok")
    /\ drafts' = [drafts EXCEPT ![active] = MapDelete(@, ElementOf(active, id))]
    /\ UNCHANGED <<scenario, sessionVars, batches, waiting, artifacts, now, lives>>

\* Mutant: the changes that a chip has are not copied.
ChangesWithOnly(changes, property, value) == MapSet(EmptyMap, property, value)

\* The chip's changes as they are now, with the request's own.
ChangesWith(changes, property, value) == MapSet(changes, property, value)

Waits(id) == \E x \in waiting : requests[x.request].kind = "update" /\ requests[x.request].of = id

\* selection.update copies the chip, then waits if its element has a source.
UpdateArrives(id, property) ==
    /\ "edits" \in scenario
    /\ Waits(id) => "overlap" \in scenario
    /\ IF active = None \/ id \notin ChipIds(active)
       THEN Arrives("update", id, property, "refused") /\ UNCHANGED <<drafts, waiting>>
       ELSE LET e == ElementOf(active, id)
                changes == ChangesWith(drafts[active][e].changes, property, Number)
            IN IF e \in Sourced
               THEN /\ Arrives("update", id, property, "none")
                    /\ waiting' = waiting \cup
                         {[request |-> Number, session |-> active, changes |-> changes]}
                    /\ UNCHANGED drafts
               ELSE /\ Arrives("update", id, property, "ok")
                    /\ drafts' = [drafts EXCEPT ![active][e].changes = changes]
                    /\ UNCHANGED waiting
    /\ UNCHANGED <<scenario, sessionVars, batches, artifacts, now, lives>>

-------------------------------------------------------------------------------
(* After the resolver                                                      *)

\* Mutant: the chip goes to the session that is active by now.
AttachesToActive(x) == IF active = None THEN x.session ELSE active

\* The session that was active on arrival.
Attaches(x) == x.session

\* attach: an element that has a chip keeps its id and changes.
CreateEnds(x) ==
    /\ x \in waiting
    /\ requests[x.request].kind = "create"
    /\ LET s == Attaches(x)
           e == requests[x.request].of
           chip == IF e \in DOMAIN drafts[s]
                   THEN [drafts[s][e] EXCEPT !.from = @ \cup {x.request}]
                   ELSE [id |-> x.request, from |-> {x.request}, changes |-> EmptyMap]
       IN /\ drafts' = [drafts EXCEPT ![s] = MapSet(@, e, chip)]
          /\ batches' = Opened(s)
    /\ requests' = [requests EXCEPT ![x.request].answer = "ok"]
    /\ waiting' = waiting \ {x}
    /\ UNCHANGED <<scenario, sessionVars, artifacts, now, lives>>

\* replaceSelection, which begins with ensureDraft, writes the copy back if the chip is
\* still there.
UpdateEnds(x) ==
    /\ x \in waiting
    /\ requests[x.request].kind = "update"
    /\ LET id == requests[x.request].of
           found == id \in ChipIds(x.session)
       IN /\ drafts' = IF found THEN [drafts EXCEPT ![x.session][ElementOf(x.session, id)].changes = x.changes]
                       ELSE drafts
          /\ requests' = [requests EXCEPT ![x.request].answer = IF found THEN "ok" ELSE "refused"]
    /\ batches' = Opened(x.session)
    /\ waiting' = waiting \ {x}
    /\ UNCHANGED <<scenario, sessionVars, artifacts, now, lives>>

-------------------------------------------------------------------------------
(* Screenshots and cleanup                                                 *)

\* artifact.upload, for a chip of the target session.
Upload(id, hash) ==
    /\ "shots" \in scenario
    /\ active # None
    /\ id \in ChipIds(active)
    /\ LET store == Purged(artifacts, now)
           artifact == [session |-> active, selection |-> id, hash |-> hash,
                        expires |-> now + TTL, life |-> lives[active]]
       IN IF Duplicate(store, HashKey(artifact)) THEN Arrives("upload", id, NoProperty, "ok") /\ artifacts' = store
          ELSE IF AtLimit(store, active) THEN Arrives("upload", id, NoProperty, "refused") /\ artifacts' = store
          ELSE Arrives("upload", id, NoProperty, "ok") /\ artifacts' = Put(store, Number, artifact)
    /\ UNCHANGED <<scenario, sessionVars, drafts, batches, waiting, now, lives>>

\* get_screenshot, by artifact id or by selection, of a tool in the session.
GetScreenshot(id) ==
    /\ id \in DOMAIN artifacts.byId
    /\ \/ artifacts' = Looked(artifacts, {id}, now)
       \/ LET found == {i \in OfSession(artifacts, artifacts.byId[id].session) :
                          artifacts.byId[i].selection = artifacts.byId[id].selection}
          IN artifacts' = Looked(artifacts, found, now)
    /\ UNCHANGED <<scenario, sessionVars, chipVars, now, lives>>

Tick ==
    /\ "shots" \in scenario
    /\ now < MaxTime
    /\ now' = now + 1
    /\ UNCHANGED <<scenario, sessionVars, chipVars, artifacts, lives>>

\* get_visual_batch: a composer view that refreshes has the batch of its session
\* created.  The order of batches matters where sessions share a key.
Fetch(s) ==
    /\ {"cleanup", "shared"} \subseteq scenario
    /\ batches' = Opened(s)
    /\ UNCHANGED <<scenario, sessionVars, drafts, requests, waiting, artifacts, now, lives>>

WithKeyOf(s) == {t \in DOMAIN batches : SameKey(s, t)}

\* findBySessionKey: the first batch with the key.
FoundByKey(s) == {t \in WithKeyOf(s) : batches[t] \cap WithKeyOf(s) = {}}

\* store.deleteSession
DraftDeleted(f) ==
    /\ drafts' = [drafts EXCEPT ![f] = EmptyMap]
    /\ batches' = Closed(f)

\* Mutant: the screenshots are those of the session that the caller has in mind.
RetiredOfCaller(s, f) == DraftDeleted(f) /\ artifacts' = WithoutSession(artifacts, s)

\* cleanup retires the chips and screenshots of one agent.
Retired(s, f) == DraftDeleted(f) /\ artifacts' = WithoutSession(artifacts, f)

\* OpenClaw deletes the session, while it is shown or not, and names it by its key: it
\* is over for every agent.  A session with an archived batch has a batch as well.
Cleanup(s) ==
    /\ "cleanup" \in scenario
    /\ lives[s] < (IF "shared" \in scenario THEN MaxCleanups + 1 ELSE MaxCleanups)
    /\ lives' = [t \in Sessions |-> IF SameKey(s, t) THEN lives[t] + 1 ELSE lives[t]]
    /\ \/ WithKeyOf(s) = {} /\ UNCHANGED <<drafts, batches, artifacts>>
       \/ \E f \in FoundByKey(s) : Retired(s, f)
    /\ UNCHANGED <<scenario, sessionVars, requests, waiting, now>>

-------------------------------------------------------------------------------
(* Specification                                                           *)

\* Bound: unless it is the views that are examined, there is one, which changes its chat
\* when its last report has arrived.
Reporting ==
    /\ SessionNext
    /\ \/ "views" \in scenario
       \/ UNCHANGED views
       \/ /\ \A t \in Views : reports[t] = <<>>
          /\ views = [v \in Views |-> None] \/ \A v \in Views : Shown(v) = Shown(v)'
    /\ UNCHANGED <<scenario, chipVars, artifacts, now, lives>>

Init ==
    /\ scenario \in Scenarios
    /\ SessionInit
    /\ OneTab \/ "views" \in scenario
    /\ drafts = [s \in Sessions |-> EmptyMap]
    /\ batches = EmptyMap
    /\ requests = <<>>
    /\ waiting = {}
    /\ artifacts = NoArtifacts
    /\ now = 0
    /\ lives = [s \in Sessions |-> 0]

Ids == 1 .. MaxRequests + 1

Next ==
    \/ Reporting
    \/ \E e \in Elements : CreateArrives(e)
    \/ \E id \in Ids : RemoveArrives(id)
    \/ \E id \in Ids, property \in Properties : UpdateArrives(id, property)
    \/ \E x \in waiting : CreateEnds(x) \/ UpdateEnds(x)
    \/ \E id \in Ids, hash \in Hashes : Upload(id, hash)
    \/ \E id \in Ids : GetScreenshot(id)
    \/ Tick
    \/ \E s \in Sessions : Fetch(s) \/ Cleanup(s)

Spec == Init /\ [][Next]_vars

-------------------------------------------------------------------------------
(* Properties                                                              *)

\* A capture becomes a chip of the chat that was the target when it arrived, however
\* the chats change while the source is resolved ("wrong-session attachments: 0",
\* NFR-003), also when it finds the chip of an earlier one.
ChipsStayWhereAimed ==
    \A s \in Sessions : \A e \in DOMAIN drafts[s] :
        \A n \in drafts[s][e].from : requests[n].target = s

Kept(n) ==
    \A s \in Sessions : \A e \in DOMAIN drafts[s] :
        LET chip == drafts[s][e]
            property == requests[n].property
        IN chip.id = requests[n].of =>
             property \in DOMAIN chip.changes /\ chip.changes[property] >= n

Acknowledged == {n \in DOMAIN requests : requests[n].kind = "update" /\ requests[n].answer = "ok"}

\* "selection.update merges changes into store": a change that was acknowledged is on
\* its chip, or a later one of the same property, as long as the chip is there,
\* whatever captures of its element end meanwhile.
AcknowledgedChangesKept == Without({"overlap"}) => \A n \in Acknowledged : Kept(n)

\* The same of updates of one chip that overlap.
OverlappingChangesKept == \A n \in Acknowledged : Kept(n)

\* No screenshot outlives its session, to be read by the next session under the same
\* key; where agents share the key, a cleanup retires one of them, and a screenshot
\* outlives at most as many cleanups as there are other agents, whichever of them
\* make, lose and make batches again meanwhile.
ScreenshotsEndWithSession ==
    \A id \in DOMAIN artifacts.byId :
        LET a == artifacts.byId[id]
        IN lives[a.session] - a.life < Cardinality({t \in Sessions : SameKey(a.session, t)})

\* An upload that is acknowledged can be read, for itself or as the duplicate of one
\* that has not expired; one that is refused found the limit reached by
\* screenshots that have not.
UploadsCountTheLiving ==
    [][\A id \in Ids, hash \in Hashes :
          Upload(id, hash) =>
              LET living == {i \in OfSession(artifacts, active) : ~Expired(artifacts.byId[i], now)}
                  all == {i \in DOMAIN artifacts.byId : ~Expired(artifacts.byId[i], now)}
              IN IF requests'[Number].answer = "ok"
                 THEN \E i \in OfSession(artifacts', active) :
                        /\ artifacts'.byId[i].selection = id /\ artifacts'.byId[i].hash = hash
                        /\ artifacts'.byId[i].expires > now
                 ELSE Cardinality(living) >= MaxPerSession \/ Cardinality(all) >= MaxGlobal]_vars

===============================================================================
