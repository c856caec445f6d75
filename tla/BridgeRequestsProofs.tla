-------------------------- MODULE BridgeRequestsProofs --------------------------
(***************************************************************************)
(* Theorems about BridgeRequests for every value of its constants: captures stay in *)
(* the chat they were aimed at, acknowledged edits are kept, screenshots end with      *)
(* their session and are counted while they live, and the target of captures is a     *)
(* chat that is shown.                                                              *)
(***************************************************************************)
EXTENDS BridgeRequests, SequenceTheorems, FiniteSetTheorems, Integers, TLAPS

-------------------------------------------------------------------------------
(* Types                                                                   *)

MapsOf(keys, values) == UNION {[some -> values] : some \in SUBSET keys}

Report0 == [to : Sessions \cup {None}, by : Sessions \cup {None}]
Changes == MapsOf(Properties, Nat)
Chip == [id : Nat, from : SUBSET Nat, changes : Changes]
Request == [kind : {"create", "remove", "update", "upload"}, of : Elements \cup Nat,
            property : Properties \cup {NoProperty}, target : Sessions \cup {None},
            answer : {"none", "ok", "refused"}]

\* The types of the active session and what reports it.
SessionTypeOK ==
    /\ active \in Sessions \cup {None}
    /\ tab \in [Views -> Views]
    /\ views \in [Views -> Sessions \cup {None}]
    /\ reports \in [Views -> Seq(Report0)]
    /\ crossed \in BOOLEAN

\* The types of chips and requests.
ChipTypeOK ==
    /\ drafts \in [Sessions -> MapsOf(Elements, Chip)]
    /\ requests \in Seq(Request)

\* The views and their reports keep the types.
LEMMA ReportingTypes ==
    ASSUME SessionTypeOK, SessionNext
    PROVE  SessionTypeOK'
<1> USE DEF SessionTypeOK
<1>1. ASSUME NEW v \in Views, NEW to \in Sessions \cup {None}, NEW by \in Sessions \cup {None},
             Report(v, to, by)
      PROVE  reports' \in [Views -> Seq(Report0)]
    <2> DEFINE report == [to |-> to, by |-> by]
    <2>1. report \in Report0
        BY DEF Report0
    <2>2. tab[v] \in Views /\ reports[tab[v]] \in Seq(Report0)
        OBVIOUS
    <2>3. reports' = [reports EXCEPT ![tab[v]] = Append(reports[tab[v]], report)]
        BY <1>1 DEF Report
    <2> HIDE DEF report
    <2>4. Append(reports[tab[v]], report) \in Seq(Report0)
        BY <2>1, <2>2, AppendProperties, LenProperties
    <2> QED BY <2>2, <2>3, <2>4
<1>2. ASSUME NEW v \in Views, NEW s \in Sessions, Mount(v, s)
      PROVE  SessionTypeOK'
    BY <1>1, <1>2 DEF Mount
<1>3. ASSUME NEW v \in Views, NEW s \in Sessions, SwitchTo(v, s)
      PROVE  SessionTypeOK'
    BY <1>1, <1>3 DEF SwitchTo
<1>4. ASSUME NEW v \in Views, Dispose(v)
      PROVE  SessionTypeOK'
    <2>1. reports' \in [Views -> Seq(Report0)]
        BY <1>1, <1>4 DEF Dispose
    <2> QED BY <1>4, <2>1 DEF Dispose
<1>5. ASSUME NEW t \in Views, ReportArrives(t)
      PROVE  SessionTypeOK'
    <2>1. reports[t] \in Seq(Report0) /\ reports[t] # <<>>
        BY <1>5 DEF ReportArrives
    <2>2. Tail(reports[t]) \in Seq(Report0) /\ Head(reports[t]) \in Report0
        BY <2>1, HeadTailProperties, LenProperties, EmptySeq
    <2>3. Head(reports[t]).to \in Sessions \cup {None}
        BY <2>2 DEF Report0
    <2>4. /\ reports' = [reports EXCEPT ![t] = Tail(reports[t])]
          /\ active' = active \/ active' = Head(reports[t]).to
          /\ UNCHANGED <<tab, views, crossed>>
        BY <1>5 DEF ReportArrives, Reported
    <2> QED BY <2>2, <2>3, <2>4
<1> QED BY <1>2, <1>3, <1>4, <1>5 DEF SessionNext

\* What the requests are after one has arrived.
LEMMA ArrivalFacts ==
    ASSUME ChipTypeOK, active \in Sessions \cup {None},
           NEW kind \in {"create", "remove", "update", "upload"}, NEW of \in Elements \cup Nat,
           NEW property \in Properties \cup {NoProperty}, NEW answer \in {"none", "ok", "refused"},
           Arrives(kind, of, property, answer)
    PROVE  /\ requests' \in Seq(Request)
           /\ Number \in Nat /\ Number \notin DOMAIN requests
           /\ DOMAIN requests \subseteq Nat /\ \A n \in DOMAIN requests : n < Number
           /\ DOMAIN requests' = DOMAIN requests \cup {Number}
           /\ requests'[Number] = [kind |-> kind, of |-> of, property |-> property,
                                   target |-> active, answer |-> answer]
           /\ \A n \in DOMAIN requests : requests'[n] = requests[n]
<1> DEFINE request == [kind |-> kind, of |-> of, property |-> property,
                       target |-> active, answer |-> answer]
<1>1. request \in Request
    BY DEF Request
<1>2. requests' = Append(requests, request) /\ requests \in Seq(Request)
    BY DEF Arrives, ChipTypeOK
<1> HIDE DEF request
<1>3. /\ requests' \in Seq(Request) /\ Len(requests) \in Nat /\ DOMAIN requests = 1 .. Len(requests)
      /\ DOMAIN requests' = 1 .. (Len(requests) + 1)
      /\ \A n \in 1 .. Len(requests) : requests'[n] = requests[n]
      /\ requests'[Len(requests) + 1] = request
    BY <1>1, <1>2, AppendProperties, LenProperties
<1> QED BY <1>3 DEF request, Number

\* What the requests are after one has been answered.
LEMMA AnswerFacts ==
    ASSUME ChipTypeOK, NEW k \in DOMAIN requests, NEW answer \in {"none", "ok", "refused"},
           requests' = [requests EXCEPT ![k].answer = answer]
    PROVE  /\ requests' \in Seq(Request)
           /\ DOMAIN requests' = DOMAIN requests
           /\ requests'[k].answer = answer
           /\ \A n \in DOMAIN requests :
                 /\ n # k => requests'[n] = requests[n]
                 /\ requests'[n].kind = requests[n].kind /\ requests'[n].of = requests[n].of
                 /\ requests'[n].property = requests[n].property
                 /\ requests'[n].target = requests[n].target
<1> DEFINE request == [requests[k] EXCEPT !.answer = answer]
<1>1. requests \in Seq(Request) /\ requests[k] \in Request
    BY DEF ChipTypeOK
<1>2. /\ request \in Request /\ request.answer = answer /\ request.kind = requests[k].kind
      /\ request.of = requests[k].of /\ request.property = requests[k].property
      /\ request.target = requests[k].target
    BY <1>1 DEF Request
<1>3. requests' = [requests EXCEPT ![k] = request]
    OBVIOUS
<1> HIDE DEF request
<1>4. requests' \in Seq(Request) /\ DOMAIN requests' = DOMAIN requests
    BY <1>1, <1>2, <1>3, ExceptSeq, LenProperties
<1> QED BY <1>2, <1>3, <1>4

\* Maps with these keys and values, and what map.set and map.delete make of them.
LEMMA MapsFacts ==
    ASSUME NEW keys, NEW values, NEW map
    PROVE  map \in MapsOf(keys, values) <=> DOMAIN map \subseteq keys /\ map \in [DOMAIN map -> values]
BY DEF MapsOf

\* map.set with a key and a value of theirs stays a map of those.
LEMMA SetFacts ==
    ASSUME NEW keys, NEW values, NEW map \in MapsOf(keys, values), NEW key \in keys,
           NEW value \in values
    PROVE  MapSet(map, key, value) \in MapsOf(keys, values)
<1>1. DOMAIN map \subseteq keys /\ map \in [DOMAIN map -> values]
    BY MapsFacts
<1> DEFINE set == MapSet(map, key, value)
<1>2. DOMAIN set = DOMAIN map \cup {key} /\ set \in [DOMAIN map \cup {key} -> values]
    BY <1>1 DEF MapSet
<1> HIDE DEF set
<1>3. DOMAIN set \subseteq keys /\ set \in [DOMAIN set -> values]
    BY <1>1, <1>2
<1> QED BY <1>3, MapsFacts DEF set

\* map.delete stays a map of the same keys and values.
LEMMA DeleteFacts ==
    ASSUME NEW keys, NEW values, NEW map \in MapsOf(keys, values), NEW key
    PROVE  MapDelete(map, key) \in MapsOf(keys, values)
<1>1. DOMAIN map \subseteq keys /\ map \in [DOMAIN map -> values]
    BY MapsFacts
<1> DEFINE left == MapDelete(map, key)
<1>2. DOMAIN left = DOMAIN map \ {key} /\ left \in [DOMAIN map \ {key} -> values]
    BY <1>1 DEF MapDelete
<1> HIDE DEF left
<1>3. DOMAIN left \subseteq keys /\ left \in [DOMAIN left -> values]
    BY <1>1, <1>2
<1> QED BY <1>3, MapsFacts DEF left

\* The empty map is a map of any keys and values.
LEMMA EmptyFacts ==
    ASSUME NEW keys, NEW values
    PROVE  EmptyMap \in MapsOf(keys, values) /\ DOMAIN EmptyMap = {}
<1>1. DOMAIN EmptyMap = {} /\ EmptyMap \in [{} -> values]
    BY DEF EmptyMap
<1> QED BY <1>1, MapsFacts

\* The chips of the drafts have their types.
LEMMA ChipFacts ==
    ASSUME ChipTypeOK, NEW s \in Sessions
    PROVE  /\ drafts[s] \in MapsOf(Elements, Chip)
           /\ DOMAIN drafts[s] \subseteq Elements
           /\ \A e \in DOMAIN drafts[s] : drafts[s][e] \in Chip
<1>1. drafts[s] \in MapsOf(Elements, Chip)
    BY DEF ChipTypeOK
<1> QED BY <1>1, MapsFacts

\* A change of one chip leaves everything else as it was.
LEMMA ChangeFacts ==
    ASSUME ChipTypeOK, NEW s \in Sessions, NEW e \in DOMAIN drafts[s], NEW changes \in Changes,
           drafts' = [drafts EXCEPT ![s][e].changes = changes]
    PROVE  /\ drafts' \in [Sessions -> MapsOf(Elements, Chip)]
           /\ \A t \in Sessions : DOMAIN drafts'[t] = DOMAIN drafts[t]
           /\ \A t \in Sessions : \A f \in DOMAIN drafts[t] :
                 ~(t = s /\ f = e) => drafts'[t][f] = drafts[t][f]
           /\ drafts'[s][e].id = drafts[s][e].id /\ drafts'[s][e].from = drafts[s][e].from
           /\ drafts'[s][e].changes = changes
<1> DEFINE chip == [drafts[s][e] EXCEPT !.changes = changes]
           draft == [drafts[s] EXCEPT ![e] = chip]
<1>1. /\ drafts \in [Sessions -> MapsOf(Elements, Chip)]
      /\ drafts[s] \in MapsOf(Elements, Chip) /\ drafts[s][e] \in Chip
    BY ChipFacts DEF ChipTypeOK
<1>2. /\ chip \in Chip /\ chip.id = drafts[s][e].id /\ chip.from = drafts[s][e].from
      /\ chip.changes = changes
    BY <1>1 DEF Chip
<1>3. drafts' = [drafts EXCEPT ![s] = draft]
    OBVIOUS
<1> HIDE DEF chip
<1>4. /\ DOMAIN draft = DOMAIN drafts[s] /\ draft[e] = chip
      /\ \A f \in DOMAIN drafts[s] : f # e => draft[f] = drafts[s][f]
    OBVIOUS
<1>5. draft \in MapsOf(Elements, Chip)
    <2>1. DOMAIN drafts[s] \subseteq Elements /\ drafts[s] \in [DOMAIN drafts[s] -> Chip]
        BY <1>1, MapsFacts
    <2>2. draft \in [DOMAIN drafts[s] -> Chip]
        BY <1>2, <2>1
    <2> HIDE DEF draft
    <2> QED BY <1>4, <2>1, <2>2, MapsFacts
<1> HIDE DEF draft
<1>6. drafts' \in [Sessions -> MapsOf(Elements, Chip)] /\ drafts'[s] = draft
      /\ \A t \in Sessions : t # s => drafts'[t] = drafts[t]
    BY <1>1, <1>3, <1>5
<1> QED BY <1>2, <1>4, <1>6

-------------------------------------------------------------------------------
(* Chips and requests                                                      *)

\* What waits for the resolver is a request of its own, for the session it was aimed
\* at; an update has its own change in the copy it will write back.
WaitingInv ==
    /\ \A x \in waiting :
          LET request == requests[x.request] IN
          /\ x.request \in DOMAIN requests /\ x.session \in Sessions
          /\ request.target = x.session /\ request.answer = "none"
          /\ request.kind \in {"create", "update"}
          /\ request.kind = "create" => request.of \in Elements
          /\ request.kind = "update" =>
                /\ x.changes \in Changes
                /\ request.property \in DOMAIN x.changes
                /\ x.changes[request.property] = x.request
    /\ \A x, y \in waiting : x.request = y.request => x = y

\* A chip comes from creates for its session and its element, and has the first as its
\* id, so no other chip has it.
OriginInv ==
    \A s \in Sessions : \A e \in DOMAIN drafts[s] :
        LET chip == drafts[s][e] IN
        /\ \A n \in chip.from : n \in DOMAIN requests /\ requests[n].target = s
        /\ chip.id \in DOMAIN requests
        /\ requests[chip.id].kind = "create" /\ requests[chip.id].answer = "ok"
        /\ requests[chip.id].target = s /\ requests[chip.id].of = e

ChipsInv == SessionTypeOK /\ ChipTypeOK /\ WaitingInv /\ OriginInv

\* The chip that has an id.
LEMMA ChipOfId ==
    ASSUME ChipsInv, NEW s \in Sessions, NEW id \in ChipIds(s)
    PROVE  /\ ElementOf(s, id) \in DOMAIN drafts[s] /\ drafts[s][ElementOf(s, id)].id = id
           /\ id \in DOMAIN requests /\ requests[id].answer = "ok"
           /\ \A t \in Sessions : \A e \in DOMAIN drafts[t] :
                 drafts[t][e].id = id => t = s /\ e = ElementOf(s, id)
<1>1. PICK e \in DOMAIN drafts[s] : drafts[s][e].id = id
    BY DEF ChipIds
<1>2. ElementOf(s, id) \in DOMAIN drafts[s] /\ drafts[s][ElementOf(s, id)].id = id
    BY <1>1 DEF ElementOf
<1>3. id \in DOMAIN requests /\ requests[id].answer = "ok" /\ requests[id].target = s
      /\ requests[id].of = ElementOf(s, id)
    BY <1>2 DEF ChipsInv, OriginInv
<1>4. \A t \in Sessions : \A f \in DOMAIN drafts[t] :
          drafts[t][f].id = id => requests[id].target = t /\ requests[id].of = f
    BY DEF ChipsInv, OriginInv
<1> QED BY <1>2, <1>3, <1>4

\* Chips that stay, whatever their changes, keep their origin when requests arrive or
\* are answered.
LEMMA OriginKept ==
    ASSUME OriginInv,
           DOMAIN requests \subseteq DOMAIN requests',
           \A n \in DOMAIN requests :
              /\ requests'[n].target = requests[n].target /\ requests'[n].of = requests[n].of
              /\ requests'[n].kind = requests[n].kind
              /\ requests[n].answer = "ok" => requests'[n].answer = "ok",
           \A s \in Sessions : \A e \in DOMAIN drafts'[s] :
              /\ e \in DOMAIN drafts[s]
              /\ drafts'[s][e].id = drafts[s][e].id /\ drafts'[s][e].from = drafts[s][e].from
    PROVE  OriginInv'
BY DEF OriginInv

\* What waits goes on waiting when requests arrive or others are answered.
LEMMA WaitingKept ==
    ASSUME WaitingInv, waiting' \subseteq waiting,
           DOMAIN requests \subseteq DOMAIN requests',
           \A x \in waiting' : requests'[x.request] = requests[x.request]
    PROVE  WaitingInv'
BY DEF WaitingInv

\* A capture that arrives finds its target, and waits; or is refused.
LEMMA CreateArrivesKeeps ==
    ASSUME ChipsInv, NEW e \in Elements, CreateArrives(e)
    PROVE  ChipsInv'
<1>1. /\ UNCHANGED <<sessionVars, drafts, scenario>>
      /\ \/ Arrives("create", e, NoProperty, "refused") /\ waiting' = waiting
         \/ /\ active # None /\ Arrives("create", e, NoProperty, "none")
            /\ waiting' = waiting \cup {[request |-> Number, session |-> active]}
    BY DEF CreateArrives
<1>2. PICK answer \in {"none", "refused"} : Arrives("create", e, NoProperty, answer)
    BY <1>1
<1>3. /\ requests' \in Seq(Request)
      /\ Number \in Nat /\ Number \notin DOMAIN requests
      /\ DOMAIN requests' = DOMAIN requests \cup {Number}
      /\ requests'[Number] = [kind |-> "create", of |-> e, property |-> NoProperty,
                              target |-> active, answer |-> answer]
      /\ \A n \in DOMAIN requests : requests'[n] = requests[n]
    BY <1>2, ArrivalFacts DEF ChipsInv, SessionTypeOK
<1>4. SessionTypeOK' /\ ChipTypeOK'
    BY <1>1, <1>3 DEF ChipsInv, SessionTypeOK, ChipTypeOK, sessionVars
<1>5. OriginInv'
    BY <1>1, <1>3, OriginKept DEF ChipsInv
<1>6. WaitingInv'
    <2>1. CASE waiting' = waiting
        BY <1>3, <2>1, WaitingKept DEF ChipsInv, WaitingInv
    <2>2. CASE /\ active # None /\ Arrives("create", e, NoProperty, "none")
               /\ waiting' = waiting \cup {[request |-> Number, session |-> active]}
        <3>1. requests'[Number] = [kind |-> "create", of |-> e, property |-> NoProperty,
                                   target |-> active, answer |-> "none"]
            BY <2>2, ArrivalFacts DEF ChipsInv, SessionTypeOK
        <3> DEFINE new == [request |-> Number, session |-> active]
        <3>2. new.request = Number /\ new.session = active /\ active \in Sessions
            BY <2>2 DEF ChipsInv, SessionTypeOK
        <3> HIDE DEF new
        <3>3. waiting' = waiting \cup {new}
            BY <2>2 DEF new
        <3> QED BY <1>3, <3>1, <3>2, <3>3 DEF ChipsInv, WaitingInv
    <2> QED BY <1>1, <2>1, <2>2
<1> QED BY <1>4, <1>5, <1>6 DEF ChipsInv

\* An update that arrives is refused, changes its chip, or waits with a copy.
LEMMA UpdateArrivesKeeps ==
    ASSUME ChipsInv, None \notin Sessions, NEW id \in Nat, NEW property \in Properties,
           UpdateArrives(id, property)
    PROVE  ChipsInv'
<1> DEFINE e == ElementOf(active, id)
           changes == ChangesWith(drafts[active][e].changes, property, Number)
<1>1. UNCHANGED <<sessionVars, scenario>> /\ active \in Sessions \cup {None}
    BY DEF UpdateArrives, ChipsInv, SessionTypeOK
<1>2. SessionTypeOK'
    BY <1>1 DEF ChipsInv, SessionTypeOK, sessionVars
<1>3. ASSUME NEW answer \in {"none", "ok", "refused"}, Arrives("update", id, property, answer)
      PROVE  /\ requests' \in Seq(Request)
             /\ Number \in Nat /\ Number \notin DOMAIN requests
             /\ DOMAIN requests' = DOMAIN requests \cup {Number}
             /\ requests'[Number] = [kind |-> "update", of |-> id, property |-> property,
                                     target |-> active, answer |-> answer]
             /\ \A n \in DOMAIN requests : requests'[n] = requests[n]
    BY <1>1, <1>3, ArrivalFacts DEF ChipsInv
<1>4. CASE ~(active = None \/ id \notin ChipIds(active)) /\ e \in Sourced
    <2>1. /\ Arrives("update", id, property, "none") /\ UNCHANGED drafts
          /\ waiting' = waiting \cup {[request |-> Number, session |-> active, changes |-> changes]}
        BY <1>4 DEF UpdateArrives
    <2>2. active \in Sessions /\ e \in DOMAIN drafts[active] /\ drafts[active][e] \in Chip
        BY <1>1, <1>4, ChipOfId, ChipFacts DEF ChipsInv
    <2>3. drafts[active][e].changes \in Changes
        BY <2>2 DEF Chip
    <2>4. changes \in Changes /\ property \in DOMAIN changes /\ changes[property] = Number
        <3>1. Number \in Nat
            BY <1>3, <2>1
        <3>2. changes \in Changes
            BY <2>3, <3>1, SetFacts DEF Changes, ChangesWith
        <3> QED BY <3>2 DEF ChangesWith, MapSet
    <2> DEFINE new == [request |-> Number, session |-> active, changes |-> changes]
    <2>5. new.request = Number /\ new.session = active /\ new.changes = changes
        OBVIOUS
    <2> HIDE DEF changes
    <2>6. waiting' = waiting \cup {new}
        BY <2>1
    <2> HIDE DEF new, e
    <2>7. WaitingInv'
        BY <1>3, <2>1, <2>2, <2>4, <2>5, <2>6 DEF ChipsInv, WaitingInv
    <2>8. OriginInv'
        BY <1>3, <2>1, OriginKept DEF ChipsInv
    <2>9. ChipTypeOK'
        BY <1>3, <2>1 DEF ChipsInv, ChipTypeOK
    <2> QED BY <1>2, <2>7, <2>8, <2>9 DEF ChipsInv
<1>5. CASE ~(active = None \/ id \notin ChipIds(active)) /\ e \notin Sourced
    <2>1. /\ Arrives("update", id, property, "ok") /\ UNCHANGED waiting
          /\ drafts' = [drafts EXCEPT ![active][e].changes = changes]
        BY <1>5 DEF UpdateArrives
    <2>2. active \in Sessions /\ e \in DOMAIN drafts[active] /\ drafts[active][e] \in Chip
        BY <1>1, <1>5, ChipOfId, ChipFacts DEF ChipsInv
    <2>3. drafts[active][e].changes \in Changes
        BY <2>2 DEF Chip
    <2>4. changes \in Changes
        <3>1. Number \in Nat
            BY <1>3, <2>1
        <3> QED BY <2>3, <3>1, SetFacts DEF Changes, ChangesWith
    <2> HIDE DEF changes, e
    <2>5. /\ drafts' \in [Sessions -> MapsOf(Elements, Chip)]
          /\ \A t \in Sessions : DOMAIN drafts'[t] = DOMAIN drafts[t]
          /\ \A t \in Sessions : \A f \in DOMAIN drafts[t] :
                ~(t = active /\ f = e) => drafts'[t][f] = drafts[t][f]
          /\ drafts'[active][e].id = drafts[active][e].id
          /\ drafts'[active][e].from = drafts[active][e].from
        BY <2>1, <2>2, <2>4, ChangeFacts DEF ChipsInv
    <2>6. OriginInv'
        <3>1. \A t \in Sessions : \A f \in DOMAIN drafts'[t] :
                  /\ f \in DOMAIN drafts[t]
                  /\ drafts'[t][f].id = drafts[t][f].id /\ drafts'[t][f].from = drafts[t][f].from
            BY <2>5
        <3> QED BY <1>3, <2>1, <3>1, OriginKept DEF ChipsInv
    <2>7. WaitingInv'
        BY <1>3, <2>1, WaitingKept DEF ChipsInv, WaitingInv
    <2>8. ChipTypeOK'
        BY <1>3, <2>1, <2>5 DEF ChipTypeOK
    <2> QED BY <1>2, <2>6, <2>7, <2>8 DEF ChipsInv
<1>6. CASE active = None \/ id \notin ChipIds(active)
    <2>1. Arrives("update", id, property, "refused") /\ UNCHANGED <<drafts, waiting>>
        BY <1>6 DEF UpdateArrives
    <2>2. OriginInv'
        BY <1>3, <2>1, OriginKept DEF ChipsInv
    <2>3. WaitingInv'
        BY <1>3, <2>1, WaitingKept DEF ChipsInv, WaitingInv
    <2>4. ChipTypeOK'
        BY <1>3, <2>1 DEF ChipsInv, ChipTypeOK
    <2> QED BY <1>2, <2>2, <2>3, <2>4 DEF ChipsInv
<1> QED BY <1>4, <1>5, <1>6

\* A chip that is removed takes nothing with it.
LEMMA RemoveKeeps ==
    ASSUME ChipsInv, NEW id \in Nat, RemoveArrives(id)
    PROVE  ChipsInv'
<1>1. /\ UNCHANGED <<sessionVars, scenario, waiting>> /\ active \in Sessions
      /\ Arrives("remove", id, NoProperty, "ok")
      /\ drafts' = [drafts EXCEPT ![active] = MapDelete(drafts[active], ElementOf(active, id))]
    BY DEF RemoveArrives, ChipsInv, SessionTypeOK
<1>2. /\ requests' \in Seq(Request)
      /\ DOMAIN requests' = DOMAIN requests \cup {Number}
      /\ \A n \in DOMAIN requests : requests'[n] = requests[n]
    BY <1>1, ArrivalFacts DEF ChipsInv
<1> DEFINE draft == MapDelete(drafts[active], ElementOf(active, id))
<1>3. /\ draft \in MapsOf(Elements, Chip)
      /\ \A e \in DOMAIN draft : e \in DOMAIN drafts[active] /\ draft[e] = drafts[active][e]
    <2>1. draft \in MapsOf(Elements, Chip)
        BY <1>1, ChipFacts, DeleteFacts DEF ChipsInv
    <2> QED BY <2>1 DEF MapDelete
<1> HIDE DEF draft
<1>4. /\ drafts \in [Sessions -> MapsOf(Elements, Chip)]
      /\ drafts' = [drafts EXCEPT ![active] = draft]
    BY <1>1 DEF ChipsInv, ChipTypeOK, draft
<1>5. drafts' \in [Sessions -> MapsOf(Elements, Chip)]
    BY <1>3, <1>4
<1>6. \A t \in Sessions : \A e \in DOMAIN drafts'[t] :
          e \in DOMAIN drafts[t] /\ drafts'[t][e] = drafts[t][e]
    BY <1>1, <1>3, <1>4
<1>7. OriginInv'
    BY <1>2, <1>6, OriginKept DEF ChipsInv
<1>8. WaitingInv'
    BY <1>1, <1>2, WaitingKept DEF ChipsInv, WaitingInv
<1>9. SessionTypeOK' /\ ChipTypeOK'
    BY <1>1, <1>2, <1>5 DEF ChipsInv, SessionTypeOK, ChipTypeOK, sessionVars
<1> QED BY <1>7, <1>8, <1>9 DEF ChipsInv

\* What a create makes of the drafts: its chip, in the session it was aimed at, and no
\* other change.
LEMMA CreateEffect ==
    ASSUME ChipsInv, NEW x \in waiting, CreateEnds(x)
    PROVE  LET s == x.session
               e == requests[x.request].of IN
           /\ s \in Sessions /\ e \in Elements
           /\ drafts' \in [Sessions -> MapsOf(Elements, Chip)]
           /\ e \in DOMAIN drafts'[s]
           /\ \A t \in Sessions : \A f \in DOMAIN drafts'[t] :
                 ~(t = s /\ f = e) => f \in DOMAIN drafts[t] /\ drafts'[t][f] = drafts[t][f]
           /\ IF e \in DOMAIN drafts[s]
              THEN /\ drafts'[s][e].id = drafts[s][e].id
                   /\ drafts'[s][e].from = drafts[s][e].from \cup {x.request}
                   /\ drafts'[s][e].changes = drafts[s][e].changes
              ELSE /\ drafts'[s][e].id = x.request /\ drafts'[s][e].from = {x.request}
<1> DEFINE s == x.session
           e == requests[x.request].of
           chip == IF e \in DOMAIN drafts[s]
                   THEN [drafts[s][e] EXCEPT !.from = drafts[s][e].from \cup {x.request}]
                   ELSE [id |-> x.request, from |-> {x.request}, changes |-> EmptyMap]
           draft == MapSet(drafts[s], e, chip)
<1>1. /\ s \in Sessions /\ e \in Elements /\ x.request \in DOMAIN requests
      /\ drafts' = [drafts EXCEPT ![s] = draft]
    BY DEF CreateEnds, Attaches, ChipsInv, WaitingInv
<1>2. x.request \in Nat
    <2>1. requests \in Seq(Request)
        BY DEF ChipsInv, ChipTypeOK
    <2>2. DOMAIN requests = 1 .. Len(requests) /\ Len(requests) \in Nat
        BY <2>1
    <2>3. x.request \in DOMAIN requests
        BY <1>1
    <2> HIDE DEF s, e, chip, draft
    <2> QED BY <2>2, <2>3
<1>3. /\ drafts \in [Sessions -> MapsOf(Elements, Chip)] /\ drafts[s] \in MapsOf(Elements, Chip)
      /\ \A f \in DOMAIN drafts[s] : drafts[s][f] \in Chip
    BY <1>1, ChipFacts DEF ChipsInv, ChipTypeOK
<1>4. /\ chip \in Chip
      /\ IF e \in DOMAIN drafts[s]
         THEN /\ chip.id = drafts[s][e].id /\ chip.from = drafts[s][e].from \cup {x.request}
              /\ chip.changes = drafts[s][e].changes
         ELSE chip.id = x.request /\ chip.from = {x.request}
    <2>1. CASE e \in DOMAIN drafts[s]
        <3>1. drafts[s][e] \in Chip
            BY <1>3, <2>1
        <3> QED BY <1>2, <2>1, <3>1 DEF Chip
    <2>2. CASE e \notin DOMAIN drafts[s]
        <3>1. EmptyMap \in Changes
            BY EmptyFacts DEF Changes
        <3> QED BY <1>2, <2>2, <3>1 DEF Chip
    <2> QED BY <2>1, <2>2
<1> HIDE DEF chip
<1>5. draft \in MapsOf(Elements, Chip)
    BY <1>1, <1>3, <1>4, SetFacts
<1>6. /\ e \in DOMAIN draft /\ draft[e] = chip
      /\ \A f \in DOMAIN draft : f # e => f \in DOMAIN drafts[s] /\ draft[f] = drafts[s][f]
    BY DEF MapSet
<1> HIDE DEF draft
<1>7. /\ drafts' \in [Sessions -> MapsOf(Elements, Chip)] /\ drafts'[s] = draft
      /\ \A t \in Sessions : t # s => drafts'[t] = drafts[t]
    BY <1>1, <1>3, <1>5
<1> QED BY <1>1, <1>4, <1>6, <1>7

\* A create that ends makes a chip of its own, or finds that of its element.
LEMMA CreateEndsKeeps ==
    ASSUME ChipsInv, NEW x \in waiting, CreateEnds(x)
    PROVE  ChipsInv'
<1> DEFINE s == x.session
           e == requests[x.request].of
           k == x.request
<1>1. /\ s \in Sessions /\ e \in Elements
      /\ drafts' \in [Sessions -> MapsOf(Elements, Chip)]
      /\ \A t \in Sessions : \A f \in DOMAIN drafts'[t] :
            ~(t = s /\ f = e) => f \in DOMAIN drafts[t] /\ drafts'[t][f] = drafts[t][f]
      /\ \/ e \in DOMAIN drafts[s] /\ drafts'[s][e].id = drafts[s][e].id
            /\ drafts'[s][e].from = drafts[s][e].from \cup {k}
         \/ drafts'[s][e].id = k /\ drafts'[s][e].from = {k}
    BY CreateEffect
<1>2. /\ k \in DOMAIN requests /\ requests[k].target = s /\ requests[k].answer = "none"
      /\ requests[k].kind = "create"
    BY DEF ChipsInv, WaitingInv, CreateEnds
<1>3. /\ requests' = [requests EXCEPT ![k].answer = "ok"] /\ waiting' = waiting \ {x}
      /\ UNCHANGED <<sessionVars, scenario>>
    BY DEF CreateEnds
<1>4. /\ requests' \in Seq(Request)
      /\ DOMAIN requests' = DOMAIN requests
      /\ requests'[k].answer = "ok"
      /\ \A n \in DOMAIN requests :
            /\ n # k => requests'[n] = requests[n]
            /\ requests'[n].kind = requests[n].kind /\ requests'[n].of = requests[n].of
            /\ requests'[n].target = requests[n].target
    BY <1>2, <1>3, AnswerFacts DEF ChipsInv
<1>5. SessionTypeOK' /\ ChipTypeOK'
    BY <1>1, <1>3, <1>4 DEF ChipsInv, SessionTypeOK, ChipTypeOK, sessionVars
<1>6. WaitingInv'
    <2>1. \A y \in waiting' : y \in waiting /\ y.request # k /\ y.request \in DOMAIN requests
        BY <1>3 DEF ChipsInv, WaitingInv
    <2> HIDE DEF k
    <2> QED BY <1>3, <1>4, <2>1, WaitingKept DEF ChipsInv
<1>7. OriginInv'
    <2> SUFFICES ASSUME NEW t \in Sessions, NEW f \in DOMAIN drafts'[t]
                 PROVE  /\ \A n \in drafts'[t][f].from : n \in DOMAIN requests' /\ requests'[n].target = t
                        /\ drafts'[t][f].id \in DOMAIN requests'
                        /\ requests'[drafts'[t][f].id].kind = "create"
                        /\ requests'[drafts'[t][f].id].answer = "ok"
                        /\ requests'[drafts'[t][f].id].target = t
                        /\ requests'[drafts'[t][f].id].of = f
        BY DEF OriginInv
    <2>1. \A u \in Sessions : \A g \in DOMAIN drafts[u] :
              /\ \A n \in drafts[u][g].from : n \in DOMAIN requests /\ requests[n].target = u
              /\ drafts[u][g].id \in DOMAIN requests
              /\ requests[drafts[u][g].id].kind = "create" /\ requests[drafts[u][g].id].answer = "ok"
              /\ requests[drafts[u][g].id].target = u /\ requests[drafts[u][g].id].of = g
        BY DEF ChipsInv, OriginInv
    <2>2. \A u \in Sessions : \A g \in DOMAIN drafts[u] :
              /\ \A n \in drafts[u][g].from : n \in DOMAIN requests' /\ requests'[n].target = u
              /\ drafts[u][g].id \in DOMAIN requests'
              /\ requests'[drafts[u][g].id].kind = "create" /\ requests'[drafts[u][g].id].answer = "ok"
              /\ requests'[drafts[u][g].id].target = u /\ requests'[drafts[u][g].id].of = g
        BY <1>4, <2>1
    <2>3. k \in DOMAIN requests' /\ requests'[k].target = s /\ requests'[k].of = e
          /\ requests'[k].kind = "create" /\ requests'[k].answer = "ok"
        BY <1>2, <1>4
    <2>4. CASE t = s /\ f = e
        <3> HIDE DEF k, e, s
        <3> QED BY <1>1, <2>2, <2>3, <2>4
    <2>5. CASE ~(t = s /\ f = e)
        <3> HIDE DEF k, e, s
        <3> QED BY <1>1, <2>2, <2>5
    <2> QED BY <2>4, <2>5
<1> QED BY <1>5, <1>6, <1>7 DEF ChipsInv

\* What an update that ends makes of the drafts: the changes of its chip are those of
\* the copy, or nothing changes as the chip is gone.
LEMMA UpdateEffect ==
    ASSUME ChipsInv, NEW x \in waiting, UpdateEnds(x)
    PROVE  LET id == requests[x.request].of
               e == ElementOf(x.session, id) IN
           /\ drafts' \in [Sessions -> MapsOf(Elements, Chip)]
           /\ \A t \in Sessions : DOMAIN drafts'[t] = DOMAIN drafts[t]
           /\ \A t \in Sessions : \A f \in DOMAIN drafts[t] :
                 IF t = x.session /\ f = e /\ id \in ChipIds(t)
                 THEN /\ drafts'[t][f].id = drafts[t][f].id /\ drafts'[t][f].from = drafts[t][f].from
                      /\ drafts'[t][f].changes = x.changes
                 ELSE drafts'[t][f] = drafts[t][f]
<1> DEFINE id == requests[x.request].of
           e == ElementOf(x.session, id)
<1>1. x.session \in Sessions /\ x.changes \in Changes
    BY DEF UpdateEnds, ChipsInv, WaitingInv
<1>2. drafts' = IF id \in ChipIds(x.session) THEN [drafts EXCEPT ![x.session][e].changes = x.changes]
                ELSE drafts
    BY DEF UpdateEnds
<1>3. CASE id \in ChipIds(x.session)
    <2>1. e \in DOMAIN drafts[x.session]
        BY <1>1, <1>3, ChipOfId
    <2> HIDE DEF id, e
    <2>2. /\ drafts' \in [Sessions -> MapsOf(Elements, Chip)]
          /\ \A t \in Sessions : DOMAIN drafts'[t] = DOMAIN drafts[t]
          /\ \A t \in Sessions : \A f \in DOMAIN drafts[t] :
                ~(t = x.session /\ f = e) => drafts'[t][f] = drafts[t][f]
          /\ drafts'[x.session][e].id = drafts[x.session][e].id
          /\ drafts'[x.session][e].from = drafts[x.session][e].from
          /\ drafts'[x.session][e].changes = x.changes
        <3>1. ChipTypeOK
            BY DEF ChipsInv
        <3>2. drafts' = [drafts EXCEPT ![x.session][e].changes = x.changes]
            BY <1>2, <1>3
        <3> QED BY ZenonT(40), <1>1, <2>1, <3>1, <3>2, ChangeFacts
    <2> QED BY <1>3, <2>2 DEF id, e
<1>4. CASE id \notin ChipIds(x.session)
    <2>1. drafts' = drafts
        BY <1>2, <1>4
    <2> QED BY <1>4, <2>1 DEF ChipsInv, ChipTypeOK
<1> QED BY <1>3, <1>4

\* An update that ends answers itself and leaves what else waits.
LEMMA UpdateEndsKeeps ==
    ASSUME ChipsInv, NEW x \in waiting, UpdateEnds(x)
    PROVE  ChipsInv'
<1> DEFINE k == x.request
<1>1. /\ drafts' \in [Sessions -> MapsOf(Elements, Chip)]
      /\ \A t \in Sessions : \A f \in DOMAIN drafts'[t] :
            /\ f \in DOMAIN drafts[t]
            /\ drafts'[t][f].id = drafts[t][f].id /\ drafts'[t][f].from = drafts[t][f].from
    BY UpdateEffect
<1>2. PICK answer \in {"ok", "refused"} : requests' = [requests EXCEPT ![k].answer = answer]
    BY DEF UpdateEnds
<1>3. waiting' = waiting \ {x} /\ UNCHANGED <<sessionVars, scenario>>
    BY DEF UpdateEnds
<1>4. k \in DOMAIN requests /\ requests[k].answer = "none"
    BY DEF ChipsInv, WaitingInv
<1>5. /\ requests' \in Seq(Request)
      /\ DOMAIN requests' = DOMAIN requests
      /\ \A n \in DOMAIN requests :
            /\ n # k => requests'[n] = requests[n]
            /\ requests'[n].kind = requests[n].kind /\ requests'[n].of = requests[n].of
            /\ requests'[n].target = requests[n].target
    BY <1>2, <1>4, AnswerFacts DEF ChipsInv
<1>6. SessionTypeOK' /\ ChipTypeOK'
    BY <1>1, <1>3, <1>5 DEF ChipsInv, SessionTypeOK, ChipTypeOK, sessionVars
<1>7. WaitingInv'
    <2>1. \A y \in waiting' : y \in waiting /\ y.request # k /\ y.request \in DOMAIN requests
        BY <1>3 DEF ChipsInv, WaitingInv
    <2> HIDE DEF k
    <2> QED BY <1>3, <1>5, <2>1, WaitingKept DEF ChipsInv
<1>8. OriginInv'
    <2>1. \A n \in DOMAIN requests : requests[n].answer = "ok" => requests'[n].answer = "ok"
        BY <1>4, <1>5
    <2> QED BY <1>1, <1>5, <2>1, OriginKept DEF ChipsInv
<1> QED BY <1>6, <1>7, <1>8 DEF ChipsInv

\* An upload is a request that changes no chip.
LEMMA UploadKeeps ==
    ASSUME ChipsInv, NEW id \in Nat, NEW hash, Upload(id, hash)
    PROVE  ChipsInv'
<1>1. /\ UNCHANGED <<sessionVars, scenario, drafts, waiting>>
      /\ Arrives("upload", id, NoProperty, "ok") \/ Arrives("upload", id, NoProperty, "refused")
    BY DEF Upload
<1>2. /\ requests' \in Seq(Request)
      /\ DOMAIN requests' = DOMAIN requests \cup {Number}
      /\ \A n \in DOMAIN requests : requests'[n] = requests[n]
    BY <1>1, ArrivalFacts DEF ChipsInv, SessionTypeOK
<1>3. OriginInv'
    BY <1>1, <1>2, OriginKept DEF ChipsInv
<1>4. WaitingInv'
    BY <1>1, <1>2, WaitingKept DEF ChipsInv, WaitingInv
<1>5. SessionTypeOK' /\ ChipTypeOK'
    BY <1>1, <1>2 DEF ChipsInv, SessionTypeOK, ChipTypeOK, sessionVars
<1> QED BY <1>3, <1>4, <1>5 DEF ChipsInv

\* A cleanup empties a draft, or none.
LEMMA CleanupKeeps ==
    ASSUME ChipsInv, NEW s \in Sessions, Cleanup(s)
    PROVE  ChipsInv'
<1>1. /\ UNCHANGED <<sessionVars, scenario, requests, waiting>>
      /\ drafts' = drafts \/ \E f : drafts' = [drafts EXCEPT ![f] = EmptyMap]
    BY DEF Cleanup, Retired, DraftDeleted
<1>2. EmptyMap \in MapsOf(Elements, Chip) /\ DOMAIN EmptyMap = {}
    BY EmptyFacts
<1>3. /\ drafts' \in [Sessions -> MapsOf(Elements, Chip)]
      /\ \A t \in Sessions : \A e \in DOMAIN drafts'[t] :
            e \in DOMAIN drafts[t] /\ drafts'[t][e] = drafts[t][e]
    BY <1>1, <1>2 DEF ChipsInv, ChipTypeOK
<1>4. OriginInv'
    BY <1>1, <1>3, OriginKept DEF ChipsInv
<1>5. WaitingInv'
    BY <1>1, WaitingKept DEF ChipsInv
<1>6. SessionTypeOK' /\ ChipTypeOK'
    BY <1>1, <1>3 DEF ChipsInv, SessionTypeOK, ChipTypeOK, sessionVars
<1> QED BY <1>4, <1>5, <1>6 DEF ChipsInv

\* The clock, a look at a screenshot and the reports of views change no chip.
LEMMA OthersKeep ==
    ASSUME ChipsInv, SessionTypeOK', UNCHANGED <<scenario, drafts, requests, waiting>>
    PROVE  ChipsInv'
BY DEF ChipsInv, ChipTypeOK, WaitingInv, OriginInv

\* Every step keeps chips and requests.
LEMMA StepKeepsChips ==
    ASSUME ChipsInv, [Next]_vars
    PROVE  ChipsInv'
<1>0. None \notin Sessions /\ Ids \subseteq Nat
    BY BridgeAssumption DEF Ids
<1>1. CASE Reporting
    BY <1>1, ReportingTypes, OthersKeep DEF Reporting, chipVars, ChipsInv
<1>2. ASSUME NEW e \in Elements, CreateArrives(e)
      PROVE  ChipsInv'
    BY <1>2, CreateArrivesKeeps
<1>3. ASSUME NEW id \in Ids, RemoveArrives(id)
      PROVE  ChipsInv'
    BY <1>0, <1>3, RemoveKeeps
<1>4. ASSUME NEW id \in Ids, NEW property \in Properties, UpdateArrives(id, property)
      PROVE  ChipsInv'
    BY <1>0, <1>4, UpdateArrivesKeeps
<1>5. ASSUME NEW x \in waiting, CreateEnds(x)
      PROVE  ChipsInv'
    BY <1>5, CreateEndsKeeps
<1>6. ASSUME NEW x \in waiting, UpdateEnds(x)
      PROVE  ChipsInv'
    BY <1>6, UpdateEndsKeeps
<1>7. ASSUME NEW id \in Ids, NEW hash \in Hashes, Upload(id, hash)
      PROVE  ChipsInv'
    BY <1>0, <1>7, UploadKeeps
<1>8. ASSUME NEW s \in Sessions, Cleanup(s)
      PROVE  ChipsInv'
    BY <1>8, CleanupKeeps
<1>9. CASE UNCHANGED <<scenario, sessionVars, drafts, requests, waiting>>
    BY <1>9, OthersKeep DEF sessionVars, ChipsInv, SessionTypeOK
<1> QED
    BY <1>1, <1>2, <1>3, <1>4, <1>5, <1>6, <1>7, <1>8, <1>9
    DEF Next, vars, chipVars, Tick, GetScreenshot, Fetch

\* At the start there are no chips.
LEMMA InitChips ==
    ASSUME Init
    PROVE  ChipsInv
<1>1. EmptyMap \in MapsOf(Elements, Chip) /\ DOMAIN EmptyMap = {}
    BY EmptyFacts
<1>2. ChipTypeOK /\ OriginInv
    BY <1>1 DEF Init, ChipTypeOK, OriginInv
<1>3. SessionTypeOK
    <2>1. tab \in [Views -> Views]
        <3>1. CASE tab = [v \in Views |-> v]
            BY <3>1
        <3>2. CASE tab = [v \in Views |-> CHOOSE w \in Views : TRUE]
            BY <3>2
        <3> QED BY <3>1, <3>2 DEF Init, SessionInit
    <2>2. crossed \in BOOLEAN
        BY Zenon DEF Init, SessionInit
    <2>3. /\ active = None /\ views = [v \in Views |-> None]
          /\ reports = [v \in Views |-> <<>>]
        BY DEF Init, SessionInit
    <2> QED BY <2>1, <2>2, <2>3 DEF SessionTypeOK
<1>4. WaitingInv
    BY DEF Init, WaitingInv
<1> QED BY <1>2, <1>3, <1>4 DEF ChipsInv

\* Chips, requests and what waits for the resolver always belong together.
THEOREM ChipsAlwaysKept == Spec => []ChipsInv
<1>1. Init => ChipsInv
    BY InitChips
<1>2. ChipsInv /\ [Next]_vars => ChipsInv'
    BY StepKeepsChips
<1> QED BY <1>1, <1>2, PTL DEF Spec

\* A capture becomes a chip of the chat that was the target when it arrived, however
\* the chats change while its source is resolved.
THEOREM ChipsKeepTheirSession == Spec => []ChipsStayWhereAimed
<1>1. ChipsInv => ChipsStayWhereAimed
    BY DEF ChipsInv, OriginInv, ChipsStayWhereAimed
<1> QED BY <1>1, ChipsAlwaysKept, PTL

-------------------------------------------------------------------------------
(* Screenshots                                                             *)

\* The artifacts: each is of an upload, and a hash entry that leads to one leads to its
\* own content.
ArtifactsInv ==
    /\ now \in Nat /\ lives \in [Sessions -> Nat]
    /\ artifacts = [byId |-> artifacts.byId, byHash |-> artifacts.byHash]
    /\ \A id \in DOMAIN artifacts.byId :
          LET artifact == artifacts.byId[id] IN
          /\ id \in DOMAIN requests
          /\ artifact.session \in Sessions /\ artifact.life \in Nat /\ artifact.expires \in Nat
    /\ \A key \in DOMAIN artifacts.byHash :
          LET id == artifacts.byHash[key] IN
          /\ id \in DOMAIN requests
          /\ id \in DOMAIN artifacts.byId => HashKey(artifacts.byId[id]) = key

\* Of the artifacts that are left nothing changes.
LEMMA DroppedFacts ==
    ASSUME NEW store, NEW ids
    PROVE  LET after == Dropped(store, ids) IN
           /\ after = [byId |-> after.byId, byHash |-> after.byHash]
           /\ DOMAIN after.byId = DOMAIN store.byId \ ids
           /\ \A id \in DOMAIN after.byId : after.byId[id] = store.byId[id]
           /\ \A key \in DOMAIN after.byHash :
                 /\ key \in DOMAIN store.byHash /\ after.byHash[key] = store.byHash[key]
                 /\ after.byHash[key] \in DOMAIN after.byId
BY DEF Dropped

\* A store whose artifacts and hash entries are among those of the invariant keeps it.
LEMMA FewerArtifacts ==
    ASSUME ArtifactsInv, NEW store,
           store = [byId |-> store.byId, byHash |-> store.byHash],
           \A id \in DOMAIN store.byId :
              id \in DOMAIN artifacts.byId /\ store.byId[id] = artifacts.byId[id],
           \A key \in DOMAIN store.byHash :
              key \in DOMAIN artifacts.byHash /\ store.byHash[key] = artifacts.byHash[key],
           artifacts' = store, now' \in Nat, lives' \in [Sessions -> Nat],
           DOMAIN requests \subseteq DOMAIN requests'
    PROVE  ArtifactsInv'
BY DEF ArtifactsInv, HashKey

\* An upload that is taken: the artifact is new, or its content is there already.
LEMMA UploadFacts ==
    ASSUME ChipsInv, ArtifactsInv, NEW id \in Nat, NEW hash, Upload(id, hash)
    PROVE  LET store == Purged(artifacts, now)
               artifact == [session |-> active, selection |-> id, hash |-> hash,
                            expires |-> now + TTL, life |-> lives[active]] IN
           /\ active \in Sessions /\ UNCHANGED <<now, lives>>
           /\ DOMAIN requests \subseteq DOMAIN requests' /\ Number \in DOMAIN requests'
           /\ Number \notin DOMAIN requests
           /\ \/ /\ artifacts' = Put(store, Number, artifact)
                 /\ requests'[Number].answer = "ok"
              \/ /\ artifacts' = store /\ Duplicate(store, HashKey(artifact))
                 /\ requests'[Number].answer = "ok"
              \/ /\ artifacts' = store /\ AtLimit(store, active)
                 /\ requests'[Number].answer = "refused"
<1>1. active \in Sessions /\ active \in Sessions \cup {None}
    BY DEF Upload, ChipsInv, SessionTypeOK
<1>2. ASSUME NEW answer \in {"none", "ok", "refused"}, Arrives("upload", id, NoProperty, answer)
      PROVE  /\ DOMAIN requests \subseteq DOMAIN requests' /\ Number \in DOMAIN requests'
             /\ Number \notin DOMAIN requests
             /\ requests'[Number].answer = answer
    <2>1. "upload" \in {"create", "remove", "update", "upload"} /\ id \in Elements \cup Nat
          /\ NoProperty \in Properties \cup {NoProperty}
        OBVIOUS
    <2>2. requests'[Number] = [kind |-> "upload", of |-> id, property |-> NoProperty,
                               target |-> active, answer |-> answer]
        BY <1>1, <1>2, <2>1, ArrivalFacts DEF ChipsInv
    <2>3. DOMAIN requests' = DOMAIN requests \cup {Number} /\ Number \notin DOMAIN requests
        BY <1>1, <1>2, <2>1, ArrivalFacts DEF ChipsInv
    <2> QED BY <2>2, <2>3
<1> DEFINE store == Purged(artifacts, now)
           artifact == [session |-> active, selection |-> id, hash |-> hash,
                        expires |-> now + TTL, life |-> lives[active]]
<1>3. /\ UNCHANGED <<now, lives>>
      /\ \/ /\ Duplicate(store, HashKey(artifact)) /\ artifacts' = store
            /\ Arrives("upload", id, NoProperty, "ok")
         \/ /\ AtLimit(store, active) /\ artifacts' = store
            /\ Arrives("upload", id, NoProperty, "refused")
         \/ /\ Arrives("upload", id, NoProperty, "ok")
            /\ artifacts' = Put(store, Number, artifact)
    BY DEF Upload
<1> HIDE DEF store, artifact
<1>4. QED BY <1>1, <1>2, <1>3 DEF store, artifact

\* What is left by a purge has not expired.
LEMMA PurgedFacts ==
    ASSUME ArtifactsInv
    PROVE  LET store == Purged(artifacts, now) IN
           /\ store = [byId |-> store.byId, byHash |-> store.byHash]
           /\ DOMAIN store.byId = {id \in DOMAIN artifacts.byId : ~Expired(artifacts.byId[id], now)}
           /\ \A id \in DOMAIN store.byId :
                 store.byId[id] = artifacts.byId[id] /\ store.byId[id].expires > now
           /\ \A key \in DOMAIN store.byHash :
                 key \in DOMAIN artifacts.byHash /\ store.byHash[key] = artifacts.byHash[key]
<1> DEFINE gone == {id \in DOMAIN artifacts.byId : Expired(artifacts.byId[id], now)}
           store == Dropped(artifacts, gone)
<1>1. /\ store = [byId |-> store.byId, byHash |-> store.byHash]
      /\ DOMAIN store.byId = DOMAIN artifacts.byId \ gone
      /\ \A id \in DOMAIN store.byId : store.byId[id] = artifacts.byId[id]
      /\ \A key \in DOMAIN store.byHash :
            key \in DOMAIN artifacts.byHash /\ store.byHash[key] = artifacts.byHash[key]
    BY DroppedFacts
<1>2. store = Purged(artifacts, now)
    BY DEF Purged
<1> HIDE DEF store
<1>3. DOMAIN store.byId = {id \in DOMAIN artifacts.byId : ~Expired(artifacts.byId[id], now)}
    BY <1>1
<1>4. \A id \in DOMAIN artifacts.byId : ~Expired(artifacts.byId[id], now) => artifacts.byId[id].expires > now
    BY DEF ArtifactsInv, Expired
<1> QED BY <1>1, <1>2, <1>3, <1>4

\* Every step keeps the artifacts.
LEMMA StepKeepsArtifacts ==
    ASSUME ChipsInv, ArtifactsInv, [Next]_vars
    PROVE  ArtifactsInv'
<1>0. /\ now \in Nat /\ lives \in [Sessions -> Nat] /\ Ids \subseteq Nat /\ TTL \in Nat
      /\ artifacts = [byId |-> artifacts.byId, byHash |-> artifacts.byHash]
      /\ active \in Sessions \cup {None}
    BY BridgeAssumption, ArtifactAssumption DEF ArtifactsInv, Ids, ChipsInv, SessionTypeOK
<1>1. ASSUME UNCHANGED <<artifacts, lives>>, now' \in Nat, DOMAIN requests \subseteq DOMAIN requests'
      PROVE  ArtifactsInv'
    BY <1>1 DEF ArtifactsInv
<1>2. ASSUME NEW id \in Ids, NEW hash \in Hashes, Upload(id, hash)
      PROVE  ArtifactsInv'
    <2> DEFINE store == Purged(artifacts, now)
               artifact == [session |-> active, selection |-> id, hash |-> hash,
                            expires |-> now + TTL, life |-> lives[active]]
    <2>1. /\ active \in Sessions /\ UNCHANGED <<now, lives>>
          /\ DOMAIN requests \subseteq DOMAIN requests' /\ Number \in DOMAIN requests'
          /\ Number \notin DOMAIN requests
          /\ artifacts' = Put(store, Number, artifact) \/ artifacts' = store
        BY <1>0, <1>2, UploadFacts
    <2>2. /\ store = [byId |-> store.byId, byHash |-> store.byHash]
          /\ \A i \in DOMAIN store.byId :
                i \in DOMAIN artifacts.byId /\ store.byId[i] = artifacts.byId[i]
          /\ \A key \in DOMAIN store.byHash :
                key \in DOMAIN artifacts.byHash /\ store.byHash[key] = artifacts.byHash[key]
        BY PurgedFacts
    <2>3. /\ artifact.session = active /\ artifact.life = lives[active]
          /\ artifact.expires = now + TTL /\ now + TTL \in Nat
        BY <1>0
    <2> HIDE DEF store, artifact
    <2>4. CASE artifacts' = store
        BY <1>0, <2>1, <2>2, <2>4, FewerArtifacts
    <2>5. CASE artifacts' = Put(store, Number, artifact)
        <3>1. /\ artifacts' = [byId |-> artifacts'.byId, byHash |-> artifacts'.byHash]
              /\ artifacts'.byId = MapSet(store.byId, Number, artifact)
              /\ artifacts'.byHash = MapSet(store.byHash, HashKey(artifact), Number)
            BY <2>5 DEF Put
        <3>2. /\ DOMAIN artifacts'.byId = DOMAIN store.byId \cup {Number}
              /\ artifacts'.byId[Number] = artifact
              /\ \A i \in DOMAIN store.byId : i # Number => artifacts'.byId[i] = store.byId[i]
            BY <3>1 DEF MapSet
        <3>3. \A i \in DOMAIN store.byId :
                  /\ i \in DOMAIN requests /\ i # Number
                  /\ store.byId[i].session \in Sessions
                  /\ store.byId[i].life \in Nat /\ store.byId[i].expires \in Nat
            BY <2>1, <2>2 DEF ArtifactsInv
        <3>4. \A i \in DOMAIN artifacts'.byId :
                  LET a == artifacts'.byId[i] IN
                  /\ i \in DOMAIN requests' /\ a.session \in Sessions
                  /\ a.life \in Nat /\ a.expires \in Nat
            BY <1>0, <2>1, <2>3, <3>2, <3>3
        <3>5. \A key \in DOMAIN artifacts'.byHash :
                  \/ key = HashKey(artifact) /\ artifacts'.byHash[key] = Number
                  \/ key \in DOMAIN store.byHash /\ artifacts'.byHash[key] = store.byHash[key]
            BY <3>1 DEF MapSet
        <3>6. \A key \in DOMAIN store.byHash :
                  /\ store.byHash[key] \in DOMAIN requests
                  /\ store.byHash[key] \in DOMAIN store.byId =>
                        HashKey(store.byId[store.byHash[key]]) = key
            BY <2>2 DEF ArtifactsInv
        <3>7. ASSUME NEW key \in DOMAIN artifacts'.byHash
              PROVE  LET i == artifacts'.byHash[key] IN
                     /\ i \in DOMAIN requests'
                     /\ i \in DOMAIN artifacts'.byId => HashKey(artifacts'.byId[i]) = key
            <4>1. CASE key = HashKey(artifact) /\ artifacts'.byHash[key] = Number
                BY <2>1, <3>2, <4>1
            <4>2. CASE key \in DOMAIN store.byHash /\ artifacts'.byHash[key] = store.byHash[key]
                <5>1. store.byHash[key] # Number /\ store.byHash[key] \in DOMAIN requests
                    BY <2>1, <3>6, <4>2
                <5> QED BY <2>1, <3>2, <3>6, <4>2, <5>1
            <4> QED BY <3>5, <4>1, <4>2
        <3> QED BY <1>0, <2>1, <3>1, <3>4, <3>7 DEF ArtifactsInv, HashKey
    <2> QED BY <2>1, <2>4, <2>5
<1>3. ASSUME NEW id \in Ids, GetScreenshot(id)
      PROVE  ArtifactsInv'
    <2>1. PICK ids : artifacts' = Looked(artifacts, ids, now)
        BY <1>3 DEF GetScreenshot
    <2> DEFINE left == {i \in DOMAIN artifacts.byId : i \notin ids \/ ~Expired(artifacts.byId[i], now)}
               store == [byId |-> [i \in left |-> artifacts.byId[i]], byHash |-> artifacts.byHash]
    <2>2. artifacts' = store
        BY <1>0, <2>1 DEF Looked
    <2>3. UNCHANGED <<now, lives, requests>>
        BY <1>3 DEF GetScreenshot, chipVars
    <2>4. /\ store = [byId |-> store.byId, byHash |-> store.byHash]
          /\ \A i \in DOMAIN store.byId :
                i \in DOMAIN artifacts.byId /\ store.byId[i] = artifacts.byId[i]
          /\ \A key \in DOMAIN store.byHash :
                key \in DOMAIN artifacts.byHash /\ store.byHash[key] = artifacts.byHash[key]
        OBVIOUS
    <2> HIDE DEF store
    <2> QED BY <1>0, <2>2, <2>3, <2>4, FewerArtifacts
<1>4. ASSUME NEW s \in Sessions, Cleanup(s)
      PROVE  ArtifactsInv'
    <2>1. /\ lives' = [t \in Sessions |-> IF SameKey(s, t) THEN lives[t] + 1 ELSE lives[t]]
          /\ UNCHANGED <<now, requests>>
          /\ artifacts' = artifacts \/ \E f : artifacts' = WithoutSession(artifacts, f)
        BY <1>4 DEF Cleanup, Retired
    <2>2. lives' \in [Sessions -> Nat]
        BY <1>0, <2>1
    <2>3. CASE artifacts' = artifacts
        BY <1>0, <2>1, <2>2, <2>3, FewerArtifacts
    <2>4. ASSUME NEW f, artifacts' = WithoutSession(artifacts, f)
          PROVE  ArtifactsInv'
        <3> DEFINE store == WithoutSession(artifacts, f)
        <3>1. /\ store = [byId |-> store.byId, byHash |-> store.byHash]
              /\ DOMAIN store.byId = DOMAIN artifacts.byId \ OfSession(artifacts, f)
              /\ \A i \in DOMAIN store.byId : store.byId[i] = artifacts.byId[i]
              /\ \A key \in DOMAIN store.byHash :
                    key \in DOMAIN artifacts.byHash /\ store.byHash[key] = artifacts.byHash[key]
            BY DroppedFacts DEF WithoutSession
        <3>2. artifacts' = store
            BY <2>4
        <3> HIDE DEF store
        <3> QED BY <1>0, <2>1, <2>2, <3>1, <3>2, FewerArtifacts
    <2> QED BY <2>1, <2>3, <2>4
<1>5. CASE Tick
    BY <1>0, <1>1, <1>5 DEF Tick, chipVars
<1>6. CASE Reporting
    BY <1>0, <1>1, <1>6 DEF Reporting, chipVars
<1>7. ASSUME NEW e \in Elements, CreateArrives(e)
      PROVE  ArtifactsInv'
    <2>1. DOMAIN requests \subseteq DOMAIN requests'
        BY <1>0, <1>7, ArrivalFacts DEF CreateArrives, ChipsInv
    <2> QED BY <1>0, <1>1, <1>7, <2>1 DEF CreateArrives
<1>8. ASSUME NEW id \in Ids, RemoveArrives(id)
      PROVE  ArtifactsInv'
    <2>1. DOMAIN requests \subseteq DOMAIN requests'
        BY <1>0, <1>8, ArrivalFacts DEF RemoveArrives, ChipsInv
    <2> QED BY <1>0, <1>1, <1>8, <2>1 DEF RemoveArrives
<1>9. ASSUME NEW id \in Ids, NEW property \in Properties, UpdateArrives(id, property)
      PROVE  ArtifactsInv'
    <2>1. \E answer \in {"none", "ok", "refused"} : Arrives("update", id, property, answer)
        BY <1>9 DEF UpdateArrives
    <2>2. DOMAIN requests \subseteq DOMAIN requests'
        BY <1>0, <2>1, ArrivalFacts DEF ChipsInv
    <2> QED BY <1>0, <1>1, <1>9, <2>2 DEF UpdateArrives
<1>10. ASSUME NEW x \in waiting, CreateEnds(x) \/ UpdateEnds(x)
       PROVE  ArtifactsInv'
    <2>1. DOMAIN requests' = DOMAIN requests
        BY <1>10 DEF CreateEnds, UpdateEnds
    <2> QED BY <1>0, <1>1, <1>10, <2>1 DEF CreateEnds, UpdateEnds
<1>11. ASSUME NEW s \in Sessions, Fetch(s)
       PROVE  ArtifactsInv'
    BY <1>0, <1>1, <1>11 DEF Fetch
<1>12. CASE UNCHANGED vars
    BY <1>0, <1>1, <1>12 DEF vars, chipVars
<1> QED
    BY <1>2, <1>3, <1>4, <1>5, <1>6, <1>7, <1>8, <1>9, <1>10, <1>11, <1>12 DEF Next

\* The artifacts always keep these books.
THEOREM ArtifactsAlwaysKept == Spec => []ArtifactsInv
<1>1. Init => ArtifactsInv
    BY EmptyFacts DEF Init, ArtifactsInv, NoArtifacts
<1>2. ChipsInv /\ ArtifactsInv /\ [Next]_vars => ArtifactsInv'
    BY StepKeepsArtifacts
<1> QED BY <1>1, <1>2, ChipsAlwaysKept, PTL DEF Spec

\* The sessions that have a batch stand in one order; whoever has chips is among them.
BatchesInv ==
    /\ DOMAIN batches \subseteq Sessions
    /\ \A t \in DOMAIN batches : batches[t] \subseteq DOMAIN batches \ {t}
    /\ \A t, u \in DOMAIN batches : t = u \/ t \in batches[u] \/ u \in batches[t]
    /\ \A t \in Sessions : DOMAIN drafts[t] # {} => t \in DOMAIN batches

\* A new batch comes last.
LEMMA OpenedFacts ==
    ASSUME BatchesInv, NEW s \in Sessions, batches' = Opened(s),
           \A t \in Sessions : t # s /\ DOMAIN drafts'[t] # {} => DOMAIN drafts[t] # {}
    PROVE  /\ BatchesInv' /\ DOMAIN batches \subseteq DOMAIN batches'
           /\ \A t \in DOMAIN batches : batches'[t] = batches[t]
<1>1. CASE s \in DOMAIN batches
    <2>1. batches' = batches
        BY <1>1 DEF Opened
    <2> QED BY <1>1, <2>1 DEF BatchesInv
<1>2. CASE s \notin DOMAIN batches
    <2>1. /\ DOMAIN batches' = DOMAIN batches \cup {s} /\ batches'[s] = DOMAIN batches
          /\ \A t \in DOMAIN batches : batches'[t] = batches[t]
        BY <1>2 DEF Opened, MapSet
    <2> QED BY <1>2, <2>1 DEF BatchesInv
<1> QED BY <1>1, <1>2

\* Every step keeps the order of the batches.
LEMMA StepKeepsBatches ==
    ASSUME ChipsInv, BatchesInv, [Next]_vars
    PROVE  BatchesInv'
<1>1. ASSUME UNCHANGED batches, \A t \in Sessions : DOMAIN drafts'[t] # {} => DOMAIN drafts[t] # {}
      PROVE  BatchesInv'
    BY <1>1 DEF BatchesInv
<1>2. drafts \in [Sessions -> MapsOf(Elements, Chip)] /\ active \in Sessions \cup {None}
    BY DEF ChipsInv, ChipTypeOK, SessionTypeOK
<1>3. CASE UNCHANGED <<drafts, batches>>
    BY <1>1, <1>3
<1>4. ASSUME NEW id \in Ids, RemoveArrives(id)
      PROVE  BatchesInv'
    <2>1. /\ drafts' = [drafts EXCEPT ![active] = MapDelete(@, ElementOf(active, id))]
          /\ UNCHANGED batches /\ id \in ChipIds(active)
        BY <1>4 DEF RemoveArrives
    <2>2. DOMAIN drafts[active] # {}
        BY <2>1 DEF ChipIds
    <2> QED BY <1>1, <1>2, <2>1, <2>2
<1>5. ASSUME NEW id \in Ids, NEW property \in Properties, UpdateArrives(id, property)
      PROVE  BatchesInv'
    <2>1. /\ UNCHANGED batches
          /\ \/ drafts' = drafts
             \/ \E e, changes : drafts' = [drafts EXCEPT ![active][e].changes = changes]
        BY <1>5 DEF UpdateArrives
    <2>2. \A t \in Sessions : DOMAIN drafts'[t] = DOMAIN drafts[t]
        BY <1>2, <2>1
    <2> QED BY <1>1, <2>1, <2>2
<1>6. ASSUME NEW x \in waiting, CreateEnds(x)
      PROVE  BatchesInv'
    <2>1. x.session \in Sessions /\ batches' = Opened(x.session)
          /\ \E draft : drafts' = [drafts EXCEPT ![x.session] = draft]
        BY <1>6 DEF CreateEnds, Attaches, ChipsInv, WaitingInv
    <2>2. \A t \in Sessions : t # x.session => drafts'[t] = drafts[t]
        BY <1>2, <2>1
    <2> QED BY <2>1, <2>2, OpenedFacts
<1>7. ASSUME NEW x \in waiting, UpdateEnds(x)
      PROVE  BatchesInv'
    <2>1. x.session \in Sessions /\ batches' = Opened(x.session)
        BY <1>7 DEF UpdateEnds, ChipsInv, WaitingInv
    <2>2. \A t \in Sessions : DOMAIN drafts'[t] = DOMAIN drafts[t]
        BY <1>7, UpdateEffect
    <2> QED BY <2>1, <2>2, OpenedFacts
<1>8. ASSUME NEW s \in Sessions, Fetch(s)
      PROVE  BatchesInv'
    BY <1>8, OpenedFacts DEF Fetch
<1>9. ASSUME NEW s \in Sessions, Cleanup(s)
      PROVE  BatchesInv'
    <2>1. CASE UNCHANGED <<drafts, batches>>
        BY <1>3, <2>1
    <2>2. ASSUME NEW f \in FoundByKey(s), Retired(s, f)
          PROVE  BatchesInv'
        <3>1. /\ f \in Sessions /\ drafts' = [drafts EXCEPT ![f] = EmptyMap]
              /\ DOMAIN batches' = DOMAIN batches \ {f}
              /\ \A t \in DOMAIN batches' : batches'[t] = batches[t] \ {f}
            BY <2>2 DEF Retired, DraftDeleted, Closed, FoundByKey, WithKeyOf, BatchesInv
        <3>2. /\ DOMAIN drafts'[f] = {}
              /\ \A t \in Sessions : t # f => drafts'[t] = drafts[t]
            BY <1>2, <3>1, EmptyFacts
        <3> QED BY <3>1, <3>2 DEF BatchesInv
    <2> QED BY <1>9, <2>1, <2>2 DEF Cleanup
<1> QED
    BY <1>3, <1>4, <1>5, <1>6, <1>7, <1>8, <1>9
    DEF Next, vars, chipVars, Reporting, CreateArrives, Upload, GetScreenshot, Tick

\* The other agents of a session's key, and those whose batch stands before its own.
Others(s) == {t \in Sessions \ {s} : SameKey(s, t)}
Ahead(s) == {t \in batches[s] : SameKey(s, t)}

\* A screenshot outlives a cleanup only by an agent that stood before its own.
OutlivedInv ==
    \A id \in DOMAIN artifacts.byId :
        LET a == artifacts.byId[id] IN
        /\ a.session \in DOMAIN batches
        /\ \A t \in DOMAIN batches :
              t = a.session => lives[t] + Cardinality(Ahead(t)) <= a.life + Cardinality(Others(t))

\* Those before are among the others, which are finitely many.
LEMMA AheadFacts ==
    ASSUME BatchesInv, NEW s \in DOMAIN batches
    PROVE  /\ IsFiniteSet(Others(s)) /\ IsFiniteSet(Ahead(s)) /\ Ahead(s) \subseteq Others(s)
           /\ Cardinality(Others(s)) \in Nat /\ Cardinality(Ahead(s)) \in Nat
           /\ Cardinality(Ahead(s)) <= Cardinality(Others(s))
<1>1. Others(s) \subseteq Sessions /\ Ahead(s) \subseteq Others(s)
    BY DEF Others, Ahead, BatchesInv
<1>2. IsFiniteSet(Others(s))
    BY <1>1, BridgeAssumption, FS_Subset
<1>3. IsFiniteSet(Ahead(s)) /\ Cardinality(Ahead(s)) <= Cardinality(Others(s))
    BY <1>1, <1>2, FS_Subset
<1> QED BY <1>1, <1>2, <1>3, FS_CardinalityType

\* Where no session is deleted and no screenshot taken, the count stays.
LEMMA CountStays ==
    ASSUME OutlivedInv, UNCHANGED <<scenario, lives>>,
           DOMAIN batches \subseteq DOMAIN batches',
           \A t \in DOMAIN batches : batches'[t] = batches[t],
           \A id \in DOMAIN artifacts'.byId :
              id \in DOMAIN artifacts.byId /\ artifacts'.byId[id] = artifacts.byId[id]
    PROVE  OutlivedInv'
<1>1. \A t \in DOMAIN batches : Ahead(t)' = Ahead(t) /\ Others(t)' = Others(t)
    BY DEF Ahead, Others, SameKey
<1> QED BY <1>1 DEF OutlivedInv

\* A cleanup of a key moves the other agents of the key up by one.
LEMMA CleanupCounts ==
    ASSUME ChipsInv, BatchesInv, ArtifactsInv, OutlivedInv, NEW s \in Sessions, Cleanup(s)
    PROVE  OutlivedInv'
<1>0. lives \in [Sessions -> Nat] /\ DOMAIN batches \subseteq Sessions
    BY DEF ArtifactsInv, BatchesInv
<1>1. /\ lives' = [t \in Sessions |-> IF SameKey(s, t) THEN lives[t] + 1 ELSE lives[t]]
      /\ UNCHANGED scenario
    BY DEF Cleanup
<1>2. \A t : Others(t)' = Others(t)
    BY <1>1 DEF Others, SameKey
<1>3. CASE WithKeyOf(s) = {} /\ UNCHANGED <<drafts, batches, artifacts>>
    <2>1. \A t \in DOMAIN batches : lives'[t] = lives[t] /\ Ahead(t)' = Ahead(t)
        BY <1>0, <1>1, <1>3 DEF WithKeyOf, Ahead, SameKey
    <2> QED BY <1>2, <1>3, <2>1 DEF OutlivedInv
<1>4. ASSUME NEW f \in FoundByKey(s), Retired(s, f)
      PROVE  OutlivedInv'
    <2>1. /\ f \in DOMAIN batches /\ SameKey(s, f)
          /\ \A u \in batches[f] : u \in DOMAIN batches => ~SameKey(s, u)
          /\ DOMAIN batches' = DOMAIN batches \ {f}
          /\ \A t \in DOMAIN batches' : batches'[t] = batches[t] \ {f}
          /\ artifacts' = WithoutSession(artifacts, f)
        BY <1>4 DEF Retired, DraftDeleted, Closed, FoundByKey, WithKeyOf
    <2>2. \A i \in DOMAIN artifacts'.byId :
              /\ i \in DOMAIN artifacts.byId /\ artifacts'.byId[i] = artifacts.byId[i]
              /\ i \notin OfSession(artifacts, f)
        BY <2>1, DroppedFacts DEF WithoutSession
    <2>3. ASSUME NEW i \in DOMAIN artifacts'.byId, NEW t, t = artifacts.byId[i].session
          PROVE  /\ t \in DOMAIN batches'
                 /\ lives'[t] + Cardinality(Ahead(t)')
                       <= artifacts.byId[i].life + Cardinality(Others(t)')
        <3> DEFINE life == artifacts.byId[i].life
        <3>1. /\ t \in DOMAIN batches /\ t # f /\ t \in Sessions /\ life \in Nat
              /\ lives[t] + Cardinality(Ahead(t)) <= life + Cardinality(Others(t))
            BY <2>2, <2>3 DEF OutlivedInv, OfSession, ArtifactsInv
        <3> HIDE DEF life
        <3>2. /\ IsFiniteSet(Ahead(t)) /\ Cardinality(Ahead(t)) \in Nat /\ Cardinality(Others(t)) \in Nat
              /\ lives[t] \in Nat
            BY <1>0, <3>1, AheadFacts
        <3>3. t \in DOMAIN batches' /\ Ahead(t)' = Ahead(t) \ {f}
            BY <1>1, <2>1, <3>1 DEF Ahead, SameKey
        <3>4. CASE SameKey(s, t)
            <4>1. f \in Ahead(t) /\ lives'[t] = lives[t] + 1
                BY <1>1, <2>1, <3>1, <3>4 DEF BatchesInv, Ahead, SameKey
            <4>2. Cardinality(Ahead(t) \ {f}) = Cardinality(Ahead(t)) - 1
                BY <3>2, <4>1, FS_RemoveElement
            <4>3. lives'[t] + Cardinality(Ahead(t)') <= life + Cardinality(Others(t)')
                BY <1>2, <3>1, <3>2, <3>3, <4>1, <4>2
            <4> QED BY <3>3, <4>3 DEF life
        <3>5. CASE ~SameKey(s, t)
            <4>1. f \notin Ahead(t) /\ lives'[t] = lives[t]
                BY <1>1, <2>1, <3>1, <3>5 DEF Ahead, SameKey
            <4>2. Ahead(t)' = Ahead(t)
                BY <3>3, <4>1
            <4> QED BY <1>2, <3>1, <3>3, <4>1, <4>2 DEF life
        <3> QED BY <3>4, <3>5
    <2> QED BY <2>2, <2>3 DEF OutlivedInv
<1> QED BY <1>3, <1>4 DEF Cleanup

\* Every step keeps the count.
LEMMA StepKeepsOutlived ==
    ASSUME ChipsInv, BatchesInv, ArtifactsInv, OutlivedInv, [Next]_vars
    PROVE  OutlivedInv'
<1>0. Ids \subseteq Nat
    BY BridgeAssumption DEF Ids
<1>1. ASSUME UNCHANGED <<scenario, batches, artifacts, lives>>
      PROVE  OutlivedInv'
    BY <1>1, CountStays
<1>2. ASSUME NEW x \in waiting, CreateEnds(x) \/ UpdateEnds(x)
      PROVE  OutlivedInv'
    <2>1. x.session \in Sessions /\ batches' = Opened(x.session)
          /\ UNCHANGED <<scenario, artifacts, lives>>
        BY <1>2 DEF CreateEnds, UpdateEnds, Attaches, ChipsInv, WaitingInv
    <2>2. DOMAIN batches \subseteq DOMAIN batches' /\ \A t \in DOMAIN batches : batches'[t] = batches[t]
        BY <2>1 DEF Opened, MapSet
    <2> QED BY <2>1, <2>2, CountStays
<1>3. ASSUME NEW s \in Sessions, Fetch(s)
      PROVE  OutlivedInv'
    <2>1. DOMAIN batches \subseteq DOMAIN batches' /\ \A t \in DOMAIN batches : batches'[t] = batches[t]
        BY <1>3 DEF Fetch, Opened, MapSet
    <2> QED BY <1>3, <2>1, CountStays DEF Fetch
<1>4. ASSUME NEW id \in Ids, NEW hash \in Hashes, Upload(id, hash)
      PROVE  OutlivedInv'
    <2> DEFINE store == Purged(artifacts, now)
               artifact == [session |-> active, selection |-> id, hash |-> hash,
                            expires |-> now + TTL, life |-> lives[active]]
    <2>1. /\ UNCHANGED <<scenario, batches, lives>> /\ id \in ChipIds(active)
          /\ active \in Sessions
          /\ artifacts' = Put(store, Number, artifact) \/ artifacts' = store
        BY <1>0, <1>4, UploadFacts DEF Upload
    <2>2. \A i \in DOMAIN store.byId :
              i \in DOMAIN artifacts.byId /\ store.byId[i] = artifacts.byId[i]
        BY PurgedFacts
    <2>3. artifact.session = active /\ artifact.life = lives[active]
        OBVIOUS
    <2>4. active \in DOMAIN batches
        BY <2>1 DEF BatchesInv, ChipIds
    <2>5. lives[active] \in Nat
        BY <2>1 DEF ArtifactsInv
    <2> HIDE DEF store, artifact
    <2>6. CASE artifacts' = store
        BY <2>1, <2>2, <2>6, CountStays
    <2>7. CASE artifacts' = Put(store, Number, artifact)
        <3>1. artifacts'.byId = MapSet(store.byId, Number, artifact)
            BY <2>7 DEF Put
        <3>2. \A i \in DOMAIN artifacts'.byId :
                  \/ i \in DOMAIN artifacts.byId /\ artifacts'.byId[i] = artifacts.byId[i]
                  \/ artifacts'.byId[i] = artifact
            BY <2>2, <3>1 DEF MapSet
        <3>3. \A t : Ahead(t)' = Ahead(t) /\ Others(t)' = Others(t)
            BY <2>1 DEF Ahead, Others, SameKey
        <3>4. lives[active] + Cardinality(Ahead(active)) <= lives[active] + Cardinality(Others(active))
            BY <2>4, <2>5, AheadFacts
        <3> QED BY <2>1, <2>3, <2>4, <3>2, <3>3, <3>4 DEF OutlivedInv
    <2> QED BY <2>1, <2>6, <2>7
<1>5. ASSUME NEW id \in Ids, GetScreenshot(id)
      PROVE  OutlivedInv'
    <2>1. PICK ids : artifacts' = Looked(artifacts, ids, now)
        BY <1>5 DEF GetScreenshot
    <2>2. /\ UNCHANGED <<scenario, batches, lives>>
          /\ artifacts = [byId |-> artifacts.byId, byHash |-> artifacts.byHash]
        BY <1>5 DEF GetScreenshot, chipVars, ArtifactsInv
    <2>3. artifacts'.byId = [i \in {i \in DOMAIN artifacts.byId :
                                      i \notin ids \/ ~Expired(artifacts.byId[i], now)} |-> artifacts.byId[i]]
        BY <2>1, <2>2 DEF Looked
    <2>4. \A i \in DOMAIN artifacts'.byId :
              i \in DOMAIN artifacts.byId /\ artifacts'.byId[i] = artifacts.byId[i]
        BY <2>3
    <2> QED BY <2>2, <2>4, CountStays
<1>6. ASSUME NEW s \in Sessions, Cleanup(s)
      PROVE  OutlivedInv'
    BY <1>6, CleanupCounts
<1>7. CASE UNCHANGED vars
    BY <1>1, <1>7 DEF vars, chipVars
<1>8. CASE Reporting \/ Tick
    BY <1>1, <1>8 DEF Reporting, Tick, chipVars
<1>9. ASSUME NEW e \in Elements, CreateArrives(e)
      PROVE  OutlivedInv'
    BY <1>1, <1>9 DEF CreateArrives
<1>10. ASSUME NEW id \in Ids, RemoveArrives(id)
       PROVE  OutlivedInv'
    BY <1>1, <1>10 DEF RemoveArrives
<1>11. ASSUME NEW id \in Ids, NEW property \in Properties, UpdateArrives(id, property)
       PROVE  OutlivedInv'
    BY <1>1, <1>11 DEF UpdateArrives
<1> QED
    BY <1>2, <1>3, <1>4, <1>5, <1>6, <1>7, <1>8, <1>9, <1>10, <1>11 DEF Next

\* No screenshot outlives its session, to be read by the next one under the same key;
\* where agents share the key, it outlives at most as many cleanups as there are others.
THEOREM ScreenshotsGoWithSession == Spec => []ScreenshotsEndWithSession
<1>1. Init => BatchesInv /\ OutlivedInv
    BY EmptyFacts DEF Init, BatchesInv, OutlivedInv, NoArtifacts
<1>2. ChipsInv /\ BatchesInv /\ ArtifactsInv /\ OutlivedInv /\ [Next]_vars
          => BatchesInv' /\ OutlivedInv'
    BY StepKeepsBatches, StepKeepsOutlived
<1>3. BatchesInv /\ ArtifactsInv /\ OutlivedInv => ScreenshotsEndWithSession
    <2> SUFFICES ASSUME BatchesInv, ArtifactsInv, OutlivedInv, NEW id \in DOMAIN artifacts.byId
                 PROVE  LET a == artifacts.byId[id]
                        IN lives[a.session] - a.life
                             < Cardinality({t \in Sessions : SameKey(a.session, t)})
        BY DEF ScreenshotsEndWithSession
    <2> DEFINE a == artifacts.byId[id]
               s == a.session
               all == {t \in Sessions : SameKey(s, t)}
    <2>1. /\ s \in DOMAIN batches /\ s \in Sessions /\ a.life \in Nat /\ lives[s] \in Nat
          /\ lives[s] + Cardinality(Ahead(s)) <= a.life + Cardinality(Others(s))
        BY DEF OutlivedInv, ArtifactsInv
    <2> HIDE DEF a, s
    <2>2. /\ IsFiniteSet(Others(s)) /\ Cardinality(Others(s)) \in Nat
          /\ Cardinality(Ahead(s)) \in Nat
        BY <2>1, AheadFacts
    <2>3. all = Others(s) \cup {s} /\ s \notin Others(s)
        BY <2>1 DEF Others, SameKey
    <2>4. Cardinality(all) = Cardinality(Others(s)) + 1
        BY <2>2, <2>3, FS_AddElement
    <2>5. lives[s] - a.life < Cardinality(all)
        BY <2>1, <2>2, <2>4
    <2> QED BY <2>5 DEF a, s
<1> QED BY <1>1, <1>2, <1>3, ChipsAlwaysKept, ArtifactsAlwaysKept, PTL DEF Spec

\* An upload that is acknowledged can be read, for itself or as the duplicate of a
\* screenshot that has not expired; one that is refused found the limit reached by
\* screenshots that have not.
THEOREM UploadsFindTheLiving == Spec => UploadsCountTheLiving
<1> DEFINE Counts ==
        \A id \in Ids, hash \in Hashes :
            Upload(id, hash) =>
                LET living == {i \in OfSession(artifacts, active) : ~Expired(artifacts.byId[i], now)}
                    all == {i \in DOMAIN artifacts.byId : ~Expired(artifacts.byId[i], now)}
                IN IF requests'[Number].answer = "ok"
                   THEN \E i \in OfSession(artifacts', active) :
                          /\ artifacts'.byId[i].selection = id /\ artifacts'.byId[i].hash = hash
                          /\ artifacts'.byId[i].expires > now
                   ELSE Cardinality(living) >= MaxPerSession \/ Cardinality(all) >= MaxGlobal
<1>1. ASSUME ChipsInv, ArtifactsInv
      PROVE  Counts
    <2> SUFFICES ASSUME NEW id \in Ids, NEW hash \in Hashes, Upload(id, hash)
                 PROVE  LET living == {i \in OfSession(artifacts, active) :
                                          ~Expired(artifacts.byId[i], now)}
                            all == {i \in DOMAIN artifacts.byId : ~Expired(artifacts.byId[i], now)}
                        IN IF requests'[Number].answer = "ok"
                           THEN \E i \in OfSession(artifacts', active) :
                                  /\ artifacts'.byId[i].selection = id
                                  /\ artifacts'.byId[i].hash = hash
                                  /\ artifacts'.byId[i].expires > now
                           ELSE Cardinality(living) >= MaxPerSession \/ Cardinality(all) >= MaxGlobal
        OBVIOUS
    <2> DEFINE store == Purged(artifacts, now)
               artifact == [session |-> active, selection |-> id, hash |-> hash,
                            expires |-> now + TTL, life |-> lives[active]]
               living == {i \in OfSession(artifacts, active) : ~Expired(artifacts.byId[i], now)}
               all == {i \in DOMAIN artifacts.byId : ~Expired(artifacts.byId[i], now)}
    <2>1. id \in Nat
        BY BridgeAssumption DEF Ids
    <2>2. \/ artifacts' = Put(store, Number, artifact) /\ requests'[Number].answer = "ok"
          \/ /\ artifacts' = store /\ Duplicate(store, HashKey(artifact))
             /\ requests'[Number].answer = "ok"
          \/ AtLimit(store, active) /\ requests'[Number].answer = "refused"
        BY <1>1, <2>1, UploadFacts
    <2>3. /\ DOMAIN store.byId = all
          /\ \A i \in DOMAIN store.byId :
                store.byId[i] = artifacts.byId[i] /\ store.byId[i].expires > now
          /\ \A key \in DOMAIN store.byHash :
                key \in DOMAIN artifacts.byHash /\ store.byHash[key] = artifacts.byHash[key]
        BY <1>1, PurgedFacts
    <2>4. artifact.session = active /\ artifact.selection = id /\ artifact.hash = hash
          /\ artifact.expires = now + TTL
        OBVIOUS
    <2>5. now + TTL > now
        BY <1>1, ArtifactAssumption DEF ArtifactsInv
    <2> HIDE DEF artifact
    <2>6. CASE artifacts' = Put(store, Number, artifact) /\ requests'[Number].answer = "ok"
        <3>1. Number \in DOMAIN artifacts'.byId /\ artifacts'.byId[Number] = artifact
            BY <2>6 DEF Put, MapSet
        <3>2. Number \in OfSession(artifacts', active)
            BY <2>4, <3>1 DEF OfSession
        <3> QED BY <2>4, <2>5, <2>6, <3>1, <3>2
    <2>7. CASE /\ artifacts' = store /\ Duplicate(store, HashKey(artifact))
               /\ requests'[Number].answer = "ok"
        <3> DEFINE key == HashKey(artifact)
                   i == store.byHash[key]
        <3> HIDE DEF store
        <3>1. key \in DOMAIN store.byHash /\ i \in DOMAIN store.byId
            BY <2>7 DEF Duplicate
        <3>2. key \in DOMAIN artifacts.byHash /\ i = artifacts.byHash[key]
              /\ i \in DOMAIN artifacts.byId /\ store.byId[i] = artifacts.byId[i]
            BY <2>3, <3>1
        <3>3. HashKey(artifacts.byId[i]) = key
            BY <1>1, <3>2 DEF ArtifactsInv
        <3>4. /\ store.byId[i].session = active /\ store.byId[i].selection = id
              /\ store.byId[i].hash = hash
            BY <2>4, <3>2, <3>3 DEF HashKey
        <3>5. store.byId[i].expires > now
            BY <2>3, <3>1
        <3>6. i \in OfSession(store, active)
            BY <3>1, <3>4 DEF OfSession
        <3> HIDE DEF i
        <3> QED BY <2>7, <3>4, <3>5, <3>6
    <2>8. CASE AtLimit(store, active) /\ requests'[Number].answer = "refused"
        <3> HIDE DEF store
        <3>1. OfSession(store, active) = living
            BY <2>3 DEF OfSession
        <3>2. Cardinality(living) >= MaxPerSession \/ Cardinality(all) >= MaxGlobal
            BY <2>3, <2>8, <3>1 DEF AtLimit
        <3> QED BY <2>8, <3>2
    <2> QED BY <2>2, <2>6, <2>7, <2>8
<1>2. ChipsInv /\ ArtifactsInv => [Counts]_vars
    BY <1>1
<1> QED
    BY <1>2, ChipsAlwaysKept, ArtifactsAlwaysKept, PTL DEF UploadsCountTheLiving

-------------------------------------------------------------------------------
(* Acknowledged changes                                                    *)

\* The changes of a chip have that of an update, or a later one of its property.
HasChange(changes, n) ==
    requests[n].property \in DOMAIN changes /\ changes[requests[n].property] >= n

\* Unless updates of a chip overlap: what was acknowledged is on its chip, and in the
\* copy that an update of the chip is waiting to write back.
AckInv ==
    Without({"overlap"}) =>
        /\ \A n \in Acknowledged :
              /\ requests[n].of \in DOMAIN requests /\ requests[requests[n].of].answer = "ok"
              /\ \A s \in Sessions : \A e \in DOMAIN drafts[s] :
                    drafts[s][e].id = requests[n].of => HasChange(drafts[s][e].changes, n)
              /\ \A x \in waiting :
                    requests[x.request].kind = "update" /\ requests[x.request].of = requests[n].of
                        => HasChange(x.changes, n)
        /\ \A x, y \in waiting :
              /\ requests[x.request].kind = "update" /\ requests[y.request].kind = "update"
              /\ requests[x.request].of = requests[y.request].of
              => x = y

\* A step that acknowledges no update, changes no chip that was updated and makes no
\* update wait, keeps what was acknowledged.
LEMMA AckKept ==
    ASSUME ChipsInv, AckInv, scenario' = scenario,
           DOMAIN requests \subseteq DOMAIN requests',
           \A n \in DOMAIN requests :
              /\ requests'[n].kind = requests[n].kind /\ requests'[n].of = requests[n].of
              /\ requests'[n].property = requests[n].property
              /\ requests[n].answer = "ok" => requests'[n].answer = "ok",
           Acknowledged' \subseteq Acknowledged,
           \A s \in Sessions : \A e \in DOMAIN drafts'[s] :
              \/ /\ e \in DOMAIN drafts[s] /\ drafts'[s][e].id = drafts[s][e].id
                 /\ drafts'[s][e].changes = drafts[s][e].changes
              \/ \A n \in Acknowledged : drafts'[s][e].id # requests[n].of
              \/ ~Without({"overlap"}),
           \A x \in waiting' : x \in waiting \/ requests'[x.request].kind # "update"
    PROVE  AckInv'
<1> SUFFICES ASSUME Without({"overlap"})
             PROVE  AckInv'
    BY DEF AckInv, Without
<1>1. \A x \in waiting : x.request \in DOMAIN requests
    BY DEF ChipsInv, WaitingInv
<1>2. \A n \in Acknowledged : n \in DOMAIN requests
    BY DEF Acknowledged
<1>3. ASSUME NEW n \in Acknowledged'
      PROVE  /\ requests'[n].of \in DOMAIN requests' /\ requests'[requests'[n].of].answer = "ok"
             /\ \A s \in Sessions : \A e \in DOMAIN drafts'[s] :
                   drafts'[s][e].id = requests'[n].of =>
                       /\ requests'[n].property \in DOMAIN drafts'[s][e].changes
                       /\ drafts'[s][e].changes[requests'[n].property] >= n
             /\ \A x \in waiting' :
                   requests'[x.request].kind = "update" /\ requests'[x.request].of = requests'[n].of
                       => /\ requests'[n].property \in DOMAIN x.changes
                          /\ x.changes[requests'[n].property] >= n
    <2>1. n \in Acknowledged /\ n \in DOMAIN requests
        BY <1>2
    <2>2. /\ requests[n].of \in DOMAIN requests /\ requests[requests[n].of].answer = "ok"
          /\ \A s \in Sessions : \A e \in DOMAIN drafts[s] :
                drafts[s][e].id = requests[n].of =>
                    /\ requests[n].property \in DOMAIN drafts[s][e].changes
                    /\ drafts[s][e].changes[requests[n].property] >= n
          /\ \A x \in waiting :
                requests[x.request].kind = "update" /\ requests[x.request].of = requests[n].of
                    => /\ requests[n].property \in DOMAIN x.changes
                       /\ x.changes[requests[n].property] >= n
        BY <2>1 DEF AckInv, HasChange
    <2>3. requests'[n].of = requests[n].of /\ requests'[n].property = requests[n].property
        BY <2>1
    <2>4. \A s \in Sessions : \A e \in DOMAIN drafts'[s] :
              drafts'[s][e].id = requests[n].of =>
                  /\ requests[n].property \in DOMAIN drafts'[s][e].changes
                  /\ drafts'[s][e].changes[requests[n].property] >= n
        BY <2>1, <2>2
    <2>5. \A x \in waiting' :
              requests'[x.request].kind = "update" =>
                  /\ x \in waiting /\ requests[x.request].kind = "update"
                  /\ requests'[x.request].of = requests[x.request].of
        BY <1>1
    <2> QED BY <2>2, <2>3, <2>4, <2>5
<1>4. ASSUME NEW x \in waiting', NEW y \in waiting',
             requests'[x.request].kind = "update" /\ requests'[y.request].kind = "update",
             requests'[x.request].of = requests'[y.request].of
      PROVE  x = y
    <2>1. /\ x \in waiting /\ requests[x.request].kind = "update"
          /\ requests'[x.request].of = requests[x.request].of
          /\ y \in waiting /\ requests[y.request].kind = "update"
          /\ requests'[y.request].of = requests[y.request].of
        BY <1>1, <1>4
    <2>2. \A v, w \in waiting :
              /\ requests[v.request].kind = "update" /\ requests[w.request].kind = "update"
              /\ requests[v.request].of = requests[w.request].of
              => v = w
        BY DEF AckInv
    <2> QED BY ZenonT(40), <1>4, <2>1, <2>2
<1> QED BY <1>3, <1>4 DEF AckInv, HasChange

\* The changes with a newer one have all that they had, or a later one.
LEMMA NewerChange ==
    ASSUME NEW changes, NEW n, HasChange(changes, n), NEW property, Number \in Nat, n \in Nat,
           n < Number
    PROVE  HasChange(ChangesWith(changes, property, Number), n)
<1> DEFINE p == requests[n].property
           after == MapSet(changes, property, Number)
<1>1. p \in DOMAIN changes /\ changes[p] >= n
    BY DEF HasChange
<1>2. p \in DOMAIN after /\ after[p] = IF p = property THEN Number ELSE changes[p]
    BY <1>1 DEF MapSet
<1>3. Number >= n
    OBVIOUS
<1> HIDE DEF p, after
<1>4. after[p] >= n
    BY <1>1, <1>2, <1>3
<1> QED BY <1>2, <1>4 DEF p, after, HasChange, ChangesWith

\* An update that waits has in its copy what its chip had.
LEMMA WaitingUpdateKeepsAck ==
    ASSUME ChipsInv, ChipsInv', AckInv, None \notin Sessions, NEW id \in Nat,
           NEW property \in Properties, UpdateArrives(id, property),
           id \in ChipIds(active), active # None, ElementOf(active, id) \in Sourced
    PROVE  AckInv'
<1> DEFINE e == ElementOf(active, id)
           changes == ChangesWith(drafts[active][e].changes, property, Number)
           new == [request |-> Number, session |-> active, changes |-> changes]
<1>1. /\ Arrives("update", id, property, "none") /\ UNCHANGED <<drafts, scenario>>
      /\ waiting' = waiting \cup {new}
      /\ Waits(id) => "overlap" \in scenario
    BY DEF UpdateArrives
<1>2. active \in Sessions /\ active \in Sessions \cup {None}
    BY DEF ChipsInv, SessionTypeOK
<1>3. /\ Number \in Nat /\ Number \notin DOMAIN requests
      /\ DOMAIN requests \subseteq Nat /\ \A n \in DOMAIN requests : n < Number
      /\ DOMAIN requests' = DOMAIN requests \cup {Number}
      /\ requests'[Number] = [kind |-> "update", of |-> id, property |-> property,
                              target |-> active, answer |-> "none"]
      /\ \A n \in DOMAIN requests : requests'[n] = requests[n]
    BY <1>1, <1>2, ArrivalFacts DEF ChipsInv
<1>4. e \in DOMAIN drafts[active] /\ drafts[active][e].id = id
    BY <1>2, ChipOfId
<1>5. new.request = Number /\ new.changes = changes
    OBVIOUS
<1> SUFFICES ASSUME Without({"overlap"})
             PROVE  AckInv'
    BY <1>1 DEF AckInv, Without
<1>6. \A x \in waiting : /\ x.request \in DOMAIN requests
                         /\ requests[x.request].kind = "update" => requests[x.request].of # id
    BY <1>1 DEF Without, Waits, ChipsInv, WaitingInv
<1>7. ASSUME NEW n \in Acknowledged, requests[n].of = id
      PROVE  HasChange(changes, n)
    <2>1. HasChange(drafts[active][e].changes, n) /\ n \in Nat /\ n < Number
        BY <1>2, <1>3, <1>4, <1>7 DEF AckInv, Acknowledged
    <2> QED BY <1>3, <2>1, NewerChange
<1> HIDE DEF new, changes
<1>8. Acknowledged' = Acknowledged
    BY <1>3 DEF Acknowledged
<1>9. ASSUME NEW n \in Acknowledged
      PROVE  /\ requests[n].of \in DOMAIN requests /\ requests[requests[n].of].answer = "ok"
             /\ \A s \in Sessions : \A f \in DOMAIN drafts[s] :
                   drafts[s][f].id = requests[n].of => HasChange(drafts[s][f].changes, n)
             /\ \A x \in waiting :
                   requests[x.request].kind = "update" /\ requests[x.request].of = requests[n].of
                       => HasChange(x.changes, n)
    BY DEF AckInv
<1>10. \A x, y \in waiting :
           /\ requests[x.request].kind = "update" /\ requests[y.request].kind = "update"
           /\ requests[x.request].of = requests[y.request].of
           => x = y
    BY DEF AckInv
<1>11. \A n \in Acknowledged : n \in DOMAIN requests
    BY DEF Acknowledged
<1>12. ASSUME NEW n \in Acknowledged
       PROVE  /\ requests'[n].of \in DOMAIN requests' /\ requests'[requests'[n].of].answer = "ok"
              /\ \A s \in Sessions : \A f \in DOMAIN drafts'[s] :
                    drafts'[s][f].id = requests'[n].of => HasChange(drafts'[s][f].changes, n)
              /\ \A x \in waiting' :
                    requests'[x.request].kind = "update" /\ requests'[x.request].of = requests'[n].of
                        => HasChange(x.changes, n)
    <2>1. requests'[n] = requests[n] /\ n \in DOMAIN requests
        BY <1>3, <1>11
    <2>2. \A x \in waiting' :
              requests'[x.request].kind = "update" /\ requests'[x.request].of = requests[n].of
                  => HasChange(x.changes, n)
        BY <1>1, <1>3, <1>5, <1>6, <1>7, <1>9
    <2> QED BY <1>1, <1>3, <1>9, <2>1, <2>2
<1>13. \A x, y \in waiting' :
           /\ requests'[x.request].kind = "update" /\ requests'[y.request].kind = "update"
           /\ requests'[x.request].of = requests'[y.request].of
           => x = y
    BY <1>1, <1>3, <1>5, <1>6, <1>10
<1>14. \A n \in Acknowledged : requests'[n].property = requests[n].property
    BY <1>3, <1>11
<1> QED BY <1>8, <1>12, <1>13, <1>14 DEF AckInv, HasChange

\* An update that needs no source is on its chip at once, with what was there.
LEMMA UpdateAtOnceKeepsAck ==
    ASSUME ChipsInv, ChipsInv', AckInv, None \notin Sessions, NEW id \in Nat,
           NEW property \in Properties, UpdateArrives(id, property),
           id \in ChipIds(active), active # None, ElementOf(active, id) \notin Sourced
    PROVE  AckInv'
<1> DEFINE e == ElementOf(active, id)
           changes == ChangesWith(drafts[active][e].changes, property, Number)
<1>1. /\ Arrives("update", id, property, "ok") /\ UNCHANGED <<waiting, scenario>>
      /\ drafts' = [drafts EXCEPT ![active][e].changes = changes]
      /\ Waits(id) => "overlap" \in scenario
    BY DEF UpdateArrives
<1>2. active \in Sessions /\ active \in Sessions \cup {None}
    BY DEF ChipsInv, SessionTypeOK
<1>3. /\ Number \in Nat /\ Number \notin DOMAIN requests
      /\ DOMAIN requests \subseteq Nat /\ \A n \in DOMAIN requests : n < Number
      /\ DOMAIN requests' = DOMAIN requests \cup {Number}
      /\ requests'[Number] = [kind |-> "update", of |-> id, property |-> property,
                              target |-> active, answer |-> "ok"]
      /\ \A n \in DOMAIN requests : requests'[n] = requests[n]
    BY <1>1, <1>2, ArrivalFacts DEF ChipsInv
<1>4. /\ e \in DOMAIN drafts[active] /\ drafts[active][e].id = id
      /\ id \in DOMAIN requests /\ requests[id].answer = "ok"
      /\ \A t \in Sessions : \A f \in DOMAIN drafts[t] :
            drafts[t][f].id = id => t = active /\ f = e
    BY <1>2, ChipOfId
<1>5. changes \in Changes /\ property \in DOMAIN changes /\ changes[property] = Number
    <2>1. drafts[active][e] \in Chip
        BY <1>2, <1>4, ChipFacts DEF ChipsInv
    <2>2. drafts[active][e].changes \in Changes
        BY <2>1 DEF Chip
    <2>3. changes \in Changes
        BY <1>3, <2>2, SetFacts DEF Changes, ChangesWith
    <2> QED BY <2>3 DEF ChangesWith, MapSet
<1> SUFFICES ASSUME Without({"overlap"})
             PROVE  AckInv'
    BY <1>1 DEF AckInv, Without
<1>6. \A x \in waiting : /\ x.request \in DOMAIN requests
                         /\ requests[x.request].kind = "update" => requests[x.request].of # id
    BY <1>1 DEF Without, Waits, ChipsInv, WaitingInv
<1>7. ASSUME NEW n \in Acknowledged, requests[n].of = id
      PROVE  HasChange(changes, n)
    <2>1. HasChange(drafts[active][e].changes, n) /\ n \in Nat /\ n < Number
        BY <1>2, <1>3, <1>4, <1>7 DEF AckInv, Acknowledged
    <2> QED BY <1>3, <2>1, NewerChange
<1> HIDE DEF changes, e
<1>8. /\ \A t \in Sessions : DOMAIN drafts'[t] = DOMAIN drafts[t]
      /\ \A t \in Sessions : \A f \in DOMAIN drafts[t] :
            ~(t = active /\ f = e) => drafts'[t][f] = drafts[t][f]
      /\ drafts'[active][e].id = id /\ drafts'[active][e].changes = changes
    BY ZenonT(40), <1>1, <1>2, <1>4, <1>5, ChangeFacts DEF ChipsInv
<1>9. /\ Acknowledged' = Acknowledged \cup {Number}
      /\ \A n \in Acknowledged : n \in DOMAIN requests
    BY <1>3 DEF Acknowledged
<1>10. ASSUME NEW n \in Acknowledged
       PROVE  /\ requests[n].of \in DOMAIN requests /\ requests[requests[n].of].answer = "ok"
              /\ \A s \in Sessions : \A f \in DOMAIN drafts[s] :
                    drafts[s][f].id = requests[n].of => HasChange(drafts[s][f].changes, n)
              /\ \A x \in waiting :
                    requests[x.request].kind = "update" /\ requests[x.request].of = requests[n].of
                        => HasChange(x.changes, n)
    BY DEF AckInv
<1>11. \A x, y \in waiting :
           /\ requests[x.request].kind = "update" /\ requests[y.request].kind = "update"
           /\ requests[x.request].of = requests[y.request].of
           => x = y
    BY DEF AckInv
<1>12. ASSUME NEW n \in Acknowledged
       PROVE  /\ requests'[n].of \in DOMAIN requests' /\ requests'[requests'[n].of].answer = "ok"
              /\ \A s \in Sessions : \A f \in DOMAIN drafts'[s] :
                    drafts'[s][f].id = requests'[n].of => HasChange(drafts'[s][f].changes, n)
              /\ \A x \in waiting' :
                    requests'[x.request].kind = "update" /\ requests'[x.request].of = requests'[n].of
                        => HasChange(x.changes, n)
    <2>1. requests'[n] = requests[n] /\ n \in DOMAIN requests
        BY <1>3, <1>9
    <2>2. ASSUME NEW s \in Sessions, NEW f \in DOMAIN drafts'[s], drafts'[s][f].id = requests[n].of
          PROVE  HasChange(drafts'[s][f].changes, n)
        <3>1. CASE s = active /\ f = e
            BY <1>7, <1>8, <2>2, <3>1
        <3>2. CASE ~(s = active /\ f = e)
            BY <1>8, <1>10, <2>2, <3>2
        <3> QED BY <3>1, <3>2
    <2>3. \A x \in waiting' :
              requests'[x.request].kind = "update" /\ requests'[x.request].of = requests[n].of
                  => HasChange(x.changes, n)
        BY <1>1, <1>3, <1>6, <1>10
    <2> QED BY <1>3, <1>10, <2>1, <2>2, <2>3
<1>13. /\ requests'[Number].of \in DOMAIN requests' /\ requests'[requests'[Number].of].answer = "ok"
       /\ \A s \in Sessions : \A f \in DOMAIN drafts'[s] :
             drafts'[s][f].id = requests'[Number].of =>
                 /\ requests'[Number].property \in DOMAIN drafts'[s][f].changes
                 /\ drafts'[s][f].changes[requests'[Number].property] >= Number
       /\ \A x \in waiting' :
             ~(requests'[x.request].kind = "update" /\ requests'[x.request].of = requests'[Number].of)
    <2>1. requests'[Number].of = id /\ requests'[Number].property = property
        BY <1>3
    <2>2. Number >= Number
        BY <1>3
    <2>3. ASSUME NEW s \in Sessions, NEW f \in DOMAIN drafts'[s], drafts'[s][f].id = id
          PROVE  property \in DOMAIN drafts'[s][f].changes /\ drafts'[s][f].changes[property] >= Number
        <3>1. s = active /\ f = e
            BY <1>4, <1>8, <2>3
        <3> QED BY <1>5, <1>8, <2>2, <3>1
    <2> QED BY <1>1, <1>3, <1>4, <1>6, <2>1, <2>3
<1>14. \A x, y \in waiting' :
           /\ requests'[x.request].kind = "update" /\ requests'[y.request].kind = "update"
           /\ requests'[x.request].of = requests'[y.request].of
           => x = y
    BY <1>1, <1>3, <1>6, <1>11
<1>15. \A n \in Acknowledged : requests'[n].property = requests[n].property
    BY <1>3, <1>9
<1>16. \A n \in Acknowledged' :
           /\ requests'[n].of \in DOMAIN requests' /\ requests'[requests'[n].of].answer = "ok"
           /\ \A s \in Sessions : \A f \in DOMAIN drafts'[s] :
                 drafts'[s][f].id = requests'[n].of =>
                     /\ requests'[n].property \in DOMAIN drafts'[s][f].changes
                     /\ drafts'[s][f].changes[requests'[n].property] >= n
           /\ \A x \in waiting' :
                 requests'[x.request].kind = "update" /\ requests'[x.request].of = requests'[n].of
                     => /\ requests'[n].property \in DOMAIN x.changes
                        /\ x.changes[requests'[n].property] >= n
    BY <1>9, <1>12, <1>13, <1>15 DEF HasChange
<1> QED BY <1>14, <1>16 DEF AckInv, HasChange

\* An update that ends writes back a copy that has what was acknowledged of its chip.
LEMMA UpdateEndsKeepsAck ==
    ASSUME ChipsInv, AckInv, NEW x \in waiting, UpdateEnds(x)
    PROVE  AckInv'
<1> DEFINE k == x.request
           id == requests[k].of
           e == ElementOf(x.session, id)
           found == id \in ChipIds(x.session)
<1>1. /\ requests' = [requests EXCEPT ![k].answer = IF found THEN "ok" ELSE "refused"]
      /\ waiting' = waiting \ {x} /\ scenario' = scenario /\ requests[k].kind = "update"
    BY DEF UpdateEnds
<1>2. /\ k \in DOMAIN requests /\ x.session \in Sessions /\ requests[k].answer = "none"
      /\ requests[k].property \in DOMAIN x.changes /\ x.changes[requests[k].property] = k
      /\ DOMAIN requests \subseteq Nat
    BY <1>1 DEF ChipsInv, WaitingInv, ChipTypeOK
<1>3. /\ DOMAIN requests' = DOMAIN requests
      /\ requests'[k].answer = IF found THEN "ok" ELSE "refused"
      /\ \A n \in DOMAIN requests :
            /\ n # k => requests'[n] = requests[n]
            /\ requests'[n].kind = requests[n].kind /\ requests'[n].of = requests[n].of
            /\ requests'[n].property = requests[n].property
    BY <1>1, <1>2, AnswerFacts DEF ChipsInv
<1>4. /\ \A t \in Sessions : DOMAIN drafts'[t] = DOMAIN drafts[t]
      /\ \A t \in Sessions : \A f \in DOMAIN drafts[t] :
            IF t = x.session /\ f = e /\ id \in ChipIds(t)
            THEN drafts'[t][f].id = drafts[t][f].id /\ drafts'[t][f].changes = x.changes
            ELSE drafts'[t][f] = drafts[t][f]
    BY UpdateEffect
<1>5. CASE ~found
    <2>1. \A t \in Sessions : \A f \in DOMAIN drafts'[t] :
              f \in DOMAIN drafts[t] /\ drafts'[t][f] = drafts[t][f]
        BY <1>4, <1>5
    <2>2. Acknowledged' \subseteq Acknowledged
        BY <1>2, <1>3, <1>5 DEF Acknowledged
    <2>3. \A n \in DOMAIN requests : requests[n].answer = "ok" => requests'[n].answer = "ok"
        BY <1>2, <1>3
    <2>4. waiting' \subseteq waiting /\ scenario' = scenario
        BY <1>1
    <2> HIDE DEF k, id, e, found
    <2> QED BY <1>3, <2>1, <2>2, <2>3, <2>4, AckKept
<1>6. CASE found
    <2> SUFFICES ASSUME Without({"overlap"})
                 PROVE  AckInv'
        BY <1>1 DEF AckInv, Without
    <2>1. /\ id \in DOMAIN requests /\ requests[id].answer = "ok"
          /\ \A t \in Sessions : \A f \in DOMAIN drafts[t] :
                drafts[t][f].id = id => t = x.session /\ f = e
        BY <1>2, <1>6, ChipOfId
    <2>2. ASSUME NEW n \in Acknowledged
          PROVE  /\ requests[n].of \in DOMAIN requests /\ requests[requests[n].of].answer = "ok"
                 /\ \A s \in Sessions : \A f \in DOMAIN drafts[s] :
                       drafts[s][f].id = requests[n].of => HasChange(drafts[s][f].changes, n)
                 /\ \A y \in waiting :
                       requests[y.request].kind = "update" /\ requests[y.request].of = requests[n].of
                           => HasChange(y.changes, n)
        BY DEF AckInv
    <2>3. \A y, z \in waiting :
              /\ requests[y.request].kind = "update" /\ requests[z.request].kind = "update"
              /\ requests[y.request].of = requests[z.request].of
              => y = z
        BY DEF AckInv
    <2>4. /\ Acknowledged' = Acknowledged \cup {k}
          /\ \A n \in Acknowledged : n \in DOMAIN requests /\ n # k
        BY <1>1, <1>2, <1>3, <1>6 DEF Acknowledged
    <2>5. /\ HasChange(x.changes, k)
          /\ \A n \in Acknowledged : requests[n].of = id => HasChange(x.changes, n)
        <3>1. k >= k
            BY <1>2
        <3>2. HasChange(x.changes, k)
            BY <1>2, <3>1 DEF HasChange
        <3> QED BY <1>1, <2>2, <3>2
    <2>6. \A y \in waiting' : /\ y \in waiting /\ y.request \in DOMAIN requests
                              /\ requests[y.request].kind = "update" => requests[y.request].of # id
        BY <1>1, <2>3 DEF ChipsInv, WaitingInv
    <2>7. \A n \in DOMAIN requests : requests[n].answer = "ok" => requests'[n].answer = "ok"
        BY <1>2, <1>3
    <2> HIDE DEF k, id, e, found
    <2>8. ASSUME NEW n \in Acknowledged'
          PROVE  /\ requests[n].of \in DOMAIN requests' /\ requests'[requests[n].of].answer = "ok"
                 /\ \A s \in Sessions : \A f \in DOMAIN drafts'[s] :
                       drafts'[s][f].id = requests[n].of => HasChange(drafts'[s][f].changes, n)
                 /\ \A y \in waiting' :
                       requests'[y.request].kind = "update" /\ requests'[y.request].of = requests[n].of
                           => HasChange(y.changes, n)
        <3>1. CASE n = k
            <4>1. requests[n].of = id
                BY <3>1 DEF id
            <4>2. ASSUME NEW s \in Sessions, NEW f \in DOMAIN drafts'[s], drafts'[s][f].id = id
                  PROVE  HasChange(drafts'[s][f].changes, n)
                <5>1. f \in DOMAIN drafts[s] /\ drafts[s][f].id = id
                    BY <1>4, <4>2
                <5>2. s = x.session /\ f = e
                    BY <2>1, <5>1
                <5>3. drafts'[s][f].changes = x.changes
                    BY <1>4, <1>6, <5>1, <5>2 DEF found
                <5> QED BY <2>5, <3>1, <5>3
            <4>3. \A y \in waiting' :
                      ~(requests'[y.request].kind = "update" /\ requests'[y.request].of = id)
                BY <1>3, <2>6
            <4> QED BY <1>3, <2>1, <2>7, <4>1, <4>2, <4>3
        <3>2. CASE n # k
            <4>1. n \in Acknowledged /\ n \in DOMAIN requests
                BY <2>4, <3>2
            <4>2. ASSUME NEW s \in Sessions, NEW f \in DOMAIN drafts'[s],
                         drafts'[s][f].id = requests[n].of
                  PROVE  HasChange(drafts'[s][f].changes, n)
                <5>1. f \in DOMAIN drafts[s] /\ drafts[s][f].id = requests[n].of
                    BY <1>4, <4>2
                <5>2. CASE s = x.session /\ f = e
                    <6>1. drafts'[s][f].changes = x.changes
                        BY <1>4, <1>6, <5>1, <5>2 DEF found
                    <6>2. drafts[s][f].id = id
                        BY <1>2, <1>6, <5>2, ChipOfId DEF found, e
                    <6> QED BY <2>5, <4>1, <5>1, <6>1, <6>2
                <5>3. CASE ~(s = x.session /\ f = e)
                    <6>1. drafts'[s][f] = drafts[s][f]
                        BY <1>4, <5>1, <5>3
                    <6> QED BY <2>2, <4>1, <5>1, <6>1
                <5> QED BY <5>2, <5>3
            <4>3. \A y \in waiting' :
                      requests'[y.request].kind = "update" /\ requests'[y.request].of = requests[n].of
                          => HasChange(y.changes, n)
                BY <1>3, <2>2, <2>6, <4>1
            <4> QED BY <1>3, <2>2, <2>7, <4>1, <4>2, <4>3
        <3> QED BY <3>1, <3>2
    <2>9. \A n \in Acknowledged' :
              requests'[n].of = requests[n].of /\ requests'[n].property = requests[n].property
        BY <1>2, <1>3, <2>4
    <2>10. \A y, z \in waiting' :
               /\ requests'[y.request].kind = "update" /\ requests'[z.request].kind = "update"
               /\ requests'[y.request].of = requests'[z.request].of
               => y = z
        BY <1>3, <2>3, <2>6
    <2> QED BY <2>8, <2>9, <2>10 DEF AckInv, HasChange
<1> QED BY <1>5, <1>6

\* Every step keeps what was acknowledged.
LEMMA StepKeepsAck ==
    ASSUME ChipsInv, AckInv, [Next]_vars
    PROVE  AckInv'
<1>0. /\ None \notin Sessions /\ Ids \subseteq Nat /\ ChipsInv'
      /\ active \in Sessions \cup {None}
    BY BridgeAssumption, StepKeepsChips DEF Ids, ChipsInv, SessionTypeOK
<1>1. ASSUME NEW kind \in {"create", "remove", "update", "upload"}, NEW of \in Elements \cup Nat,
             NEW property \in Properties \cup {NoProperty}, NEW answer \in {"none", "ok", "refused"},
             Arrives(kind, of, property, answer), kind = "update" => answer # "ok"
      PROVE  /\ DOMAIN requests \subseteq DOMAIN requests'
             /\ \A n \in DOMAIN requests : requests'[n] = requests[n]
             /\ Acknowledged' \subseteq Acknowledged
             /\ requests'[Number].kind = kind
    <2>0. ChipTypeOK /\ active \in Sessions \cup {None}
        BY <1>0 DEF ChipsInv
    <2>1. /\ DOMAIN requests' = DOMAIN requests \cup {Number}
          /\ requests'[Number] = [kind |-> kind, of |-> of, property |-> property,
                                  target |-> active, answer |-> answer]
          /\ \A n \in DOMAIN requests : requests'[n] = requests[n]
        BY <1>1, <2>0, ArrivalFacts
    <2>2. requests'[Number].kind = kind /\ requests'[Number].answer = answer
        BY <2>1
    <2> QED BY <1>1, <2>1, <2>2 DEF Acknowledged
<1>2. ASSUME UNCHANGED <<scenario, drafts, requests, waiting>>
      PROVE  AckInv'
    BY <1>2 DEF AckInv, Acknowledged, HasChange, Without
<1>3. ASSUME NEW c \in Elements, CreateArrives(c)
      PROVE  AckInv'
    <2>1. /\ UNCHANGED <<drafts, scenario>>
          /\ \/ Arrives("create", c, NoProperty, "refused") /\ waiting' = waiting
             \/ /\ Arrives("create", c, NoProperty, "none")
                /\ waiting' = waiting \cup {[request |-> Number, session |-> active]}
        BY <1>3 DEF CreateArrives
    <2>2. /\ DOMAIN requests \subseteq DOMAIN requests'
          /\ \A n \in DOMAIN requests : requests'[n] = requests[n]
          /\ Acknowledged' \subseteq Acknowledged
          /\ requests'[Number].kind = "create"
        BY <1>1, <2>1
    <2>3. \A x \in waiting' : x \in waiting \/ requests'[x.request].kind # "update"
        BY <2>1, <2>2
    <2> QED BY <2>1, <2>2, <2>3, AckKept
<1>4. ASSUME NEW id \in Ids, RemoveArrives(id)
      PROVE  AckInv'
    <2>1. /\ Arrives("remove", id, NoProperty, "ok") /\ UNCHANGED <<scenario, waiting>>
          /\ drafts' = [drafts EXCEPT ![active] = MapDelete(drafts[active], ElementOf(active, id))]
        BY <1>4 DEF RemoveArrives
    <2>2. /\ DOMAIN requests \subseteq DOMAIN requests'
          /\ \A n \in DOMAIN requests : requests'[n] = requests[n]
          /\ Acknowledged' \subseteq Acknowledged
        BY <1>0, <1>1, <2>1
    <2>3. \A s \in Sessions : \A f \in DOMAIN drafts'[s] :
              f \in DOMAIN drafts[s] /\ drafts'[s][f] = drafts[s][f]
        BY <2>1 DEF MapDelete, ChipsInv, ChipTypeOK
    <2> QED BY <2>1, <2>2, <2>3, AckKept
<1>5. ASSUME NEW id \in Ids, NEW property \in Properties, UpdateArrives(id, property)
      PROVE  AckInv'
    <2>1. CASE active = None \/ id \notin ChipIds(active)
        <3>1. Arrives("update", id, property, "refused") /\ UNCHANGED <<drafts, waiting, scenario>>
            BY <1>5, <2>1 DEF UpdateArrives
        <3>2. /\ DOMAIN requests \subseteq DOMAIN requests'
              /\ \A n \in DOMAIN requests : requests'[n] = requests[n]
              /\ Acknowledged' \subseteq Acknowledged
            BY <1>0, <1>1, <3>1
        <3> QED BY <3>1, <3>2, AckKept
    <2>2. CASE ~(active = None \/ id \notin ChipIds(active)) /\ ElementOf(active, id) \in Sourced
        BY <1>0, <1>5, <2>2, WaitingUpdateKeepsAck
    <2>3. CASE ~(active = None \/ id \notin ChipIds(active)) /\ ElementOf(active, id) \notin Sourced
        BY <1>0, <1>5, <2>3, UpdateAtOnceKeepsAck
    <2> QED BY <2>1, <2>2, <2>3
<1>6. ASSUME NEW x \in waiting, CreateEnds(x)
      PROVE  AckInv'
    <2> DEFINE k == x.request
    <2>1. /\ k \in DOMAIN requests /\ requests[k].answer = "none" /\ requests[k].kind = "create"
          /\ requests' = [requests EXCEPT ![k].answer = "ok"]
          /\ waiting' \subseteq waiting /\ scenario' = scenario
        BY <1>6 DEF CreateEnds, ChipsInv, WaitingInv
    <2>2. /\ DOMAIN requests' = DOMAIN requests
          /\ requests'[k].answer = "ok"
          /\ \A n \in DOMAIN requests :
                /\ n # k => requests'[n] = requests[n]
                /\ requests'[n].kind = requests[n].kind /\ requests'[n].of = requests[n].of
                /\ requests'[n].property = requests[n].property
        BY <2>1, AnswerFacts DEF ChipsInv
    <2>3. Acknowledged' \subseteq Acknowledged
        BY <2>1, <2>2 DEF Acknowledged
    <2>4. \A s \in Sessions : \A f \in DOMAIN drafts'[s] :
              \/ /\ f \in DOMAIN drafts[s] /\ drafts'[s][f].id = drafts[s][f].id
                 /\ drafts'[s][f].changes = drafts[s][f].changes
              \/ drafts'[s][f].id = k
        <3> DEFINE s0 == x.session
                   e == requests[x.request].of
        <3>1. /\ s0 \in Sessions /\ e \in Elements /\ e \in DOMAIN drafts'[s0]
              /\ \A t \in Sessions : \A f \in DOMAIN drafts'[t] :
                    ~(t = s0 /\ f = e) => f \in DOMAIN drafts[t] /\ drafts'[t][f] = drafts[t][f]
              /\ IF e \in DOMAIN drafts[s0]
                 THEN /\ drafts'[s0][e].id = drafts[s0][e].id
                      /\ drafts'[s0][e].changes = drafts[s0][e].changes
                 ELSE drafts'[s0][e].id = k
            BY <1>6, CreateEffect
        <3> HIDE DEF s0, e, k
        <3> SUFFICES ASSUME NEW s \in Sessions, NEW f \in DOMAIN drafts'[s]
                     PROVE  \/ /\ f \in DOMAIN drafts[s] /\ drafts'[s][f].id = drafts[s][f].id
                               /\ drafts'[s][f].changes = drafts[s][f].changes
                            \/ drafts'[s][f].id = k
            OBVIOUS
        <3>2. CASE s = s0 /\ f = e
            BY <3>1, <3>2
        <3>3. CASE ~(s = s0 /\ f = e)
            BY <3>1, <3>3
        <3> QED BY <3>2, <3>3
    <2>5. Without({"overlap"}) => \A n \in Acknowledged : requests[n].of # k
        BY <2>1 DEF AckInv
    <2> HIDE DEF k
    <2>6. \A n \in DOMAIN requests : requests[n].answer = "ok" => requests'[n].answer = "ok"
        BY <2>2
    <2>7. \A s \in Sessions : \A f \in DOMAIN drafts'[s] :
              \/ /\ f \in DOMAIN drafts[s] /\ drafts'[s][f].id = drafts[s][f].id
                 /\ drafts'[s][f].changes = drafts[s][f].changes
              \/ \A n \in Acknowledged : drafts'[s][f].id # requests[n].of
              \/ ~Without({"overlap"})
        BY <2>4, <2>5
    <2> QED BY <2>1, <2>2, <2>3, <2>6, <2>7, AckKept
<1>7. ASSUME NEW x \in waiting, UpdateEnds(x)
      PROVE  AckInv'
    BY <1>7, UpdateEndsKeepsAck
<1>8. ASSUME NEW id \in Ids, NEW hash \in Hashes, Upload(id, hash)
      PROVE  AckInv'
    <2>1. /\ Arrives("upload", id, NoProperty, "ok") \/ Arrives("upload", id, NoProperty, "refused")
          /\ UNCHANGED <<drafts, waiting, scenario>>
        BY <1>8 DEF Upload
    <2>2. /\ DOMAIN requests \subseteq DOMAIN requests'
          /\ \A n \in DOMAIN requests : requests'[n] = requests[n]
          /\ Acknowledged' \subseteq Acknowledged
        BY <1>0, <1>1, <2>1
    <2> QED BY <2>1, <2>2, AckKept
<1>9. ASSUME NEW s \in Sessions, Cleanup(s)
      PROVE  AckInv'
    <2>1. /\ UNCHANGED <<scenario, requests, waiting>>
          /\ drafts' = drafts \/ \E f : drafts' = [drafts EXCEPT ![f] = EmptyMap]
        BY <1>9 DEF Cleanup, Retired, DraftDeleted
    <2>2. \A t \in Sessions : \A f \in DOMAIN drafts'[t] :
              f \in DOMAIN drafts[t] /\ drafts'[t][f] = drafts[t][f]
        BY <2>1, EmptyFacts DEF ChipsInv, ChipTypeOK
    <2>3. Acknowledged' \subseteq Acknowledged
        BY <2>1 DEF Acknowledged
    <2> QED BY <2>1, <2>2, <2>3, AckKept
<1>10. CASE Reporting \/ Tick \/ UNCHANGED vars \/ (\E id \in Ids : GetScreenshot(id))
               \/ (\E s \in Sessions : Fetch(s))
    BY <1>2, <1>10 DEF Reporting, Tick, vars, GetScreenshot, Fetch, chipVars
<1> QED
    BY <1>3, <1>4, <1>5, <1>6, <1>7, <1>8, <1>9, <1>10 DEF Next

\* A change that was acknowledged is on its chip, or a later one of the same property,
\* as long as the chip is there, whatever captures of its element end meanwhile, unless
\* updates of the chip overlap.
THEOREM AcknowledgedIsKept == Spec => []AcknowledgedChangesKept
<1>1. Init => AckInv
    BY DEF Init, AckInv, Acknowledged
<1>2. ChipsInv /\ AckInv /\ [Next]_vars => AckInv'
    BY StepKeepsAck
<1>3. AckInv => AcknowledgedChangesKept
    BY DEF AckInv, AcknowledgedChangesKept, Kept, HasChange
<1> QED BY <1>1, <1>2, <1>3, ChipsAlwaysKept, PTL DEF Spec

-------------------------------------------------------------------------------
(* The target of captures                                                  *)

\* The report takes the target away from the session, or changes nothing if the target
\* is another one.
Follows(report, s) == report.to # None \/ report.by = s
Spares(report, s) == report.to = None /\ report.by # s

ShownIn(t, s) == \E v \in Views : tab[v] = t /\ views[v] = s

\* A session that is reported, or is the target, is shown in the tab that reported it, or
\* a later report of that tab follows.
TargetInv ==
    /\ \A t \in Views : \A i \in DOMAIN reports[t] :
          LET s == reports[t][i].to
          IN  s # None => \/ ShownIn(t, s)
                          \/ \E j \in DOMAIN reports[t] : j > i /\ Follows(reports[t][j], s)
    /\ active # None =>
          \E t \in Views : \/ ShownIn(t, active)
                           \/ \E j \in DOMAIN reports[t] : Follows(reports[t][j], active)

\* The target, and after it the reports of a tab, end with the session, up to some reports
\* that spare it.
Ends(target, queue, s) ==
    \/ target = s /\ \A j \in DOMAIN queue : Spares(queue[j], s)
    \/ \E i \in DOMAIN queue :
          /\ queue[i].to = s
          /\ \A j \in DOMAIN queue : j > i => Spares(queue[j], s)

\* Views of one tab, unless they crossed: they show different sessions, and what they
\* report ends with the session of the view mounted last.
OneTabInv ==
    /\ latest \in [Views -> Views]
    /\ OneTab /\ ~crossed =>
          /\ \A t \in Views : reports[t] # <<>> => \E v \in Views : tab[v] = t
          /\ \A v, w \in Views : Shown(v) /\ views[v] = views[w] => v = w
          /\ \A v \in Views : Shown(v) /\ latest[tab[v]] = v => Ends(active, reports[tab[v]], views[v])

ViewsInv == SessionTypeOK /\ TargetInv /\ OneTabInv

\* A report of a view is the last of its tab.
LEMMA ReportFacts ==
    ASSUME SessionTypeOK, NEW v \in Views, NEW to \in Sessions \cup {None},
           NEW by \in Sessions \cup {None}, Report(v, to, by)
    PROVE  /\ \A u \in Views : u # tab[v] => reports'[u] = reports[u]
           /\ reports'[tab[v]] # <<>>
           /\ \E last \in Nat :
                /\ DOMAIN reports'[tab[v]] = DOMAIN reports[tab[v]] \cup {last}
                /\ \A i \in DOMAIN reports[tab[v]] :
                      i \in Nat /\ i < last /\ reports'[tab[v]][i] = reports[tab[v]][i]
                /\ reports'[tab[v]][last].to = to
                /\ reports'[tab[v]][last].by = by
<1> DEFINE report == [to |-> to, by |-> by]
<1>1. report \in Report0 /\ report.to = to /\ report.by = by
    BY DEF Report0
<1>2. tab[v] \in Views /\ reports[tab[v]] \in Seq(Report0) /\ reports \in [Views -> Seq(Report0)]
    BY DEF SessionTypeOK
<1>3. reports' = [reports EXCEPT ![tab[v]] = Append(reports[tab[v]], report)]
    BY DEF Report
<1> HIDE DEF report
<1>4. reports'[tab[v]] = Append(reports[tab[v]], report)
    BY <1>2, <1>3
<1>5. \A u \in Views : u # tab[v] => reports'[u] = reports[u]
    BY <1>2, <1>3
<1>6. PICK last \in Nat : last = Len(reports[tab[v]]) + 1 /\ Len(reports[tab[v]]) \in Nat
    BY <1>2
<1>7. /\ reports'[tab[v]] # <<>>
      /\ DOMAIN reports[tab[v]] = 1 .. Len(reports[tab[v]])
      /\ DOMAIN reports'[tab[v]] = 1 .. last
      /\ \A i \in 1 .. Len(reports[tab[v]]) : reports'[tab[v]][i] = reports[tab[v]][i]
      /\ reports'[tab[v]][last] = report
    BY <1>1, <1>2, <1>4, <1>6, AppendProperties, LenProperties
<1>8. /\ DOMAIN reports'[tab[v]] = DOMAIN reports[tab[v]] \cup {last}
      /\ \A i \in DOMAIN reports[tab[v]] :
            i \in Nat /\ i < last /\ reports'[tab[v]][i] = reports[tab[v]][i]
    BY <1>6, <1>7
<1> QED BY <1>1, <1>5, <1>7, <1>8

\* The report that arrives is the first of its tab.
LEMMA ArrivesFacts ==
    ASSUME SessionTypeOK, NEW t \in Views, ReportArrives(t)
    PROVE  /\ \A u \in Views : u # t => reports'[u] = reports[u]
           /\ 1 \in DOMAIN reports[t]
           /\ active' = Reported(reports[t][1])
           /\ \A i \in DOMAIN reports'[t] : /\ i \in Nat /\ i + 1 \in DOMAIN reports[t] /\ i + 1 # 1
                                            /\ reports'[t][i] = reports[t][i + 1]
           /\ \A i \in DOMAIN reports[t] : /\ i \in Nat /\ 1 <= i
                                           /\ i # 1 => \E k \in DOMAIN reports'[t] : k + 1 = i
<1>1. reports[t] \in Seq(Report0) /\ reports[t] # <<>> /\ reports \in [Views -> Seq(Report0)]
    BY DEF ReportArrives, SessionTypeOK
<1>2. reports' = [reports EXCEPT ![t] = Tail(reports[t])] /\ active' = Reported(Head(reports[t]))
    BY DEF ReportArrives
<1>3. reports'[t] = Tail(reports[t]) /\ \A u \in Views : u # t => reports'[u] = reports[u]
    BY <1>1, <1>2
<1>4. /\ Len(reports[t]) \in Nat \ {0} /\ DOMAIN reports[t] = 1 .. Len(reports[t])
      /\ Head(reports[t]) = reports[t][1]
      /\ DOMAIN reports'[t] = 1 .. (Len(reports[t]) - 1)
      /\ \A i \in 1 .. (Len(reports[t]) - 1) : reports'[t][i] = reports[t][i + 1]
    <2>1. Tail(reports[t]) \in Seq(Report0) /\ Len(Tail(reports[t])) = Len(reports[t]) - 1
        BY <1>1, HeadTailProperties, LenProperties, EmptySeq
    <2>2. /\ Len(reports[t]) \in Nat \ {0} /\ Head(reports[t]) = reports[t][1]
          /\ \A i \in 1 .. (Len(reports[t]) - 1) : Tail(reports[t])[i] = reports[t][i + 1]
        BY <1>1, HeadTailProperties, LenProperties, EmptySeq
    <2>3. /\ DOMAIN reports[t] = 1 .. Len(reports[t])
          /\ DOMAIN Tail(reports[t]) = 1 .. (Len(reports[t]) - 1)
        BY <1>1, <2>1
    <2>4. reports'[t] = Tail(reports[t])
        BY <1>3
    <2>5. /\ DOMAIN reports'[t] = 1 .. (Len(reports[t]) - 1)
          /\ \A i \in 1 .. (Len(reports[t]) - 1) : reports'[t][i] = reports[t][i + 1]
        BY <2>2, <2>3, <2>4
    <2> QED BY <2>2, <2>3, <2>5
<1>5. \A i \in DOMAIN reports[t] : i # 1 => i - 1 \in DOMAIN reports'[t] /\ (i - 1) + 1 = i
    BY <1>4
<1>6. 1 \in DOMAIN reports[t] /\ active' = Reported(reports[t][1])
    BY <1>2, <1>4
<1>7. \A i \in DOMAIN reports'[t] : /\ i \in Nat /\ i + 1 \in DOMAIN reports[t] /\ i + 1 # 1
                                    /\ reports'[t][i] = reports[t][i + 1]
    BY <1>4
<1>8. \A i \in DOMAIN reports[t] : i \in Nat /\ 1 <= i
    BY <1>4
<1> QED BY <1>3, <1>5, <1>6, <1>7, <1>8

\* A view that reports what it shows now, and in leaving what it showed, keeps the target.
LEMMA ReportKeepsTarget ==
    ASSUME SessionTypeOK, TargetInv, NEW v \in Views, NEW to \in Sessions \cup {None},
           NEW by \in Sessions \cup {None}, Report(v, to, by),
           UNCHANGED <<active, tab>>, views' = [views EXCEPT ![v] = to],
           views[v] # None => to # None \/ by = views[v]
    PROVE  TargetInv'
<1>0. PICK t0 \in Views : t0 = tab[v]
    BY DEF SessionTypeOK
<1>1. PICK last \in Nat :
          /\ DOMAIN reports'[t0] = DOMAIN reports[t0] \cup {last}
          /\ \A i \in DOMAIN reports[t0] :
                i \in Nat /\ i < last /\ reports'[t0][i] = reports[t0][i]
          /\ reports'[t0][last].to = to
          /\ reports'[t0][last].by = by
    <2>1. \E last \in Nat :
              /\ DOMAIN reports'[tab[v]] = DOMAIN reports[tab[v]] \cup {last}
              /\ \A i \in DOMAIN reports[tab[v]] :
                    i \in Nat /\ i < last /\ reports'[tab[v]][i] = reports[tab[v]][i]
              /\ reports'[tab[v]][last].to = to
              /\ reports'[tab[v]][last].by = by
        BY ReportFacts
    <2> QED BY <1>0, <2>1
<1>2. /\ \A u \in Views : u # t0 => reports'[u] = reports[u]
      /\ views \in [Views -> Sessions \cup {None}]
    BY <1>0, ReportFacts DEF SessionTypeOK
<1>3. ASSUME NEW u \in Views, NEW s, s # None, ShownIn(u, s)
      PROVE  ShownIn(u, s)' \/ (u = t0 /\ Follows(reports'[t0][last], s))
    <2>1. PICK w \in Views : tab[w] = u /\ views[w] = s
        BY <1>3 DEF ShownIn
    <2>2. CASE w = v
        BY <1>0, <1>1, <1>3, <2>1, <2>2 DEF Follows
    <2>3. CASE w # v
        BY <1>2, <2>1, <2>3 DEF ShownIn
    <2> QED BY <2>2, <2>3
<1>4. to # None => ShownIn(t0, to)'
    <2>1. views'[v] = to /\ tab'[v] = t0
        BY <1>0, <1>2
    <2> QED BY <2>1 DEF ShownIn
<1>5. ASSUME NEW u \in Views, NEW i \in DOMAIN reports'[u], NEW s, s = reports'[u][i].to, s # None
      PROVE  \/ ShownIn(u, s)'
             \/ \E j \in DOMAIN reports'[u] : j > i /\ Follows(reports'[u][j], s)
    <2>1. CASE u = t0 /\ i = last
        BY <1>1, <1>4, <1>5, <2>1
    <2>2. CASE ~(u = t0 /\ i = last)
        <3>1. i \in DOMAIN reports[u] /\ reports[u][i].to = s
            BY <1>1, <1>2, <1>5, <2>2
        <3>2. CASE ShownIn(u, s)
            <4>1. CASE ShownIn(u, s)'
                BY <4>1
            <4>2. CASE u = t0 /\ Follows(reports'[t0][last], s)
                <5>1. last \in DOMAIN reports'[t0] /\ i < last /\ i \in Nat
                    BY <1>1, <3>1, <4>2
                <5> QED BY <4>2, <5>1
            <4> QED BY <1>3, <1>5, <3>2, <4>1, <4>2
        <3>3. CASE \E j \in DOMAIN reports[u] : j > i /\ Follows(reports[u][j], s)
            BY <1>1, <1>2, <3>3
        <3> QED BY <1>5, <3>1, <3>2, <3>3 DEF TargetInv
    <2> QED BY <2>1, <2>2
<1>6. ASSUME active # None
      PROVE  \E t \in Views : \/ ShownIn(t, active)'
                              \/ \E j \in DOMAIN reports'[t] : Follows(reports'[t][j], active)
    <2>1. PICK t \in Views : \/ ShownIn(t, active)
                             \/ \E j \in DOMAIN reports[t] : Follows(reports[t][j], active)
        BY <1>6 DEF TargetInv
    <2>2. CASE ShownIn(t, active)
        <3>1. CASE t = t0 /\ Follows(reports'[t0][last], active)
            BY <1>1, <3>1
        <3>2. ASSUME NEW s, s = active
              PROVE  ShownIn(t, s)' \/ (t = t0 /\ Follows(reports'[t0][last], s))
            BY <1>3, <1>6, <2>2, <3>2
        <3>3. ShownIn(t, active)' \/ (t = t0 /\ Follows(reports'[t0][last], active))
            BY <3>2 DEF ShownIn
        <3> QED BY <3>1, <3>3
    <2>3. CASE \E j \in DOMAIN reports[t] : Follows(reports[t][j], active)
        BY <1>1, <1>2, <2>3
    <2> QED BY <2>1, <2>2, <2>3
<1> QED BY <1>5, <1>6 DEF TargetInv

\* A report that arrives makes a target that its tab shows or goes on to report, or leaves
\* the one there is.
LEMMA ArrivalKeepsTarget ==
    ASSUME SessionTypeOK, TargetInv, NEW t0 \in Views, ReportArrives(t0)
    PROVE  TargetInv'
<1> DEFINE first == reports[t0][1]
<1>1. /\ \A u \in Views : u # t0 => reports'[u] = reports[u]
      /\ 1 \in DOMAIN reports[t0]
      /\ active' = Reported(first)
      /\ \A i \in DOMAIN reports'[t0] : /\ i \in Nat /\ i + 1 \in DOMAIN reports[t0]
                                        /\ reports'[t0][i] = reports[t0][i + 1]
      /\ \A i \in DOMAIN reports[t0] : /\ i \in Nat /\ 1 <= i
                                       /\ i # 1 => \E k \in DOMAIN reports'[t0] : k + 1 = i
    BY ArrivesFacts
<1>2. UNCHANGED <<tab, views>>
    BY DEF ReportArrives
<1>3. \A u, s : ShownIn(u, s)' <=> ShownIn(u, s)
    BY <1>2 DEF ShownIn
<1>4. ASSUME NEW u \in Views, NEW i \in DOMAIN reports'[u], NEW s, s = reports'[u][i].to, s # None
      PROVE  \/ ShownIn(u, s)'
             \/ \E j \in DOMAIN reports'[u] : j > i /\ Follows(reports'[u][j], s)
    <2>1. CASE u # t0
        <3>1. reports'[u] = reports[u]
            BY <1>1, <2>1
        <3> QED BY <1>3, <1>4, <3>1 DEF TargetInv
    <2>2. CASE u = t0
        <3>1. i \in Nat /\ i + 1 \in DOMAIN reports[t0] /\ reports[t0][i + 1].to = s
            BY <1>1, <1>4, <2>2
        <3>2. CASE ShownIn(t0, s)
            BY <1>3, <2>2, <3>2
        <3>3. ASSUME NEW j \in DOMAIN reports[t0], j > i + 1, Follows(reports[t0][j], s)
              PROVE  \E k \in DOMAIN reports'[u] : k > i /\ Follows(reports'[u][k], s)
            <4>1. j \in Nat /\ j # 1
                BY <1>1, <3>1, <3>3
            <4>2. PICK k \in DOMAIN reports'[t0] : k + 1 = j
                BY <1>1, <4>1
            <4>3. k \in Nat /\ k > i /\ reports'[t0][k] = reports[t0][j]
                BY <1>1, <3>1, <3>3, <4>2
            <4> QED BY <2>2, <3>3, <4>3
        <3> QED BY <1>4, <3>1, <3>2, <3>3 DEF TargetInv
    <2> QED BY <2>1, <2>2
<1>5. ASSUME NEW s, s = active', s # None
      PROVE  \E t \in Views : \/ ShownIn(t, s)
                              \/ \E j \in DOMAIN reports'[t] : Follows(reports'[t][j], s)
    <2>1. CASE first.to = s
        <3>1. CASE ShownIn(t0, s)
            BY <3>1
        <3>2. ASSUME NEW j \in DOMAIN reports[t0], j > 1, Follows(reports[t0][j], s)
              PROVE  \E k \in DOMAIN reports'[t0] : Follows(reports'[t0][k], s)
            <4>1. PICK k \in DOMAIN reports'[t0] : k + 1 = j
                BY <1>1, <3>2
            <4> QED BY <1>1, <3>2, <4>1
        <3> QED BY <1>1, <1>5, <2>1, <3>1, <3>2 DEF TargetInv
    <2>2. CASE first.to # s
        <3>1. s = active /\ first.to = None /\ first.by # active
            BY <1>1, <1>5, <2>2 DEF Reported
        <3>2. PICK t \in Views : \/ ShownIn(t, s)
                                 \/ \E j \in DOMAIN reports[t] : Follows(reports[t][j], s)
            BY <1>5, <3>1 DEF TargetInv
        <3>3. ASSUME NEW j \in DOMAIN reports[t], Follows(reports[t][j], s)
              PROVE  \E k \in DOMAIN reports'[t] : Follows(reports'[t][k], s)
            <4>1. CASE t # t0
                BY <1>1, <3>3, <4>1
            <4>2. CASE t = t0
                <5>1. j # 1
                    BY <3>1, <3>3, <4>2 DEF Follows
                <5>2. PICK k \in DOMAIN reports'[t0] : k + 1 = j
                    BY <1>1, <3>3, <4>2, <5>1
                <5> QED BY <1>1, <3>3, <4>2, <5>2
            <4> QED BY <4>1, <4>2
        <3> QED BY <3>2, <3>3
    <2> QED BY <2>1, <2>2
<1>6. active' # None =>
          \E t \in Views : \/ ShownIn(t, active)'
                           \/ \E j \in DOMAIN reports'[t] : Follows(reports'[t][j], active')
    <2>1. ASSUME NEW s, s = active'
          PROVE  \A t : ShownIn(t, active)' <=> ShownIn(t, s)
        BY <1>2, <2>1 DEF ShownIn
    <2> QED BY <1>5, <2>1
<1> QED BY <1>4, <1>6 DEF TargetInv

\* What the views of one tab report goes on ending with what the last of them shows.
LEMMA StepKeepsOneTab ==
    ASSUME SessionTypeOK, OneTabInv, SessionNext
    PROVE  OneTabInv'
<1>0. latest \in [Views -> Views] /\ tab' = tab /\ tab \in [Views -> Views]
      /\ views \in [Views -> Sessions \cup {None}] /\ None \notin Sessions
    BY BridgeAssumption DEF OneTabInv, SessionTypeOK, SessionNext, Mount, SwitchTo, Dispose, ReportArrives
<1>1. latest' \in [Views -> Views]
    BY <1>0 DEF SessionNext, Mount, SwitchTo, Dispose, ReportArrives
<1>2. SUFFICES ASSUME OneTab, ~crossed'
               PROVE  /\ \A t \in Views : reports'[t] # <<>> => \E v \in Views : tab[v] = t
                      /\ \A v, w \in Views : views'[v] # None /\ views'[v] = views'[w] => v = w
                      /\ \A v \in Views : views'[v] # None /\ latest'[tab[v]] = v =>
                            Ends(active', reports'[tab[v]], views'[v])
    <2>1. OneTab' <=> OneTab
        BY <1>0 DEF OneTab
    <2> QED BY <1>0, <1>1, <2>1 DEF OneTabInv, Shown
<1>10. ~crossed
    BY <1>2 DEF SessionNext, Mount, SwitchTo, Dispose, ReportArrives
<1>3. /\ \A t \in Views : reports[t] # <<>> => \E v \in Views : tab[v] = t
      /\ \A v, w \in Views : views[v] # None /\ views[v] = views[w] => v = w
      /\ \A v \in Views : views[v] # None /\ latest[tab[v]] = v => Ends(active, reports[tab[v]], views[v])
    BY <1>2, <1>10 DEF OneTabInv, Shown
<1>4. ASSUME NEW v \in Views, NEW to \in Sessions \cup {None}, NEW by \in Sessions \cup {None},
             Report(v, to, by)
      PROVE  /\ \A t \in Views : reports'[t] # <<>> => \E w \in Views : tab[w] = t
             /\ to # None => \E i \in DOMAIN reports'[tab[v]] :
                   /\ reports'[tab[v]][i].to = to
                   /\ \A j \in DOMAIN reports'[tab[v]] : ~(j > i)
             /\ \A s : to = None /\ by # s /\ active' = active /\ Ends(active, reports[tab[v]], s) =>
                   Ends(active', reports'[tab[v]], s)
    <2>1. PICK last \in Nat :
              /\ DOMAIN reports'[tab[v]] = DOMAIN reports[tab[v]] \cup {last}
              /\ \A i \in DOMAIN reports[tab[v]] :
                    i \in Nat /\ i < last /\ reports'[tab[v]][i] = reports[tab[v]][i]
              /\ reports'[tab[v]][last].to = to
              /\ reports'[tab[v]][last].by = by
        BY <1>4, ReportFacts
    <2>2. \A u \in Views : u # tab[v] => reports'[u] = reports[u]
        BY <1>4, ReportFacts
    <2>3. \A t \in Views : reports'[t] # <<>> => \E w \in Views : tab[w] = t
        BY <1>3, <2>2
    <2>4. to # None => \E i \in DOMAIN reports'[tab[v]] :
              /\ reports'[tab[v]][i].to = to
              /\ \A j \in DOMAIN reports'[tab[v]] : ~(j > i)
        BY <2>1
    <2>5. ASSUME NEW s, to = None, by # s, active' = active, Ends(active, reports[tab[v]], s)
          PROVE  Ends(active', reports'[tab[v]], s)
        <3>1. Spares(reports'[tab[v]][last], s)
            BY <2>1, <2>5 DEF Spares
        <3>2. CASE active = s /\ \A j \in DOMAIN reports[tab[v]] : Spares(reports[tab[v]][j], s)
            BY <2>1, <2>5, <3>1, <3>2 DEF Ends
        <3>3. ASSUME NEW i \in DOMAIN reports[tab[v]], reports[tab[v]][i].to = s,
                     \A j \in DOMAIN reports[tab[v]] : j > i => Spares(reports[tab[v]][j], s)
              PROVE  /\ i \in DOMAIN reports'[tab[v]] /\ reports'[tab[v]][i].to = s
                     /\ \A j \in DOMAIN reports'[tab[v]] : j > i => Spares(reports'[tab[v]][j], s)
            BY <2>1, <3>1, <3>3
        <3> QED BY <2>5, <3>2, <3>3 DEF Ends
    <2> QED BY <2>3, <2>4, <2>5
<1>5. \A v, w \in Views : v # w /\ views[w] # None => w \in BesideIn(v)
    BY <1>2 DEF OneTab, BesideIn, Shown
<1>6. ASSUME NEW v \in Views, NEW s \in Sessions, Mount(v, s)
      PROVE  /\ \A t \in Views : reports'[t] # <<>> => \E w \in Views : tab[w] = t
             /\ \A w, x \in Views : views'[w] # None /\ views'[w] = views'[x] => w = x
             /\ \A w \in Views : views'[w] # None /\ latest'[tab[w]] = w =>
                   Ends(active', reports'[tab[w]], views'[w])
    <2>1. /\ Report(v, s, s) /\ views' = [views EXCEPT ![v] = s]
          /\ latest' = [latest EXCEPT ![tab[v]] = v]
          /\ \A w \in BesideIn(v) : views[w] # s
        BY <1>2, <1>6 DEF Mount, ShownBeside
    <2>2. \A w, x \in Views : views'[w] # None /\ views'[w] = views'[x] => w = x
        BY <1>0, <1>3, <1>5, <2>1
    <2>3. \A w \in Views : latest'[tab[w]] = v
        BY <1>0, <1>2, <2>1 DEF OneTab
    <2>4. Ends(active', reports'[tab[v]], views'[v])
        BY <1>0, <1>4, <2>1 DEF Ends
    <2> QED BY <1>4, <2>1, <2>2, <2>3, <2>4
<1>7. ASSUME NEW v \in Views, NEW s \in Sessions, SwitchTo(v, s)
      PROVE  /\ \A t \in Views : reports'[t] # <<>> => \E w \in Views : tab[w] = t
             /\ \A w, x \in Views : views'[w] # None /\ views'[w] = views'[x] => w = x
             /\ \A w \in Views : views'[w] # None /\ latest'[tab[w]] = w =>
                   Ends(active', reports'[tab[w]], views'[w])
    <2>1. /\ Report(v, s, s) /\ views' = [views EXCEPT ![v] = s] /\ latest' = latest
          /\ \A w \in BesideIn(v) : views[w] # s
          /\ BesideIn(v) # {} => latest[tab[v]] = v
        BY <1>2, <1>7 DEF SwitchTo, ShownBeside
    <2>2. \A w, x \in Views : views'[w] # None /\ views'[w] = views'[x] => w = x
        BY <1>0, <1>3, <1>5, <2>1
    <2>3. \A w \in Views : views'[w] # None /\ latest'[tab[w]] = w => w = v
        BY <1>0, <1>2, <1>5, <2>1 DEF OneTab
    <2>4. Ends(active', reports'[tab[v]], views'[v])
        BY <1>0, <1>4, <2>1 DEF Ends
    <2> QED BY <1>4, <2>1, <2>2, <2>3, <2>4
<1>8. ASSUME NEW v \in Views, Dispose(v)
      PROVE  /\ \A t \in Views : reports'[t] # <<>> => \E w \in Views : tab[w] = t
             /\ \A w, x \in Views : views'[w] # None /\ views'[w] = views'[x] => w = x
             /\ \A w \in Views : views'[w] # None /\ latest'[tab[w]] = w =>
                   Ends(active', reports'[tab[w]], views'[w])
    <2>1. /\ Report(v, None, views[v]) /\ views' = [views EXCEPT ![v] = None]
          /\ latest' = latest /\ active' = active
        BY <1>8 DEF Dispose
    <2>2. \A w \in Views : views'[w] # None => w # v /\ views'[w] = views[w]
        BY <1>0, <2>1
    <2>3. ASSUME NEW w \in Views, views'[w] # None, latest'[tab[w]] = w
          PROVE  Ends(active', reports'[tab[w]], views'[w])
        <3>1. views[w] # None /\ views'[w] = views[w] /\ views[v] # views[w] /\ tab[w] = tab[v]
            BY <1>2, <1>3, <2>2, <2>3 DEF OneTab
        <3>2. Ends(active, reports[tab[v]], views[w])
            BY <1>3, <2>1, <2>3, <3>1
        <3>3. views[v] \in Sessions \cup {None}
            BY <1>0
        <3>4. \A s : views[v] # s /\ Ends(active, reports[tab[v]], s) =>
                  Ends(active', reports'[tab[v]], s)
            <4>1. None \in Sessions \cup {None}
                OBVIOUS
            <4>2. Report(v, None, views[v]) /\ active' = active
                BY <2>1
            <4>3. \A s : views[v] # s /\ active' = active /\ Ends(active, reports[tab[v]], s) =>
                      Ends(active', reports'[tab[v]], s)
                BY <1>4, <3>3, <4>1, <4>2
            <4> QED BY <4>2, <4>3
        <3>5. Ends(active', reports'[tab[v]], views[w])
            BY <3>1, <3>2, <3>4
        <3> QED BY <3>1, <3>5
    <2>4. \A w, x \in Views : views'[w] # None /\ views'[w] = views'[x] => w = x
        BY <1>3, <2>2
    <2>5. \A t \in Views : reports'[t] # <<>> => \E w \in Views : tab[w] = t
        BY <1>0, <1>4, <2>1
    <2> QED BY <2>3, <2>4, <2>5
<1>9. ASSUME NEW t \in Views, ReportArrives(t)
      PROVE  /\ \A u \in Views : reports'[u] # <<>> => \E w \in Views : tab[w] = u
             /\ \A w, x \in Views : views'[w] # None /\ views'[w] = views'[x] => w = x
             /\ \A w \in Views : views'[w] # None /\ latest'[tab[w]] = w =>
                   Ends(active', reports'[tab[w]], views'[w])
    <2>1. /\ \A u \in Views : u # t => reports'[u] = reports[u]
          /\ 1 \in DOMAIN reports[t]
          /\ active' = Reported(reports[t][1])
          /\ \A i \in DOMAIN reports'[t] : /\ i \in Nat /\ i + 1 \in DOMAIN reports[t] /\ i + 1 # 1
                                           /\ reports'[t][i] = reports[t][i + 1]
          /\ \A i \in DOMAIN reports[t] : /\ i \in Nat /\ 1 <= i
                                          /\ i # 1 => \E k \in DOMAIN reports'[t] : k + 1 = i
        BY <1>9, ArrivesFacts
    <2>2. UNCHANGED <<tab, views, latest>> /\ reports[t] # <<>>
        BY <1>9 DEF ReportArrives
    <2>3. \A w \in Views : tab[w] = t
        BY <1>2, <1>3, <2>2 DEF OneTab
    <2>4. ASSUME NEW s, s # None, Ends(active, reports[t], s)
          PROVE  Ends(active', reports'[t], s)
        <3>1. CASE active = s /\ \A j \in DOMAIN reports[t] : Spares(reports[t][j], s)
            <4>1. active' = s
                BY <2>1, <2>4, <3>1 DEF Reported, Spares
            <4> QED BY <2>1, <3>1, <4>1 DEF Ends
        <3>2. ASSUME NEW i \in DOMAIN reports[t], reports[t][i].to = s,
                     \A j \in DOMAIN reports[t] : j > i => Spares(reports[t][j], s)
              PROVE  Ends(active', reports'[t], s)
            <4>1. CASE i = 1
                <5>1. active' = s
                    BY <2>1, <2>4, <3>2, <4>1 DEF Reported
                <5>2. ASSUME NEW j \in DOMAIN reports'[t]
                      PROVE  Spares(reports'[t][j], s)
                    <6>1. j \in Nat /\ j + 1 \in DOMAIN reports[t] /\ j + 1 # 1 /\ j + 1 > 1
                        BY <2>1
                    <6> QED BY <2>1, <3>2, <4>1, <6>1
                <5> QED BY <5>1, <5>2 DEF Ends
            <4>2. CASE i # 1
                <5>1. PICK k \in DOMAIN reports'[t] : k + 1 = i
                    BY <2>1, <4>2
                <5>2. ASSUME NEW j \in DOMAIN reports'[t], j > k
                      PROVE  Spares(reports'[t][j], s)
                    <6>1. j + 1 \in DOMAIN reports[t] /\ j + 1 > i
                        BY <2>1, <5>1, <5>2
                    <6> QED BY <2>1, <3>2, <6>1
                <5>3. reports'[t][k].to = s
                    BY <2>1, <3>2, <5>1
                <5> QED BY <5>2, <5>3 DEF Ends
            <4> QED BY <4>1, <4>2
        <3> QED BY <2>4, <3>1, <3>2 DEF Ends
    <2>5. ASSUME NEW w \in Views, views[w] # None, latest[tab[w]] = w
          PROVE  Ends(active', reports'[tab[w]], views'[w])
        <3>1. Ends(active, reports[t], views[w])
            BY <1>3, <2>3, <2>5
        <3>2. Ends(active', reports'[t], views[w])
            BY <2>4, <2>5, <3>1
        <3> QED BY <2>2, <2>3, <3>2
    <2>6. \A u \in Views : reports'[u] # <<>> => \E w \in Views : tab[w] = u
        BY <1>3, <2>1, <2>2
    <2>7. \A w, x \in Views : views'[w] # None /\ views'[w] = views'[x] => w = x
        BY <1>3, <2>2
    <2> QED BY <2>2, <2>5, <2>6, <2>7
<1> QED BY <1>6, <1>7, <1>8, <1>9 DEF SessionNext

\* Every step keeps what is known of views and their reports.
LEMMA StepKeepsViews ==
    ASSUME ViewsInv, [Next]_vars
    PROVE  ViewsInv'
<1>1. CASE Reporting
    <2>1. SessionNext
        BY <1>1 DEF Reporting
    <2>2. SessionTypeOK' /\ OneTabInv'
        BY <2>1, ReportingTypes, StepKeepsOneTab DEF ViewsInv
    <2>3. ASSUME NEW v \in Views, NEW s \in Sessions, Mount(v, s) \/ SwitchTo(v, s)
          PROVE  TargetInv'
        <3>1. /\ Report(v, s, s) /\ views' = [views EXCEPT ![v] = s] /\ UNCHANGED <<active, tab>>
              /\ s # None /\ s \in Sessions \cup {None}
            BY <2>3, BridgeAssumption DEF Mount, SwitchTo
        <3> QED BY <3>1, ReportKeepsTarget DEF ViewsInv
    <2>4. ASSUME NEW v \in Views, Dispose(v)
          PROVE  TargetInv'
        <3>1. /\ Report(v, None, views[v]) /\ views' = [views EXCEPT ![v] = None]
              /\ UNCHANGED <<active, tab>> /\ views[v] \in Sessions \cup {None}
            BY <2>4 DEF Dispose, ViewsInv, SessionTypeOK
        <3> QED BY <3>1, ReportKeepsTarget DEF ViewsInv
    <2>5. ASSUME NEW t \in Views, ReportArrives(t)
          PROVE  TargetInv'
        BY <2>5, ArrivalKeepsTarget DEF ViewsInv
    <2> QED BY <2>1, <2>2, <2>3, <2>4, <2>5 DEF SessionNext, ViewsInv
<1>2. CASE UNCHANGED sessionVars
    BY <1>2 DEF sessionVars, ViewsInv, SessionTypeOK, TargetInv, OneTabInv, ShownIn, Ends,
                Follows, Spares, OneTab, Shown
<1>3. Reporting \/ UNCHANGED sessionVars
    BY DEF Next, vars, CreateArrives, RemoveArrives, UpdateArrives, CreateEnds, UpdateEnds, Upload,
           GetScreenshot, Tick, Fetch, Cleanup
<1> QED BY <1>1, <1>2, <1>3

\* With every report delivered, the target of captures is a chat that is open; and when
\* the views of one tab replace each other, each with another chat, in whichever order
\* they report, it is the one the user sees.
THEOREM TargetIsShown == Spec => []ActiveFollowsViews
<1>1. Init => ViewsInv
    <2> SUFFICES ASSUME Init PROVE ViewsInv
        OBVIOUS
    <2>1. (CHOOSE w \in Views : TRUE) \in Views \/ Views = {}
        OBVIOUS
    <2>2. tab \in [Views -> Views] /\ latest = tab
        BY <2>1 DEF Init, SessionInit
    <2>3. /\ active = None /\ views = [v \in Views |-> None]
          /\ reports = [v \in Views |-> <<>>]
        BY DEF Init, SessionInit
    <2>4. SessionTypeOK
        BY InitChips DEF ChipsInv
    <2>5. \A t \in Views : reports[t] = <<>> /\ DOMAIN reports[t] = {} /\ views[t] = None
        BY <2>3
    <2>6. TargetInv
        BY <2>3, <2>5 DEF TargetInv
    <2>7. OneTabInv
        BY <2>2, <2>5 DEF OneTabInv, Shown
    <2> QED BY <2>4, <2>6, <2>7 DEF ViewsInv
<1>2. ViewsInv /\ [Next]_vars => ViewsInv'
    BY StepKeepsViews
<1>3. ViewsInv => ActiveFollowsViews
    <2> SUFFICES ASSUME ViewsInv, \A t \in Views : reports[t] = <<>>
                 PROVE  /\ active # None => \E v \in Views : views[v] = active
                        /\ OneTab /\ ~crossed =>
                             \A v \in Views : Shown(v) /\ latest[tab[v]] = v => active = views[v]
        BY DEF ActiveFollowsViews
    <2>1. \A t \in Views : DOMAIN reports[t] = {}
        OBVIOUS
    <2>2. active # None => \E v \in Views : views[v] = active
        BY <2>1 DEF ViewsInv, TargetInv, ShownIn
    <2>3. ASSUME OneTab, ~crossed, NEW v \in Views, Shown(v), latest[tab[v]] = v
          PROVE  active = views[v]
        <3>1. tab[v] \in Views /\ Ends(active, reports[tab[v]], views[v])
            BY <2>3 DEF ViewsInv, SessionTypeOK, OneTabInv
        <3> QED BY <2>1, <3>1 DEF Ends
    <2> QED BY <2>2, <2>3
<1> QED BY <1>1, <1>2, <1>3, PTL DEF Spec

===============================================================================
