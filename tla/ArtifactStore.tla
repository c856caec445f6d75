----------------------------- MODULE ArtifactStore -----------------------------
(***************************************************************************)
(* Screenshot artifacts of the plugin (artifact-store.ts): a Map by id and a    *)
(* Map from content to id, with a time to live and limits for all sessions and    *)
(* for each.  Operators return the two Maps after a call.  What put refuses for     *)
(* the body's size or type changes nothing and is left out.                       *)
(***************************************************************************)
EXTENDS Maps, Naturals, FiniteSets

CONSTANTS
    TTL,            \* ARTIFACT_TTL_MS
    MaxGlobal,      \* ARTIFACT_MAX_GLOBAL
    MaxPerSession   \* ARTIFACT_MAX_PER_SESSION

ASSUME ArtifactAssumption == TTL \in Nat \ {0} /\ MaxGlobal \in Nat /\ MaxPerSession \in Nat

NoArtifacts == [byId |-> EmptyMap, byHash |-> EmptyMap]

Expired(artifact, now) == artifact.expires <= now

OfSession(store, session) == {id \in DOMAIN store.byId : store.byId[id].session = session}

\* Both Maps without these artifacts, and without hash entries that lead nowhere.
Dropped(store, ids) ==
    LET left == DOMAIN store.byId \ ids IN
    [byId |-> [id \in left |-> store.byId[id]],
     byHash |-> [key \in {k \in DOMAIN store.byHash : store.byHash[k] \in left} |-> store.byHash[key]]]

\* Mutant: an artifact is kept in the moment it expires.
PurgedLate(store, now) ==
    Dropped(store, {id \in DOMAIN store.byId : store.byId[id].expires < now})

\* purgeExpired
Purged(store, now) == Dropped(store, {id \in DOMAIN store.byId : Expired(store.byId[id], now)})

HashKey(artifact) == <<artifact.session, artifact.selection, artifact.hash>>

\* put, after the purge: the artifact that has this content already ...
Duplicate(store, key) == key \in DOMAIN store.byHash /\ store.byHash[key] \in DOMAIN store.byId

\* ... or limit_reached ...
AtLimit(store, session) ==
    \/ Cardinality(DOMAIN store.byId) >= MaxGlobal
    \/ Cardinality(OfSession(store, session)) >= MaxPerSession

\* ... or the new artifact in both Maps.
Put(store, id, artifact) ==
    [byId |-> MapSet(store.byId, id, artifact),
     byHash |-> MapSet(store.byHash, HashKey(artifact), id)]

\* get and getForSelection delete what they find expired, and leave its hash entry.
Looked(store, ids, now) ==
    [store EXCEPT !.byId = [id \in {i \in DOMAIN @ : i \notin ids \/ ~Expired(@[i], now)} |-> @[id]]]

\* deleteSession
WithoutSession(store, session) == Dropped(store, OfSession(store, session))

===============================================================================
