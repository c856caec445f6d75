----------------------------- MODULE ActiveSession -----------------------------
(***************************************************************************)
(* Which chat is the target of captures: composer views of the Control UI       *)
(* (control-ui.ts) report the session they show, report_active_session (index.ts) *)
(* lets a context set its own session and clear only what is its own, and the     *)
(* tracker (active-session.ts) keeps one.  A session stands for its key and        *)
(* agent.  Nobody in the repository reports "ambiguous", and the revision that a   *)
(* change gets is Connection's concern.                                         *)
(***************************************************************************)
EXTENDS Naturals, Sequences, FiniteSets

CONSTANTS
    Sessions, None, Views,
    MaxReports   \* bound: reports a view has under way

VARIABLES
    active,   \* the tracker's session, None for status none
    tab,      \* the browser tab a view is in: views of one tab replace each other
    views,    \* the session each composer view shows, None when it is not mounted
    latest,   \* the view mounted last in a tab
    reports,  \* reports of each tab under way, in order
    crossed   \* views of a tab showed one chat at once, or one that is not the latest
              \* changed its chat beside others

sessionVars == <<active, tab, views, latest, reports, crossed>>

Shown(v) == views[v] # None
BesideIn(v) == {w \in Views \ {v} : tab[w] = tab[v] /\ Shown(w)}

Report(v, to, by) ==
    /\ Len(reports[tab[v]]) < MaxReports
    /\ reports' = [reports EXCEPT ![tab[v]] = Append(@, [to |-> to, by |-> by])]

ShownBeside(v, s) == \E w \in BesideIn(v) : views[w] = s

\* mount: the view reports the session of its props.  Views that it replaces may still
\* be there, and be disposed of later.
Mount(v, s) ==
    /\ ~Shown(v)
    /\ crossed' = (crossed \/ ShownBeside(v, s))
    /\ views' = [views EXCEPT ![v] = s]
    /\ latest' = [latest EXCEPT ![tab[v]] = v]
    /\ Report(v, s, s)
    /\ UNCHANGED <<active, tab>>

\* update with another session.
SwitchTo(v, s) ==
    /\ Shown(v) /\ views[v] # s
    /\ crossed' = (crossed \/ ShownBeside(v, s) \/ (BesideIn(v) # {} /\ latest[tab[v]] # v))
    /\ views' = [views EXCEPT ![v] = s]
    /\ Report(v, s, s)
    /\ UNCHANGED <<active, tab, latest>>

\* dispose clears the session it leaves.
Dispose(v) ==
    /\ Shown(v)
    /\ views' = [views EXCEPT ![v] = None]
    /\ Report(v, None, views[v])
    /\ UNCHANGED <<active, tab, latest, crossed>>

\* Mutant: whoever asks may clear the session.
ReportedByAnybody(report) == report.to

\* callerOwnsActive guards clearing; bindSessionIdentity lets a context set only its own.
Reported(report) ==
    IF report.to = None /\ active \notin {None, report.by} THEN active ELSE report.to

ReportArrives(t) ==
    /\ reports[t] # <<>>
    /\ reports' = [reports EXCEPT ![t] = Tail(@)]
    /\ active' = Reported(Head(reports[t]))
    /\ UNCHANGED <<tab, views, latest, crossed>>

OneTab == \A v, w \in Views : tab[v] = tab[w]

\* A tab has the name of one of its views.
SessionInit ==
    /\ active = None
    /\ tab \in {[v \in Views |-> v], [v \in Views |-> CHOOSE w \in Views : TRUE]}
    /\ views = [v \in Views |-> None]
    /\ latest = tab
    /\ reports = [v \in Views |-> <<>>]
    /\ crossed = FALSE

SessionNext ==
    \E v \in Views :
        \/ \E s \in Sessions : Mount(v, s) \/ SwitchTo(v, s)
        \/ Dispose(v)
        \/ ReportArrives(v)

\* With every report delivered, the target of captures is a chat that is open ("exact
\* session", INV-3).  When the views of one tab replace each other, each with another
\* chat, in whichever order mount and dispose report, it is the one the user sees.
\* This second half leaves out two views of one chat in a tab: the older one's dispose
\* clears the chat for both, since the gateway knows views by their chat alone, and
\* no chat is the target until the next report.  Of two tabs the one that reports last
\* is the target, and closing it leaves none.
ActiveFollowsViews ==
    (\A t \in Views : reports[t] = <<>>) =>
        /\ active # None => \E v \in Views : views[v] = active
        /\ OneTab /\ ~crossed =>
             \A v \in Views : Shown(v) /\ latest[tab[v]] = v => active = views[v]

===============================================================================
