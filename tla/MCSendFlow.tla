------------------------------ MODULE MCSendFlow ------------------------------
(***************************************************************************)
(* Instances of SendFlow for TLC: one agent, one or two sessions, one        *)
(* element.  MaxPreparations = MaxSends + MaxSelections, because a turn that *)
(* admits a draft consumes at least one chip; with MaxBatches and            *)
(* MaxRevision as large as the other bounds allow, no bound but MaxSends,    *)
(* MaxSelections and MaxOtherTurns ever disables an action.                  *)
(***************************************************************************)
EXTENDS SendFlow

\* Two Sends in one session; one Send while the user switches; everything at once.
FlowSituations ==
    {{"again", "throws", "disposed", "closed", "removed", "expired", "unavailable"},
     {"throws", "disposed", "closed", "removed", "expired", "unavailable", "switched"},
     FaultKinds \ {"again"}}

LiveSituations == {{"early", "again"}}

===============================================================================
