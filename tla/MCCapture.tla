------------------------------ MODULE MCCapture ------------------------------
(***************************************************************************)
(* Instances of Capture for TLC: three tabs, two of which show the same page. *)
(***************************************************************************)
EXTENDS Capture

CONSTANTS tab1, tab2, tab3

SharedPage == [tab \in Tabs |-> IF tab = tab3 THEN "other page" ELSE "page"]

PassingScenarios ==
    {{}, {"failures"}, {"switch"}, {"failures", "closed"}, {"connected"},
     {"connected", "refused", "dropped"},
     {"connected", "overlap", "others", "switch", "agent"},
     {"connected", "closed", "agent"}, {"connected", "closed", "agent", "navigates"}}

===============================================================================
