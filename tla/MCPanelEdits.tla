----------------------------- MODULE MCPanelEdits -----------------------------
(***************************************************************************)
(* Instances of PanelEdits for TLC: one style, the text and the comment.     *)
(***************************************************************************)
EXTENDS PanelEdits

CONSTANTS v1, v2, tab1, tab2, button, link, sel1, sel2

\* The order of the fields in the form.
FieldOrder == <<"padding", "text", "comment">>

\* sel2 is the element of sel1 when elements are shared, else another one.
SameTab == [s \in Selections |-> tab1]
SameElement == [s \in Selections |-> button]

\* The user edits; the same with another circumstance; the agent previews.
PassingScenarios ==
    {{}, {"styled"}, {"offline"}, {"text"}, {"unclear"}, {"again"},
     {"reselect"}, {"switch"}, {"gone"}, {"unreachable"}, {"refused"}, {"sourced"},
     {"agent", "moved", "styled"}, {"agent", "moved", "gone"}, {"agent", "shared"}}

PassingClicks ==
    [s \in PassingScenarios |->
        IF s = {} THEN 4
        ELSE IF "agent" \in s \/ s \in {{"reselect"}, {"switch"}, {"gone"}, {"unreachable"}}
        THEN 2 ELSE 3]

TextScenarios == {{"text"}}
TextClicks == [s \in TextScenarios |-> 2]

Interchangeable == Permutations({v1, v2}) \cup Permutations({sel1, sel2})

===============================================================================
