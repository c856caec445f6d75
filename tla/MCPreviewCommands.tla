--------------------------- MODULE MCPreviewCommands ---------------------------
(***************************************************************************)
(* Instances of PreviewCommands for TLC: two selections of two sessions.       *)
(***************************************************************************)
EXTENDS PreviewCommands

CONSTANTS s1, s2, e1, e2

MCHomeOf == [e \in {e1, e2} |-> IF e = e1 THEN s1 ELSE s2]

PassingScenarios ==
    {{"fails", "wrong", "sessions"}, {"slow", "removed"}, {"sockets"}, {"two"},
     {"sameid", "sessions", "slow"}}

===============================================================================
