---------------------------- MODULE MCBridgeRequests ----------------------------
(***************************************************************************)
(* Instances of BridgeRequests for TLC.                                        *)
(***************************************************************************)
EXTENDS BridgeRequests, TLC

PassingScenarios ==
    {{"views"}, {"captures", "edits", "cleanup"}, {"captures", "shots", "cleanup"},
     {"captures", "shots", "cleanup", "shared"}}

\* Sessions, properties and contents are interchangeable.
Symmetry == Permutations(Sessions) \cup Permutations(Properties) \cup Permutations(Hashes)

OverlappingEdits == {{"captures", "edits", "overlap"}}

===============================================================================
