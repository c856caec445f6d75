----------------------------- MODULE MCConnection -----------------------------
(***************************************************************************)
(* Instances of Connection for TLC.                                          *)
(***************************************************************************)
EXTENDS Connection

PassingScenarios ==
    {{"network", "worker", "revoke", "offline"}, {"network", "badcode"},
     {"gateway"}, {"busy", "worker", "revoke"}}

===============================================================================
