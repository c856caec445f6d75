----------------------------- MODULE SendContract -----------------------------
(***************************************************************************)
(* What the plugin promises about a Send, whatever the store looks like     *)
(* inside: a preparation is opened by at most one session, a session has    *)
(* at most one open preparation, and an opened preparation is consumed      *)
(* once - admitted, rejected, or dropped with its session - and keeps that  *)
(* fate for good.                                                           *)
(***************************************************************************)
EXTENDS Naturals

CONSTANTS
    Keys,            \* sessions, as (agentId, sessionKey) pairs
    MaxPreparations  \* preparations are numbered 1 .. MaxPreparations

VARIABLES
    open,  \* open[k]: the open preparation of session k, 0 when there is none
    fate   \* fate[p]: what became of preparation p

vars == <<open, fate>>

Preparations == 1 .. MaxPreparations

Fates == {"unused", "open", "admitted", "rejected", "dropped"}

TypeOK ==
    /\ open \in [Keys -> Preparations \cup {0}]
    /\ fate \in [Preparations -> Fates]

Init ==
    /\ open = [k \in Keys |-> 0]
    /\ fate = [p \in Preparations |-> "unused"]

\* A Send is prepared for session k.
Prepare(k, p) ==
    /\ open[k] = 0
    /\ fate[p] = "unused"
    /\ open' = [open EXCEPT ![k] = p]
    /\ fate' = [fate EXCEPT ![p] = "open"]

\* The open preparation of k meets its fate.
Settle(k, outcome) ==
    /\ open[k] # 0
    /\ outcome \in {"admitted", "rejected", "dropped"}
    /\ fate' = [fate EXCEPT ![open[k]] = outcome]
    /\ open' = [open EXCEPT ![k] = 0]

\* A turn that starts without a prepared Send opens and admits in one step.
AdmitAtOnce(k, p) ==
    /\ open[k] = 0
    /\ fate[p] = "unused"
    /\ fate' = [fate EXCEPT ![p] = "admitted"]
    /\ UNCHANGED open

Next ==
    \E k \in Keys :
        \/ \E p \in Preparations : Prepare(k, p) \/ AdmitAtOnce(k, p)
        \/ \E outcome \in {"admitted", "rejected", "dropped"} : Settle(k, outcome)

Spec == Init /\ [][Next]_vars

===============================================================================
