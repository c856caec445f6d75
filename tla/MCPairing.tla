------------------------------- MODULE MCPairing -------------------------------
(***************************************************************************)
(* An instance of Pairing for TLC: windows, lives and limits of a few units.    *)
(***************************************************************************)
EXTENDS Pairing

===============================================================================
