----------------------------- MODULE MCBatchStore -----------------------------
(***************************************************************************)
(* An instance of BatchStore for TLC: two agents under one session key.        *)
(***************************************************************************)
EXTENDS BatchStore, TLC

\* Elements are interchangeable; agents are not, because the lookup by session key
\* takes one of them.
Symmetry == Permutations(Elements)

===============================================================================
