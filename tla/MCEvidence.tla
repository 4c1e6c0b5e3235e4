----------------------------- MODULE MCEvidence -----------------------------
(* A small instance of Evidence: two executions of one organization. *)
EXTENDS Evidence, TLC

CONSTANTS e1, e2

MCExecutions == {e1, e2}
Symmetry == Permutations(MCExecutions)
=============================================================================
