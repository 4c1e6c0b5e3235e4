------------------------------- MODULE MCNova -------------------------------
(* Small instances of Nova for TLC. *)
EXTENDS Nova, TLC

CONSTANTS t1, t2, n1, n2

Symmetry == Permutations({t1, t2}) \cup Permutations({n1, n2})
=============================================================================
