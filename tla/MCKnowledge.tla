---------------------------- MODULE MCKnowledge ----------------------------
(* Small instances of Knowledge for TLC. *)
EXTENDS Knowledge, TLC

CONSTANTS w1, w2, x1, x2, v1, v2, v3, p1, p2

Symmetry == Permutations({w1, w2}) \cup Permutations({x1, x2})
=============================================================================
