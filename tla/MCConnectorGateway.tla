------------------------- MODULE MCConnectorGateway -------------------------
(* Small instances of ConnectorGateway for TLC. *)
EXTENDS ConnectorGateway, TLC

CONSTANTS now, later, w1, w2

Symmetry == Permutations(Workers)
=============================================================================
