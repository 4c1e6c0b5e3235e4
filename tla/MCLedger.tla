------------------------------ MODULE MCLedger ------------------------------
(* Small instances of Ledger for TLC. *)
EXTENDS Ledger, TLC

CONSTANTS o1, e1, e2, c1, c2

OneOrg == [e \in Executions |-> o1]
=============================================================================
