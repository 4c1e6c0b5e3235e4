---------------------------- MODULE MCExecution ----------------------------
(* Small instances of Execution for TLC. *)
EXTENDS Execution, TLC

CONSTANTS w1, w2, e1, a1, a2, u1, u2
=============================================================================
