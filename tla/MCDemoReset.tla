---------------------------- MODULE MCDemoReset ----------------------------
(* Two scripts and a request beside them, which inserts into a table tied  *)
(* to the organization, one that is not, or an append-only one.            *)
EXTENDS DemoReset, TLC
CONSTANTS s1, s2, q1

SomeTables ==
  { "audit.executions", "audit.execution_events", "knowledge.retrieval_runs" }

Symmetric == Permutations(Scripts)
=============================================================================
