------------------------------ MODULE MCAccess ------------------------------
(* Small instances of Access for TLC. *)
EXTENDS Access, TLC

CONSTANTS w1, w2, director, analyst

\* A private model, a cloud model for low risks, and a local model that is
\* not enabled; the seed's model cannot do vision, two of these can.
CatalogDef ==
  { [key |-> 1, deployment |-> "private", classes |-> Classes, risk |-> "high",
     caps |-> {"chat", "vision"}, enabled |-> TRUE],
    [key |-> 3, deployment |-> "cloud", classes |-> {"public", "internal"}, risk |-> "low",
     caps |-> {"chat"}, enabled |-> TRUE],
    [key |-> 4, deployment |-> "local", classes |-> Classes, risk |-> "high",
     caps |-> {"chat", "vision"}, enabled |-> FALSE],
    [key |-> 2, deployment |-> "cloud", classes |-> {"public"}, risk |-> "low",
     caps |-> {"chat"}, enabled |-> TRUE] }

AsksDef ==
  { [type |-> "skill.use", skill |-> "audit.export", class |-> "restricted", risk |-> "high"] }

RequestsDef ==
  { [class |-> "internal", risk |-> "low", caps |-> {"chat"}, prefer |-> FALSE],
    [class |-> "confidential", risk |-> "high", caps |-> {"vision"}, prefer |-> FALSE] }

Symmetry == Permutations({w1, w2})
=============================================================================
