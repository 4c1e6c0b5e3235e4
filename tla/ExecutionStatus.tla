-------------------------- MODULE ExecutionStatus --------------------------
(***************************************************************************)
(* The execution status machine of the audit kernel                        *)
(* (packages/audit-kernel/src/execution/executions.ts) and the side effect *)
(* a ledger entry type has on it (ledger/append.ts).  Pure definitions,    *)
(* shared by the modules that change execution rows.                       *)
(***************************************************************************)

\* No row yet: executions.ts answers "execution not found".
Absent == "absent"

TerminalStatuses == {"completed", "failed", "blocked", "cancelled"}

Statuses == {"created", "running", "waiting_approval"} \cup TerminalStatuses

\* The TRANSITIONS table.
Transitions ==
  [ created          |-> {"running", "blocked", "failed", "cancelled"},
    running          |-> {"waiting_approval", "completed", "blocked", "failed", "cancelled"},
    waiting_approval |-> {"running", "completed", "blocked", "failed", "cancelled"},
    completed        |-> {},
    failed           |-> {},
    blocked          |-> {},
    cancelled        |-> {} ]

\* Variant for mutation runs: the assertion is gone.
AnyMove(from, to) == from \in Statuses /\ to \in Statuses

\* assertExecutionTransition: same-status writes pass, anything else must be
\* in the table.
CanMove(from, to) == from = to \/ to \in Transitions[from]

EntryTypes ==
  {"request_opened", "approval_requested", "action_completed", "final", "failure"}

\* Variant for mutation runs: only a success stores final_entry_id.
OnlyFinal(type) == type = "final"

\* The entry types that store final_entry_id and completed_at.
IsSeal(type) == type \in {"final", "failure"}

\* The statuses an entry of this type writes to the execution row; none for
\* action_completed.  "failure" takes the caller's outcome.
Targets(type) ==
  CASE type = "request_opened"     -> {"running"}
    [] type = "approval_requested" -> {"waiting_approval"}
    [] type = "final"              -> {"completed"}
    [] type = "failure"            -> {"failed", "blocked"}
    [] type = "action_completed"   -> {}
=============================================================================
