---------------------------- MODULE TenantTables ----------------------------
(***************************************************************************)
(* The tables of the platform's schema that hold rows of an organization,  *)
(* and the foreign keys between them, from the migrations under            *)
(* db/migrations.  A table is its name; what a row of it contains is left  *)
(* to the modules that use the row.  Two columns that a statement sets     *)
(* after the row exists stand as tables of their own: FinalLink, the       *)
(* final_entry_id of an execution, and EnabledConnector, the page a        *)
(* connector was configured with.                                          *)
(***************************************************************************)
FinalLink == "audit.executions.final_entry_id"
EnabledConnector == "command.connectors.page_config"

Organizations == "auth.organizations"
UsersTable == "auth.users"
Memberships == "auth.memberships"

\* The tables of each schema, and their foreign keys as they are after the last
\* migration: pairs of a table and one that it names.
AuthTables ==
  { Organizations, UsersTable, "auth.roles", "auth.role_permissions", Memberships,
    "auth.sessions", "auth.service_credentials" }

AuthKeys ==
  ({"auth.roles", "auth.service_credentials"} \X {Organizations})
  \cup ({"auth.role_permissions"} \X {"auth.roles"})
  \cup ({Memberships} \X {Organizations, UsersTable, "auth.roles"})
  \cup ({"auth.sessions"} \X {Organizations, UsersTable, Memberships})

CommandTables ==
  { "command.policies", "command.policy_bindings", "command.models",
    "command.skill_policies", "command.skill_policy_roles", "command.connectors",
    EnabledConnector, "command.approvals", "command.skill_connectors",
    "command.connector_actions" }

CommandKeys ==
  ((CommandTables \ {"command.skill_policy_roles", EnabledConnector}) \X {Organizations})
  \cup ({"command.policy_bindings"} \X {"command.policies"})
  \cup ({"command.skill_policy_roles"} \X {"command.skill_policies", "auth.roles"})
  \cup ({EnabledConnector} \X {"command.connectors"})
  \cup ({"command.approvals"} \X {UsersTable})
  \cup ({"command.connector_actions"} \X
         {UsersTable, "audit.executions", "command.connectors"})

KnowledgeTables ==
  { "knowledge.collections", "knowledge.collection_permissions", "knowledge.sources",
    "knowledge.source_versions", "knowledge.chunks", "knowledge.retrieval_runs",
    "knowledge.retrieval_hits" }

KnowledgeKeys ==
  (KnowledgeTables \X {Organizations})
  \cup ({"knowledge.collections", "knowledge.sources", "knowledge.source_versions",
         "knowledge.retrieval_runs"} \X {UsersTable})
  \cup ({"knowledge.collection_permissions"} \X {"knowledge.collections", "auth.roles"})
  \cup ({"knowledge.sources"} \X {"knowledge.collections"})
  \cup ({"knowledge.source_versions"} \X {"knowledge.sources"})
  \cup ({"knowledge.chunks"} \X {"knowledge.source_versions"})
  \cup ({"knowledge.retrieval_hits"} \X
         {"knowledge.retrieval_runs", "knowledge.chunks", "knowledge.sources",
          "knowledge.source_versions", "knowledge.collections"})

\* The audit schema refers to no table outside it, not even to the
\* organization its rows name.
AuditTables ==
  { "audit.chain_state", "audit.executions", "audit.ledger_entries", FinalLink,
    "audit.merkle_checkpoints", "audit.execution_events" }

AuditKeys ==
  ({"audit.ledger_entries", FinalLink, "audit.execution_events"} \X {"audit.executions"})
  \cup ({FinalLink} \X {"audit.ledger_entries"})

NovaTables ==
  { "nova.external_identities", "nova.skill_runs", "social.brands",
    "social.content_items", "social.onboarding_sessions" }

\* A row that leaves one of its nullable columns empty constrains less.
NovaKeys ==
  (NovaTables \X {Organizations})
  \cup ({"nova.external_identities", "nova.skill_runs"} \X {UsersTable, Memberships})
  \cup ({"nova.skill_runs", "social.content_items", "social.onboarding_sessions"}
         \X {"audit.executions"})
  \cup ({"social.content_items"} \X
         {"social.brands", "command.approvals", "command.connector_actions"})

Tables ==
  AuthTables \cup CommandTables \cup KnowledgeTables \cup AuditTables \cup NovaTables

ForeignKeys == AuthKeys \cup CommandKeys \cup KnowledgeKeys \cup AuditKeys \cup NovaKeys

\* The tables that the foreign keys of a table name.
References == [t \in Tables |-> {p \in Tables : <<t, p>> \in ForeignKeys}]

\* ON DELETE CASCADE, and the columns that go with their row.
Cascades ==
  { <<"auth.role_permissions", "auth.roles">>,
    <<"command.skill_policy_roles", "command.skill_policies">>,
    <<"command.skill_policy_roles", "auth.roles">>,
    <<"knowledge.collection_permissions", "knowledge.collections">>,
    <<"knowledge.collection_permissions", "auth.roles">>,
    <<EnabledConnector, "command.connectors">>,
    <<FinalLink, "audit.executions">> }

\* The tables whose rows keep a row of t from being deleted, and those whose
\* rows are deleted with it.
Restricting(t) == {c \in Tables : t \in References[c] /\ <<c, t>> \notin Cascades}
Cascaded(t) == {c \in Tables : <<c, t>> \in Cascades}

\* Tables no foreign key ties to the organization, directly or not.
Untied == AuditTables

\* UPDATE and DELETE on these are rejected by a trigger.
AppendOnly == {"audit.execution_events", "audit.ledger_entries", "audit.merkle_checkpoints"}
=============================================================================
