----------------------------- MODULE DemoProofs -----------------------------
(***************************************************************************)
(* Proofs about DemoReset, for any number of scripts, requests, runs and   *)
(* inserted rows, and whichever tables the requests insert into.           *)
(*                                                                         *)
(* The first part proves what the rest uses of the schema and of the       *)
(* statements of the scripts, from their definitions.  An organization is  *)
(* whole because three sets of tables are closed under the foreign keys:   *)
(* what is committed for it, what the open wipe still sees of it, and,     *)
(* after the last DELETE, what the commit leaves.                          *)
(***************************************************************************)
EXTENDS DemoReset, FiniteSetTheorems, TLAPS

-----------------------------------------------------------------------------
(* The schema *)

\* Foreign keys relate tables of the schema (the migrations' REFERENCES).
LEMMA KeysOfTables ==
  ForeignKeys \subseteq Tables \X Tables
<1>1. AuthKeys \subseteq Tables \X Tables
  BY DEF AuthKeys, Tables, AuthTables, Organizations, UsersTable, Memberships
<1>2. CommandKeys \subseteq Tables \X Tables
  BY DEF CommandKeys, Tables, CommandTables, AuthTables, AuditTables, Organizations, UsersTable, EnabledConnector
<1>3. KnowledgeKeys \subseteq Tables \X Tables
  BY DEF KnowledgeKeys, Tables, KnowledgeTables, AuthTables, Organizations, UsersTable
<1>4. AuditKeys \subseteq AuditTables \X AuditTables
  BY DEF AuditKeys, AuditTables, FinalLink
<1>5. NovaKeys \subseteq Tables \X Tables
  BY DEF NovaKeys, Tables, NovaTables, AuthTables, AuditTables, CommandTables, Organizations, UsersTable, Memberships
<1> QED
  BY <1>1, <1>2, <1>3, <1>4, <1>5 DEF ForeignKeys, Tables

\* The audit schema names no table outside it.
LEMMA UntiedKeys ==
  ASSUME NEW c \in Untied, NEW p, <<c, p>> \in ForeignKeys
  PROVE  p \in Untied
BY DEF ForeignKeys, AuthKeys, CommandKeys, KnowledgeKeys, AuditKeys, NovaKeys, Untied,
  AuditTables, CommandTables, KnowledgeTables, NovaTables, Organizations, UsersTable, Memberships, FinalLink, EnabledConnector

\* Every table but the audit schema's, the organizations' and the users' names
\* the organization, itself or through one other table.
LEMMA TiedKeys ==
  ASSUME NEW t \in Tables \ (Untied \cup {Organizations, UsersTable})
  PROVE  \/ <<t, Organizations>> \in ForeignKeys
         \/ \E u \in Tables : <<t, u>> \in ForeignKeys /\ <<u, Organizations>> \in ForeignKeys
<1>1. CASE t \in AuthTables \ {"auth.role_permissions"}
  BY <1>1 DEF ForeignKeys, AuthKeys, AuthTables, Organizations, UsersTable, Memberships
<1>2. CASE t = "auth.role_permissions"
  BY <1>2 DEF ForeignKeys, AuthKeys, Tables, AuthTables, Organizations, UsersTable, Memberships
<1>3. CASE t \in CommandTables \ {"command.skill_policy_roles", EnabledConnector}
  BY <1>3 DEF ForeignKeys, CommandKeys
<1>4. CASE t = "command.skill_policy_roles"
  <2>1. <<t, "auth.roles">> \in ForeignKeys /\ <<"auth.roles", Organizations>> \in ForeignKeys
    BY <1>4 DEF ForeignKeys, CommandKeys, AuthKeys
  <2> QED BY <2>1, KeysOfTables
<1>5. CASE t = EnabledConnector
  <2>1. <<t, "command.connectors">> \in ForeignKeys /\ <<"command.connectors", Organizations>> \in ForeignKeys
    BY <1>5 DEF ForeignKeys, CommandKeys, CommandTables, EnabledConnector
  <2> QED BY <2>1, KeysOfTables
<1>6. CASE t \in KnowledgeTables
  BY <1>6 DEF ForeignKeys, KnowledgeKeys
<1>7. CASE t \in NovaTables
  BY <1>7 DEF ForeignKeys, NovaKeys
<1> QED
  BY <1>1, <1>2, <1>3, <1>4, <1>5, <1>6, <1>7 DEF Tables, Untied

\* What ON DELETE CASCADE deletes, and that it never starts from an organization,
\* a user or a membership.
LEMMA CascadesLeave ==
  ASSUME NEW c, NEW p, <<c, p>> \in Cascades
  PROVE  /\ c \in {"auth.role_permissions", "command.skill_policy_roles",
                   "knowledge.collection_permissions", EnabledConnector, FinalLink}
         /\ p \notin {Organizations, UsersTable, Memberships}
BY DEF Cascades, Organizations, UsersTable, Memberships, EnabledConnector, FinalLink

\* No row names a row that a cascade deletes.
LEMMA CascadedUnnamed ==
  ASSUME NEW c, NEW p, <<c, p>> \in Cascades, NEW u
  PROVE  <<u, c>> \notin ForeignKeys
BY DEF Cascades, ForeignKeys, AuthKeys, CommandKeys, KnowledgeKeys, AuditKeys, NovaKeys, 
  Organizations, UsersTable, Memberships, FinalLink, EnabledConnector
-----------------------------------------------------------------------------
(* The statements of a wipe *)

\* wipeOrganization has 35 statements before its COMMIT.
LEMMA WipeLength == Len(WipeStatements) = 35 /\ DOMAIN WipeStatements = 1..35
BY DEF WipeStatements, DELETE_ORDER, AuditOrder, CommandOrder

\* Each of them is about a table or reads the members.
LEMMA WipeTables ==
  ASSUME NEW i \in 1..35
  PROVE  WipeStatements[i] \in Tables \cup {"select_members"}
BY DEF WipeStatements, DELETE_ORDER, AuditOrder, CommandOrder, Tables, AuthTables,
  CommandTables, KnowledgeTables, AuditTables, NovaTables, Organizations, UsersTable,
  Memberships, FinalLink, EnabledConnector

\* The wipe deletes from every table that no foreign key ties to the
\* organization, and the organization itself.
LEMMA WipeCovers ==
  ASSUME NEW t \in Untied \cup {Organizations}
  PROVE  \E i \in 1..35 : WipeStatements[i] = t
<1>1. /\ WipeStatements[22] = "audit.execution_events"
      /\ WipeStatements[23] = "audit.merkle_checkpoints"
      /\ WipeStatements[24] = FinalLink
      /\ WipeStatements[25] = "audit.ledger_entries"
      /\ WipeStatements[26] = "audit.executions"
      /\ WipeStatements[27] = "audit.chain_state"
      /\ WipeStatements[35] = Organizations
  BY DEF WipeStatements, DELETE_ORDER, AuditOrder, CommandOrder
<1> QED
  BY <1>1 DEF Untied, AuditTables

\* The members are read before any membership is deleted.
LEMMA MembersReadFirst ==
  /\ \A i \in 1..35 : WipeStatements[i] = "select_members" <=> i = 29
  /\ \A i \in 1..35 : WipeStatements[i] = Memberships => i > 29
BY DEF WipeStatements, DELETE_ORDER, AuditOrder, CommandOrder, FinalLink, UsersTable,
  Organizations, Memberships

-----------------------------------------------------------------------------
(* The statements of a build *)

\* The tables a build and a request fill one by one: those tied to the
\* organization but for the ones of its users.
Tied == Tables \ (Untied \cup {Organizations, UsersTable, Memberships})

\* The commits of seed-demo.ts, one by one.
LEMMA DemoStatements ==
  /\ Len(DemoBuild) = 24 /\ DOMAIN DemoBuild = 1..24
  /\ DemoBuild[1] = Do("organization", "director")
  /\ DemoBuild[2] = Do("insert", "command.policies")
  /\ DemoBuild[3] = Do("insert", "command.policy_bindings")
  /\ DemoBuild[4] = Do("insert", "command.skill_policies")
  /\ DemoBuild[5] = Do("insert", "command.skill_policy_roles")
  /\ DemoBuild[6] = Do("insert", "command.models")
  /\ DemoBuild[7] = Do("insert", "command.connectors")
  /\ DemoBuild[8] = Do("insert", "command.skill_connectors")
  /\ DemoBuild[9] = Do("user", "officer")
  /\ DemoBuild[10] = Do("member", "officer")
  /\ DemoBuild[11] = Do("insert", "auth.roles")
  /\ DemoBuild[12] = Do("insert", "auth.role_permissions")
  /\ DemoBuild[13] = Do("insert", "command.skill_policy_roles")
  /\ DemoBuild[14] = Do("user", "analyst")
  /\ DemoBuild[15] = Do("member", "analyst")
  /\ DemoBuild[16] = Do("update", EnabledConnector)
  /\ DemoBuild[17] = Do("insert", "knowledge.collections")
  /\ DemoBuild[18] = Do("insert", "knowledge.collection_permissions")
  /\ DemoBuild[19] = Do("insert", "knowledge.sources")
  /\ DemoBuild[20] = Do("insert", "knowledge.source_versions")
  /\ DemoBuild[21] = Do("insert", "knowledge.chunks")
  /\ DemoBuild[22] = Do("insert", "social.brands")
  /\ DemoBuild[23] = Do("insert", "auth.service_credentials")
  /\ DemoBuild[24] = Do("file", "verity-demo-seed.json")
BY DEF DemoBuild, SeedCommand, Inserts, NewUser

\* The commits of seed-dev.ts, one by one.
LEMMA DevStatements ==
  /\ Len(DevBuild) = 14 /\ DOMAIN DevBuild = 1..14
  /\ DevBuild[1] = Do("organization", "admin")
  /\ DevBuild[2] = Do("insert", "command.policies")
  /\ DevBuild[3] = Do("insert", "command.policy_bindings")
  /\ DevBuild[4] = Do("insert", "command.skill_policies")
  /\ DevBuild[5] = Do("insert", "command.skill_policy_roles")
  /\ DevBuild[6] = Do("insert", "command.models")
  /\ DevBuild[7] = Do("insert", "command.connectors")
  /\ DevBuild[8] = Do("insert", "command.skill_connectors")
  /\ DevBuild[9] = Do("user", "member")
  /\ DevBuild[10] = Do("member", "member")
  /\ DevBuild[11] = Do("insert", "social.brands")
  /\ DevBuild[12] = Do("update", EnabledConnector)
  /\ DevBuild[13] = Do("insert", "auth.service_credentials")
  /\ DevBuild[14] = Do("file", "verity-dev-seed.json")
BY DEF DevBuild, SeedCommand, Inserts, NewUser

\* The tables that name the organization.
LEMMA TiedTables ==
  (CommandTables \cup KnowledgeTables \cup NovaTables
   \cup {"auth.roles", "auth.role_permissions", "auth.service_credentials"}) \subseteq Tied
BY DEF Tied, Tables, AuthTables, CommandTables, KnowledgeTables, AuditTables, NovaTables, Untied,
 Organizations, UsersTable, Memberships, FinalLink, EnabledConnector

StatementKinds == {"organization", "insert", "update", "user", "member", "file"}
\* How the statement at i of a build stands among the others.
Sound(b, i) ==
  /\ b[i].op \in StatementKinds
  /\ b[i].op \in {"insert", "update"} => b[i].what \in Tied
  /\ b[i].op = "organization" <=> i = 1
  /\ b[i].op = "file" <=> i = Len(b)
  /\ b[i].op = "user" => /\ i + 2 <= Len(b) 
                                /\ b[i].what \in Addresses
                                /\ b[i + 1] = Do("member", b[i].what) 
                                /\ b[i + 2].op # "member"
  /\ b[i].op = "member" => i > 1 /\ b[i - 1] = Do("user", b[i].what)

\* seed-demo.ts creates the organization first and each user before the membership.
LEMMA DemoSound ==
  ASSUME NEW i \in 1..Len(DemoBuild) PROVE Sound(DemoBuild, i)
<1>1. i \in 1..24
  BY DemoStatements
<1>2. CASE i \in {1, 9, 10, 14, 15, 24}
  BY <1>2, DemoStatements DEF Sound, Do, Addresses, StatementKinds
<1>3. CASE i \in 1..24 \ {1, 9, 10, 14, 15, 24}
  <2>1. DemoBuild[i].op \in {"insert", "update"}
    BY <1>3, DemoStatements DEF Do
  <2>2. DemoBuild[i].what \in CommandTables \cup KnowledgeTables \cup NovaTables
   \cup {"auth.roles", "auth.role_permissions", "auth.service_credentials"}
    BY <1>3, DemoStatements DEF Do, CommandTables, KnowledgeTables, NovaTables
  <2> QED
    BY <1>3, <2>1, <2>2, TiedTables, DemoStatements DEF Sound, StatementKinds
<1> QED
  BY <1>1, <1>2, <1>3

\* seed-dev.ts does so too.
LEMMA DevSound ==
  ASSUME NEW i \in 1..Len(DevBuild) PROVE Sound(DevBuild, i)
<1>1. i \in 1..14
  BY DevStatements
<1>2. CASE i \in {1, 9, 10, 14}
  BY <1>2, DevStatements DEF Sound, Do, Addresses, StatementKinds
<1>3. CASE i \in 1..14 \ {1, 9, 10, 14}
  <2>1. DevBuild[i].op \in {"insert", "update"}
    BY <1>3, DevStatements DEF Do
  <2>2. DevBuild[i].what \in CommandTables \cup KnowledgeTables \cup NovaTables
   \cup {"auth.roles", "auth.role_permissions", "auth.service_credentials"}
    BY <1>3, DevStatements DEF Do, CommandTables, KnowledgeTables, NovaTables
  <2> QED
    BY <1>3, <2>1, <2>2, TiedTables, DevStatements DEF Sound, StatementKinds
<1> QED
  BY <1>1, <1>2, <1>3

\* So does the script that runs, whichever it is.
LEMMA BuildSound ==
  /\ Len(Build) \in 14..24
  /\ \A i \in 1..Len(Build) : Sound(Build, i)
<1>1. Len(DemoBuild) = 24 /\ Len(DevBuild) = 14
  BY DemoStatements, DevStatements
<1>2. CASE Build = DemoBuild
  <2>1. \A i \in 1..Len(DemoBuild) : Sound(DemoBuild, i)
    BY DemoSound
  <2>2. Len(DemoBuild) \in 14..24
    BY <1>1
  <2> QED
    BY <1>2, <2>1, <2>2
<1>3. CASE Build = DevBuild
  <2>1. \A i \in 1..Len(DevBuild) : Sound(DevBuild, i)
    BY DevSound
  <2>2. Len(DevBuild) \in 14..24
    BY <1>1
  <2> QED
    BY <1>3, <2>1, <2>2
<1> QED
  BY <1>2, <1>3 DEF Build

\* A script that finds a development tenant goes on with its member.
LEMMA DevContinues == AfterSeedCommand = 9 /\ DevBuild[9].op = "user"
BY DevStatements DEF AfterSeedCommand, SeedCommand, Inserts, Do

-----------------------------------------------------------------------------
(* Types *)

\* Scripts that may still draw an organization id.
Drawing == {s \in Scripts : pc[s] = "wipe" \/ (pc[s] = "build" /\ at[s] = 1)}

\* Where a script is, and that every run draws one id at most.
InItsScript(s) ==
  /\ pc[s] = "wipe" => at[s] \in 1..36 /\ target[s] \in Orgs
  /\ pc[s] = "build" => at[s] \in 1..Len(Build)
  /\ pc[s] = "build" /\ at[s] > 1 => target[s] \in Orgs

Drawn ==
  /\ runs \in 0..MaxRuns
  /\ IsFiniteSet(Drawing) /\ drawn + Cardinality(Drawing) <= runs + 1

Typed == TypeOK /\ Drawn /\ \A s \in Scripts : InItsScript(s)

\* What one script does leaves the others where they are.
LEMMA DrawingAfter ==
  ASSUME Typed, NEW s \in Scripts, TypeOK',
         \A u \in Scripts \ {s} : pc'[u] = pc[u] /\ at'[u] = at[u]
  PROVE  /\ s \in Drawing' => Drawing' = Drawing \cup {s}
         /\ s \notin Drawing' => Drawing' = Drawing \ {s}
BY DEF Drawing

\* The organizations drawn so far, and those the scripts under way may still draw,
\* are no more than the runs.
LEMMA DrawnAfter ==
  ASSUME Typed, NEW s \in Scripts, TypeOK', runs' \in 0..MaxRuns,
         \A u \in Scripts \ {s} : pc'[u] = pc[u] /\ at'[u] = at[u],
         \/ drawn' = drawn /\ runs' = runs + 1
         \/ drawn' = drawn /\ runs' = runs /\ (s \in Drawing' => s \in Drawing)
         \/ drawn' = drawn + 1 /\ runs' = runs /\ s \in Drawing /\ s \notin Drawing'
  PROVE  Drawn'
<1>1. IsFiniteSet(Drawing) /\ Cardinality(Drawing) \in Nat /\ drawn \in Nat /\ runs \in Nat
  BY FS_CardinalityType, MaxRunsAssumption DEF Typed, Drawn, TypeOK
<1>2. s \in Drawing => /\ Drawing \cup {s} = Drawing
                       /\ IsFiniteSet(Drawing \ {s})
                       /\ Cardinality(Drawing \ {s}) = Cardinality(Drawing) - 1
  BY <1>1, FS_RemoveElement
<1>3. s \notin Drawing => /\ Drawing \ {s} = Drawing
                          /\ IsFiniteSet(Drawing \cup {s})
                          /\ Cardinality(Drawing \cup {s}) = Cardinality(Drawing) + 1
  BY <1>1, FS_AddElement
<1>7. drawn + Cardinality(Drawing) <= runs + 1
  BY DEF Typed, Drawn
<1>4. /\ IsFiniteSet(Drawing')
      /\ s \in Drawing /\ s \in Drawing' => Cardinality(Drawing') = Cardinality(Drawing)
      /\ s \in Drawing /\ s \notin Drawing' => Cardinality(Drawing') = Cardinality(Drawing) - 1
      /\ s \notin Drawing /\ s \in Drawing' => Cardinality(Drawing') = Cardinality(Drawing) + 1
      /\ s \notin Drawing /\ s \notin Drawing' => Cardinality(Drawing') = Cardinality(Drawing)
  BY <1>1, <1>2, <1>3, DrawingAfter
<1>5. drawn' + Cardinality(Drawing') <= runs' + 1
  BY <1>1, <1>4, <1>7
<1> QED
  BY <1>4, <1>5 DEF Drawn

\* A step of one script keeps the types if it leaves the others alone and goes on
\* in its own script.
LEMMA TypedAfter ==
  ASSUME Typed, NEW s \in Scripts, TypeOK', profile' = profile, runs' \in 0..MaxRuns,
         \A u \in Scripts \ {s} : pc'[u] = pc[u] /\ at'[u] = at[u] /\ target'[u] = target[u],
         \/ drawn' = drawn /\ runs' = runs + 1
         \/ drawn' = drawn /\ runs' = runs /\ (s \in Drawing' => s \in Drawing)
         \/ drawn' = drawn + 1 /\ runs' = runs /\ s \in Drawing /\ s \notin Drawing',
         InItsScript(s)'
  PROVE  Typed'
<1>1. Drawn'
  BY DrawnAfter
<1>2. Build' = Build
  BY DEF Build
<1>3. ASSUME NEW u \in Scripts \ {s} PROVE InItsScript(u)'
  BY <1>2, <1>3 DEF Typed, InItsScript
<1> QED
  BY <1>1, <1>3 DEF Typed

\* A start.
LEMMA StartTypes ==
  ASSUME Typed, NEW s \in Scripts, NEW label \in {"wipe", "build"},
         NEW statement \in 1..40, NEW o \in Orgs \cup {0}, Start(s, label, statement, o),
         UNCHANGED wipeVars,
         label = "wipe" => statement = 1 /\ o \in Orgs,
         label = "build" => statement \in 1..Len(Build) /\ (statement > 1 => o \in Orgs)
  PROVE  Typed'
<1>1. /\ profile' = profile /\ rows' = rows /\ account' = account /\ drawn' = drawn
      /\ seedFile' = seedFile /\ request' = request
      /\ gone' = gone /\ seen' = seen /\ dropped' = dropped
  BY DEF Start, tenantVars, requestVars, wipeVars
<1>2. /\ pc' = [pc EXCEPT ![s] = label] /\ at' = [at EXCEPT ![s] = statement]
      /\ target' = [target EXCEPT ![s] = o] /\ result' = [result EXCEPT ![s] = "none"]
      /\ pc[s] = "idle" /\ runs < MaxRuns /\ runs' = runs + 1
  BY DEF Start
<1>3. Wiping \subseteq Wiping'
  BY <1>2 DEF Wiping, Typed, TypeOK
<1>4. TypeOK'
  BY <1>1, <1>2, <1>3 DEF Typed, TypeOK
<1>5. runs' \in 0..MaxRuns
  BY <1>2, MaxRunsAssumption DEF Typed, Drawn
<1>6. Build' = Build
  BY <1>1 DEF Build
<1>7. pc'[s] = label /\ at'[s] = statement /\ target'[s] = o
  BY <1>2 DEF Typed, TypeOK
<1>8. InItsScript(s)'
  BY <1>6, <1>7 DEF InItsScript
<1>9. \A u \in Scripts \ {s} : pc'[u] = pc[u] /\ at'[u] = at[u] /\ target'[u] = target[u]
  BY <1>2 DEF Typed, TypeOK
<1> QED
  BY <1>1, <1>2, <1>4, <1>5, <1>8, <1>9, TypedAfter

\* A script that ends.
LEMMA EndTypes ==
  ASSUME Typed, NEW s \in Scripts, NEW how \in {"none", "ok", "failed"}, End(s, how),
         UNCHANGED <<profile, tenantVars, requestVars>>, seedFile' \in Orgs \cup {0},
         NoWipe \/ (pc[s] # "wipe" /\ UNCHANGED wipeVars)
  PROVE  Typed'
<1>1. /\ profile' = profile /\ rows' = rows /\ account' = account /\ drawn' = drawn
      /\ request' = request /\ runs' = runs
      /\ pc' = [pc EXCEPT ![s] = "idle"] /\ at' = [at EXCEPT ![s] = 1]
      /\ result' = [result EXCEPT ![s] = how]
  BY DEF End, tenantVars, requestVars
<1>2. /\ gone' \subseteq Tables /\ seen' \subseteq Addresses /\ dropped' \subseteq Addresses
      /\ Wiping' = {} => gone' = {} /\ dropped' = {}
  <2>1. CASE NoWipe
    BY <2>1 DEF NoWipe
  <2>2. CASE pc[s] # "wipe" /\ UNCHANGED wipeVars
    <3>1. Wiping' = Wiping
      BY <1>1, <2>2 DEF Wiping, Typed, TypeOK
    <3> QED
      BY <2>2, <3>1 DEF wipeVars, Typed, TypeOK
  <2> QED
    BY <2>1, <2>2
<1>3. target' \in [Scripts -> Orgs \cup {0}]
  BY DEF End, Typed, TypeOK
<1>4. TypeOK'
  <2>1. /\ pc' \in [Scripts -> {"idle", "wipe", "build"}] /\ at' \in [Scripts -> 1..40]
        /\ result' \in [Scripts -> {"none", "ok", "failed"}]
    BY <1>1 DEF Typed, TypeOK
  <2> QED
    BY <1>1, <1>2, <1>3, <2>1 DEF Typed, TypeOK
<1>5. InItsScript(s)' /\ s \notin Drawing'
  BY <1>1 DEF InItsScript, Drawing, Typed, TypeOK
<1>6. \A u \in Scripts \ {s} : pc'[u] = pc[u] /\ at'[u] = at[u] /\ target'[u] = target[u]
  BY <1>1 DEF End, Typed, TypeOK
<1>7. runs' \in 0..MaxRuns
  BY <1>1 DEF Typed, Drawn
<1> QED
  BY <1>1, <1>4, <1>5, <1>6, <1>7, TypedAfter

\* A step that stays in its script.
LEMMA AdvanceTypes ==
  ASSUME Typed, NEW s \in Scripts, NEW n \in {1, 2}, at' = [at EXCEPT ![s] = @ + n],
         UNCHANGED <<profile, drawn, seedFile, pc, target, result, runs>>,
         request' \in [Requests -> Orgs \cup {0}],
         rows' \in [Orgs -> SUBSET (Tables \ {UsersTable, Memberships})],
         account' \in [Addresses -> Orgs \cup {NoUser, Stray}],
         gone' \subseteq Tables, seen' \subseteq Addresses, dropped' \subseteq Addresses,
         Wiping = {} => gone' = {} /\ dropped' = {},
         \/ pc[s] = "wipe" /\ at[s] + n \in 1..36
         \/ pc[s] = "build" /\ at[s] + n \in 1..Len(Build) /\ target[s] \in Orgs
  PROVE  Typed'
<1>1. at[s] \in 1..40 /\ at'[s] = at[s] + n /\ at[s] + n > 1 /\ at[s] + n \in 1..40
  <2>1. at[s] \in 1..40 /\ at'[s] = at[s] + n
    BY DEF Typed, TypeOK
  <2>2. Len(Build) \in 14..24
    BY BuildSound
  <2>3. at[s] + n \in 1..36 \/ at[s] + n \in 1..Len(Build)
    OBVIOUS
  <2>4. ASSUME NEW i \in 1..40, NEW k \in {1, 2}, NEW m \in 14..24,
               i + k \in 1..36 \/ i + k \in 1..m
        PROVE  i + k > 1 /\ i + k \in 1..40
    BY <2>4
  <2> QED
    BY <2>1, <2>2, <2>3, <2>4
<1>2. at' \in [Scripts -> 1..40]
  <2>1. at \in [Scripts -> 1..40]
    BY DEF Typed, TypeOK
  <2> QED
    BY <1>1, <2>1
<1>3. Wiping' = Wiping
  BY DEF Wiping
<1>4. TypeOK'
  BY <1>2, <1>3 DEF Typed, TypeOK
<1>5. Build' = Build
  BY DEF Build
<1>6. InItsScript(s)' /\ (s \in Drawing' => s \in Drawing)
  BY <1>1, <1>5 DEF InItsScript, Drawing, Typed, TypeOK
<1>7. \A u \in Scripts \ {s} : pc'[u] = pc[u] /\ at'[u] = at[u] /\ target'[u] = target[u]
  BY DEF Typed, TypeOK
<1>8. runs' \in 0..MaxRuns
  BY DEF Typed, Drawn
<1> QED
  BY <1>4, <1>6, <1>7, <1>8, TypedAfter

\* What a statement of a script is about.
LEMMA WipeStep ==
  ASSUME Typed, NEW s \in Scripts, pc[s] = "wipe", at[s] \in DOMAIN WipeStatements
  PROVE  /\ at[s] \in 1..35 /\ target[s] \in Orgs
         /\ Statement(s) \in Tables \cup {"select_members"}
         /\ Statement(s) = "select_members" <=> at[s] = 29
         /\ Statement(s) = Memberships => at[s] > 29
BY WipeLength, WipeTables, MembersReadFirst DEF Typed, InItsScript, Statement

\* A script that builds is at a statement of its build.
LEMMA BuildStep ==
  ASSUME Typed, NEW s \in Scripts, pc[s] = "build"
  PROVE  /\ at[s] \in 1..Len(Build) /\ at[s] \in Nat /\ Len(Build) \in 14..24
         /\ Sound(Build, at[s])
         /\ Step(s).op # "organization" => target[s] \in Orgs
         /\ Step(s).op # "file" => at[s] + 1 \in 1..Len(Build)
         /\ Step(s).op = "user" => at[s] + 2 \in 1..Len(Build)
<1>1. at[s] \in 1..Len(Build) /\ at[s] \in Nat /\ Len(Build) \in 14..24 /\ Sound(Build, at[s])
  BY BuildSound DEF Typed, InItsScript
<1>2. Step(s).op # "organization" => target[s] \in Orgs
  BY <1>1 DEF Typed, InItsScript, Step, Sound
<1>3. Step(s).op # "file" => at[s] # Len(Build)
  BY <1>1 DEF Step, Sound
<1>4. Step(s).op = "user" => at[s] + 2 <= Len(Build)
  BY <1>1 DEF Step, Sound
<1> QED
  BY <1>1, <1>2, <1>3, <1>4

\* An insert of a row.
LEMMA AddRowTypes ==
  ASSUME Typed, NEW o \in Orgs, NEW t \in Tables \ {UsersTable, Memberships}, AddRow(o, t)
  PROVE  /\ rows' \in [Orgs -> SUBSET (Tables \ {UsersTable, Memberships})]
         /\ gone' \subseteq gone
BY DEF AddRow, Returned, Typed, TypeOK

\* Users and memberships are counted by address, not as rows.
LEMMA TiedRows == Tied \subseteq Tables \ {UsersTable, Memberships, Organizations}
BY DEF Tied

\* The parts of Typed that most steps need.
LEMMA SmallTypes ==
  ASSUME Typed
  PROVE  /\ gone \subseteq Tables /\ seen \subseteq Addresses /\ dropped \subseteq Addresses
         /\ Wiping = {} => gone = {} /\ dropped = {}
         /\ rows \in [Orgs -> SUBSET (Tables \ {UsersTable, Memberships})]
         /\ account \in [Addresses -> Orgs \cup {NoUser, Stray}]
         /\ request \in [Requests -> Orgs \cup {0}]
         /\ seedFile \in Orgs \cup {0}
         /\ at \in [Scripts -> 1..40] /\ target \in [Scripts -> Orgs \cup {0}]
         /\ pc \in [Scripts -> {"idle", "wipe", "build"}]
BY DEF Typed, TypeOK

\* A DELETE of the wipe, or its read of the members, keeps the types.
LEMMA DeleteTypes ==
  ASSUME Typed, NEW s \in Scripts, Delete(s) \/ SelectMembers(s)
  PROVE  Typed'
<1>1. /\ pc[s] = "wipe" /\ at[s] \in DOMAIN WipeStatements /\ Advance(s)
      /\ UNCHANGED <<profile, rows, account, drawn, seedFile, request>>
  BY DEF Delete, SelectMembers, tenantVars, requestVars
<1>2. at[s] + 1 \in 1..36
  BY <1>1, WipeStep
<1>3. gone' \subseteq Tables /\ seen' \subseteq Addresses /\ dropped' \subseteq Addresses
  BY SmallTypes DEF Delete, SelectMembers, Cascaded, MembersOf
<1>4. Wiping # {}
  BY <1>1 DEF Wiping
<1> QED
  BY <1>1, <1>2, <1>3, <1>4, SmallTypes, AdvanceTypes DEF Advance

\* The COMMIT of the wipe keeps the types.
LEMMA CommitWipeTypes ==
  ASSUME Typed, NEW s \in Scripts, CommitWipe(s)
  PROVE  Typed'
<1>1. /\ pc[s] = "wipe" /\ pc' = [pc EXCEPT ![s] = "build"] /\ at' = [at EXCEPT ![s] = 1]
      /\ gone' = {} /\ seen' = {} /\ dropped' = {}
      /\ UNCHANGED <<profile, drawn, target, result, runs, seedFile, request>>
  BY DEF CommitWipe, NoWipe, requestVars
<1>2. target[s] \in Orgs
  BY <1>1 DEF Typed, InItsScript
<1>3. rows' \in [Orgs -> SUBSET (Tables \ {UsersTable, Memberships})]
  BY <1>2, SmallTypes DEF CommitWipe
<1>4. account' \in [Addresses -> Orgs \cup {NoUser, Stray}]
  BY SmallTypes DEF CommitWipe
<1>5. pc' \in [Scripts -> {"idle", "wipe", "build"}] /\ at' \in [Scripts -> 1..40]
  BY <1>1, SmallTypes
<1>6. TypeOK'
  BY <1>1, <1>3, <1>4, <1>5 DEF Typed, TypeOK
<1>7. InItsScript(s)' /\ s \in Drawing
  <2>1. Build' = Build /\ Len(Build) \in 14..24
    BY <1>1, BuildSound DEF Build
  <2>2. pc'[s] = "build" /\ at'[s] = 1
    BY <1>1, SmallTypes
  <2>3. 1 \in 1..Len(Build)
    <3>1. \A m \in 14..24 : 1 \in 1..m
      OBVIOUS
    <3> QED
      BY <2>1, <3>1
  <2>4. InItsScript(s)'
    BY <2>1, <2>2, <2>3 DEF InItsScript
  <2> QED
    BY <1>1, <2>4 DEF Drawing
<1>8. \A u \in Scripts \ {s} : pc'[u] = pc[u] /\ at'[u] = at[u] /\ target'[u] = target[u]
  BY <1>1, SmallTypes
<1>9. runs' \in 0..MaxRuns
  BY <1>1 DEF Typed, Drawn
<1> QED
  BY <1>1, <1>6, <1>7, <1>8, <1>9, TypedAfter

\* createOrganization draws an organization that nobody has.
LEMMA CreateOrganizationTypes ==
  ASSUME Typed, NEW s \in Scripts, CreateOrganization(s)
  PROVE  Typed' /\ drawn + 1 \in Orgs
<1>1. /\ pc[s] = "build" /\ Step(s).op = "organization"
      /\ drawn' = drawn + 1 /\ rows' = [rows EXCEPT ![drawn + 1] = Created]
      /\ account' = [account EXCEPT ![First] = drawn + 1]
      /\ target' = [target EXCEPT ![s] = drawn + 1] /\ at' = [at EXCEPT ![s] = @ + 1]
      /\ UNCHANGED <<profile, gone, seen, dropped, pc, result, runs, seedFile, request>>
  BY DEF CreateOrganization, Building, wipeVars, requestVars
<1>2. at[s] = 1 /\ 2 \in 1..Len(Build)
  BY <1>1, BuildStep DEF Sound, Step
<1>3. s \in Drawing
  BY <1>1, <1>2 DEF Drawing
<1>4. drawn + 1 \in Orgs
  <2>1. IsFiniteSet(Drawing) /\ drawn \in Nat /\ runs \in 0..MaxRuns
        /\ drawn + Cardinality(Drawing) <= runs + 1
    BY DEF Typed, Drawn, TypeOK
  <2>2. Cardinality(Drawing) \in Nat /\ Cardinality(Drawing) # 0
    BY <1>3, <2>1, FS_CardinalityType, FS_EmptySet
  <2> QED
    BY <2>1, <2>2, MaxRunsAssumption DEF Orgs
<1>5. at'[s] = 2 /\ at' \in [Scripts -> 1..40]
  <2>1. at' = [at EXCEPT ![s] = 2] /\ at \in [Scripts -> 1..40]
    BY <1>1, <1>2, SmallTypes
  <2> QED
    BY <2>1
<1>6. Created \subseteq Tables \ {UsersTable, Memberships}
  BY DEF Created, Tables, AuthTables, UsersTable, Memberships, Organizations
<1>7. /\ rows' \in [Orgs -> SUBSET (Tables \ {UsersTable, Memberships})]
      /\ account' \in [Addresses -> Orgs \cup {NoUser, Stray}]
      /\ target' \in [Scripts -> Orgs \cup {0}]
      /\ drawn' \in 0..(MaxRuns + 1)
  <2>1. drawn' \in 0..(MaxRuns + 1)
    BY <1>1, <1>4, MaxRunsAssumption DEF Orgs
  <2>2. target' \in [Scripts -> Orgs \cup {0}]
    BY <1>1, <1>4, SmallTypes
  <2>3. rows' \in [Orgs -> SUBSET (Tables \ {UsersTable, Memberships})]
    BY <1>1, <1>4, <1>6, SmallTypes
  <2>4. account' \in [Addresses -> Orgs \cup {NoUser, Stray}]
    BY <1>1, <1>4, SmallTypes
  <2> QED
    BY <2>1, <2>2, <2>3, <2>4
<1>8. Wiping' = Wiping
  BY <1>1 DEF Wiping
<1>9. TypeOK'
  BY <1>1, <1>5, <1>7, <1>8 DEF Typed, TypeOK
<1>10. InItsScript(s)' /\ s \notin Drawing'
  <2>1. Build' = Build
    BY <1>1 DEF Build
  <2>2. pc'[s] = "build" /\ target'[s] \in Orgs
    BY <1>1, <1>4, SmallTypes
  <2> QED
    BY <1>2, <1>5, <2>1, <2>2 DEF InItsScript, Drawing
<1>11. \A u \in Scripts \ {s} : pc'[u] = pc[u] /\ at'[u] = at[u] /\ target'[u] = target[u]
  BY <1>1, SmallTypes
<1>12. runs' \in 0..MaxRuns
  BY <1>1 DEF Typed, Drawn
<1> QED
  BY <1>1, <1>3, <1>4, <1>9, <1>10, <1>11, <1>12, TypedAfter

\* The other statements of a build that do not end it.
LEMMA BuildTypes ==
  ASSUME Typed, NEW s \in Scripts,
         InsertRow(s) \/ UpdateRow(s) \/ SkipUser(s) \/ CreateUser(s) \/ CreateMembership(s)
  PROVE  Typed'
<1>1. pc[s] = "build" /\ UNCHANGED <<profile, drawn, seedFile, request, pc, target, result, runs>>
  BY DEF InsertRow, UpdateRow, SkipUser, CreateUser, CreateMembership, Building, Advance,
         requestVars, tenantVars
<1>2. Step(s).op \notin {"organization", "file"}
  BY DEF InsertRow, UpdateRow, SkipUser, CreateUser, CreateMembership, Building
<1>3. target[s] \in Orgs /\ at[s] + 1 \in 1..Len(Build)
  BY <1>1, <1>2, BuildStep
<1>4. /\ Step(s).op \in {"insert", "update"} => Step(s).what \in Tables \ {UsersTable, Memberships}
      /\ Step(s).op = "user" => Step(s).what \in Addresses /\ at[s] + 2 \in 1..Len(Build)
  BY <1>1, BuildStep, TiedRows DEF Sound, Step
<1>5. CASE InsertRow(s) \/ UpdateRow(s)
  <2>1. /\ rows' \in [Orgs -> SUBSET (Tables \ {UsersTable, Memberships})]
        /\ gone' \subseteq gone /\ UNCHANGED <<account, seen, dropped>> /\ Advance(s)
    BY <1>3, <1>4, <1>5, AddRowTypes, SmallTypes DEF InsertRow, UpdateRow, Building
  <2> QED
    BY <1>1, <1>3, <2>1, SmallTypes, AdvanceTypes DEF Advance
<1>6. CASE SkipUser(s)
  <2>1. /\ UNCHANGED <<rows, account, gone, seen, dropped>> /\ at' = [at EXCEPT ![s] = @ + 2]
        /\ at[s] + 2 \in 1..Len(Build)
    BY <1>4, <1>6 DEF SkipUser, Building, tenantVars, wipeVars
  <2> QED
    BY <1>1, <1>3, <2>1, SmallTypes, AdvanceTypes
<1>7. CASE CreateUser(s)
  <2>1. /\ UNCHANGED <<rows, gone, seen, dropped>> /\ Advance(s)
        /\ account' = [account EXCEPT ![Step(s).what] = Stray]
    BY <1>7 DEF CreateUser, wipeVars
  <2>2. account' \in [Addresses -> Orgs \cup {NoUser, Stray}]
    BY <2>1, SmallTypes
  <2> QED
    BY <1>1, <1>3, <2>1, <2>2, SmallTypes, AdvanceTypes DEF Advance
<1>8. CASE CreateMembership(s)
  <2>1. /\ UNCHANGED <<rows, seen, dropped>> /\ Advance(s) /\ gone' \subseteq gone
        /\ account' = [account EXCEPT ![Step(s).what] = target[s]]
    BY <1>8 DEF CreateMembership, Returned
  <2>2. account' \in [Addresses -> Orgs \cup {NoUser, Stray}]
    BY <1>3, <2>1, SmallTypes
  <2> QED
    BY <1>1, <1>3, <2>1, <2>2, SmallTypes, AdvanceTypes DEF Advance
<1> QED
  BY <1>5, <1>6, <1>7, <1>8

\* The steps of a request change nothing of a script.
LEMMA RequestTypes ==
  ASSUME Typed, NEW q \in Requests,
         \/ \E o \in Orgs : BeginRequest(q, o)
         \/ \E t \in RowTables : InsertByRequest(q, t)
         \/ EndRequest(q)
  PROVE  Typed'
<1>1. UNCHANGED <<profile, account, drawn, seen, dropped, pc, at, target, result, runs, seedFile>>
  BY DEF BeginRequest, InsertByRequest, EndRequest, tenantVars, wipeVars, scriptVars
<1>2. request' \in [Requests -> Orgs \cup {0}]
  BY SmallTypes DEF BeginRequest, InsertByRequest, EndRequest
<1>3. rows' \in [Orgs -> SUBSET (Tables \ {UsersTable, Memberships})] /\ gone' \subseteq gone
  <2>1. ASSUME NEW t \in RowTables, InsertByRequest(q, t)
        PROVE  rows' \in [Orgs -> SUBSET (Tables \ {UsersTable, Memberships})] /\ gone' \subseteq gone
    <3>1. request[q] \in Orgs /\ t \in Tables \ {UsersTable, Memberships}
      BY <2>1, RowTablesAssumption, SmallTypes DEF InsertByRequest
    <3> QED
      BY <2>1, <3>1, AddRowTypes DEF InsertByRequest
  <2>2. (\E o \in Orgs : BeginRequest(q, o)) \/ EndRequest(q) => UNCHANGED <<rows, gone>>
    BY DEF BeginRequest, EndRequest, tenantVars, wipeVars
  <2> QED
    BY <2>1, <2>2, SmallTypes
<1>4. Wiping' = Wiping /\ Drawing' = Drawing /\ Build' = Build
  BY <1>1 DEF Wiping, Drawing, Build
<1>5. TypeOK'
  BY <1>1, <1>2, <1>3, <1>4 DEF Typed, TypeOK
<1>6. Drawn' /\ \A s \in Scripts : InItsScript(s)'
  BY <1>1, <1>4 DEF Typed, Drawn, InItsScript
<1> QED
  BY <1>5, <1>6 DEF Typed

\* A script that starts is at its first statement, or past what it skips.
LEMMA StartsTypes ==
  ASSUME Typed, NEW s \in Scripts,
         (\E o \in Orgs : StartWipe(s, o)) \/ StartDemo(s) \/ StartDev(s)
  PROVE  Typed'
<1>1. 1 \in 1..40 /\ 9 \in 1..40 /\ 1 \in 1..Len(Build)
  <2>1. \A m \in 14..24 : 1 \in 1..m
    OBVIOUS
  <2> QED
    BY <2>1, BuildSound
<1>2. ASSUME NEW o \in Orgs, StartWipe(s, o) PROVE Typed'
  BY <1>1, <1>2, StartTypes DEF StartWipe
<1>3. CASE StartDemo(s)
  BY <1>1, <1>3, StartTypes DEF StartDemo
<1>4. CASE StartDev(s)
  <2>1. CASE account["admin"] \in Orgs
    <3>1. AfterSeedCommand = 9 /\ 9 \in 1..Len(Build)
      <4>1. Build = DevBuild
        BY <1>4 DEF StartDev, Build
      <4>2. Len(DevBuild) = 14
        BY DevStatements
      <4> QED
        BY <4>1, <4>2, DevContinues
    <3>2. Start(s, "build", 9, account["admin"]) /\ UNCHANGED wipeVars
      BY <1>4, <2>1, <3>1 DEF StartDev
    <3> QED
      BY <1>1, <2>1, <3>1, <3>2, StartTypes
  <2>2. CASE account["admin"] \notin Orgs
    <3>1. Start(s, "build", 1, 0) /\ UNCHANGED wipeVars
      BY <1>4, <2>2 DEF StartDev
    <3> QED
      BY <1>1, <3>1, StartTypes
  <2> QED
    BY <2>1, <2>2
<1> QED
  BY <1>2, <1>3, <1>4

\* A script that ends or dies leaves no wipe open.
LEMMA EndsTypes ==
  ASSUME Typed, NEW s \in Scripts,
         WipeFails(s) \/ BuildFails(s) \/ WriteSeedFile(s) \/ Die(s)
  PROVE  Typed'
<1>1. CASE WipeFails(s)
  BY <1>1, EndTypes, SmallTypes DEF WipeFails
<1>2. CASE BuildFails(s)
  <2>1. pc[s] = "build"
    BY <1>2 DEF BuildFails, Rejected, Building
  <2> QED
    BY <1>2, <2>1, EndTypes, SmallTypes DEF BuildFails
<1>3. CASE WriteSeedFile(s)
  <2>1. pc[s] = "build" /\ target[s] \in Orgs \cup {0}
    BY <1>3, SmallTypes DEF WriteSeedFile, Building
  <2> QED
    BY <1>3, <2>1, EndTypes, SmallTypes DEF WriteSeedFile
<1>4. CASE Die(s)
  BY <1>4, EndTypes, SmallTypes DEF Die
<1> QED
  BY <1>1, <1>2, <1>3, <1>4

\* A database with the demo, the development tenant or nothing.
LEMMA InitTypes ==
  ASSUME Init
  PROVE  Typed
<1>1. PICK full \in (IF profile = "demo" THEN BOOLEAN ELSE {FALSE}) :
         /\ rows = [o \in Orgs |-> IF full /\ o = 1 THEN Tables \ {UsersTable, Memberships}
                                   ELSE {}]
         /\ account = [a \in Addresses |-> IF full /\ a \in People THEN 1 ELSE NoUser]
         /\ drawn = IF full THEN 1 ELSE 0
         /\ seedFile = IF full THEN 1 ELSE 0
  BY DEF Init
<1>2. 1 \in Orgs /\ drawn \in 0..1 /\ 1 \in 0..(MaxRuns + 1) /\ 0 \in 0..(MaxRuns + 1)
  BY <1>1, MaxRunsAssumption DEF Orgs
<1>3. TypeOK
  <2>1. /\ rows \in [Orgs -> SUBSET (Tables \ {UsersTable, Memberships})]
        /\ account \in [Addresses -> Orgs \cup {NoUser, Stray}]
        /\ drawn \in 0..(MaxRuns + 1) /\ seedFile \in Orgs \cup {0}
    BY <1>1, <1>2
  <2> QED
    BY <2>1 DEF Init, TypeOK
<1>4. Drawing = {}
  BY DEF Init, Drawing
<1>5. Drawn
  BY <1>2, <1>4, FS_EmptySet, MaxRunsAssumption DEF Drawn, Init
<1>6. \A s \in Scripts : InItsScript(s)
  BY DEF Init, InItsScript
<1> QED
  BY <1>3, <1>5, <1>6 DEF Typed

\* Every step keeps the types.
LEMMA TypedStep ==
  ASSUME Typed, [Next]_vars
  PROVE  Typed'
<1>1. ASSUME NEW s \in Scripts,
             \/ \E o \in Orgs : StartWipe(s, o)
             \/ StartDemo(s) \/ StartDev(s) \/ Delete(s) \/ SelectMembers(s) \/ WipeFails(s)
             \/ CommitWipe(s) \/ CreateOrganization(s) \/ InsertRow(s) \/ UpdateRow(s)
             \/ SkipUser(s) \/ CreateUser(s) \/ CreateMembership(s) \/ BuildFails(s)
             \/ WriteSeedFile(s) \/ Die(s)
      PROVE  Typed'
  BY <1>1, StartsTypes, DeleteTypes, CommitWipeTypes, CreateOrganizationTypes, BuildTypes,
     EndsTypes
<1>2. CASE UNCHANGED vars
  BY <1>2 DEF vars, tenantVars, wipeVars, historyVars, scriptVars, requestVars, Typed, TypeOK,
     Drawn, Drawing, InItsScript, Build, Wiping
<1> QED
  BY <1>1, <1>2, RequestTypes DEF Next

\* Typed holds in every state that is reached.
LEMMA AlwaysTyped == Spec => []Typed
BY InitTypes, TypedStep, PTL DEF Spec

\* Tenants, accounts, scripts and requests keep their types, no more
\* organizations are drawn than there are runs, every script is at a statement
\* of its own, and no transaction stays open without a wipe.
THEOREM DemoTypes == Spec => []TypeOK
<1>1. Typed => TypeOK
  BY DEF Typed
<1> QED
  BY <1>1, AlwaysTyped, PTL

-----------------------------------------------------------------------------
(* Rows refer to rows *)

\* Every row of a set of tables has the rows it refers to.
Closed(S) == \A t \in S : References[t] \subseteq S

\* What is committed for an organization is closed, and only an organization
\* that was drawn exists.
Referential ==
  /\ \A o \in Orgs : Closed(Stored(o))
  /\ \A o \in Orgs : Live(o) => o <= drawn

OneWipe == \A s, u \in Wiping : s = u

\* What the open wipe s still sees of its organization is closed.  It has
\* deleted memberships as long as it has deleted all of them.  Of the tables it
\* is done with, the organization stays deleted, and the tables that are not
\* tied to it do unless a request writes there.
WipeSound(s) ==
  /\ Live(target[s])
  /\ Closed(Left(target[s]))
  /\ dropped \subseteq MembersOf(target[s])
  /\ Memberships \notin gone /\ MembersOf(target[s]) # {} => ~(MembersOf(target[s]) \subseteq dropped)
  /\ \A i \in 1..(at[s] - 1) :
       /\ WipeStatements[i] = Organizations => Organizations \in gone
       /\ WipeStatements[i] \in Untied /\ target[s] \notin late => WipeStatements[i] \in gone

WipeInv == OneWipe /\ \A s \in Wiping : WipeSound(s)

LateInv == \A o \in Orgs : ~Live(o) /\ rows[o] # {} => o \in late

Whole == Referential /\ WipeInv /\ LateInv

\* The tables a table names are tables.
LEMMA ReferencesOf ==
  ASSUME NEW t \in Tables
  PROVE  References[t] = {p \in Tables : <<t, p>> \in ForeignKeys}
BY DEF References

\* The audit schema names no table outside it.
LEMMA UntiedReferences ==
  ASSUME NEW t \in Untied
  PROVE  t \in Tables /\ References[t] \subseteq Untied
BY ReferencesOf, UntiedKeys DEF Tables, Untied

\* Organizations and users name nothing.
LEMMA RootReferences == References[UsersTable] = {} /\ References[Organizations] = {}
<1>1. \A p : <<UsersTable, p>> \notin ForeignKeys /\ <<Organizations, p>> \notin ForeignKeys
  BY DEF ForeignKeys, AuthKeys, CommandKeys, KnowledgeKeys, AuditKeys, NovaKeys,
  Tables, AuthTables, CommandTables, KnowledgeTables, AuditTables, NovaTables, Organizations,
  UsersTable, Memberships, FinalLink, EnabledConnector
<1> QED
  BY <1>1, ReferencesOf DEF Tables, AuthTables

\* A membership names its organization, its user and its role.
LEMMA MembershipReferences == References[Memberships] = {Organizations, UsersTable, "auth.roles"}
<1>1. {p \in Tables : <<Memberships, p>> \in ForeignKeys} = {Organizations, UsersTable, "auth.roles"}
  BY DEF ForeignKeys, AuthKeys, CommandKeys, KnowledgeKeys, AuditKeys, NovaKeys,
  Tables, AuthTables, CommandTables, KnowledgeTables, AuditTables, NovaTables, Organizations,
  UsersTable, Memberships, FinalLink, EnabledConnector
<1> QED
  BY <1>1, ReferencesOf DEF Tables, AuthTables

\* A role names its organization, a permission of a role the role.
LEMMA RoleReferences ==
  References["auth.roles"] = {Organizations} /\ References["auth.role_permissions"] = {"auth.roles"}
<1>1. /\ {p \in Tables : <<"auth.roles", p>> \in ForeignKeys} = {Organizations}
      /\ {p \in Tables : <<"auth.role_permissions", p>> \in ForeignKeys} = {"auth.roles"}
  BY DEF ForeignKeys, AuthKeys, CommandKeys, KnowledgeKeys, AuditKeys, NovaKeys,
  Tables, AuthTables, CommandTables, KnowledgeTables, AuditTables, NovaTables, Organizations,
  UsersTable, Memberships, FinalLink, EnabledConnector
<1> QED
  BY <1>1, ReferencesOf DEF Tables, AuthTables

\* A closed set with a table that is tied to the organization holds it.
LEMMA ClosedHoldsRoot ==
  ASSUME NEW S \in SUBSET Tables, Closed(S), NEW t \in S, t \notin Untied \cup {UsersTable}
  PROVE  Organizations \in S
<1>1. CASE t = Organizations
  BY <1>1
<1>2. CASE <<t, Organizations>> \in ForeignKeys
  BY <1>2, ReferencesOf, KeysOfTables DEF Closed
<1>3. ASSUME NEW u \in Tables, <<t, u>> \in ForeignKeys, <<u, Organizations>> \in ForeignKeys
      PROVE  Organizations \in S
  <2>1. u \in S
    BY <1>3, ReferencesOf DEF Closed
  <2> QED
    BY <1>3, <2>1, ReferencesOf, KeysOfTables DEF Closed
<1> QED
  BY <1>1, <1>2, <1>3, TiedKeys

\* Members are addresses.
LEMMA MembersTyped ==
  ASSUME NEW o
  PROVE  MembersOf(o) \subseteq Addresses
BY DEF MembersOf

\* The parts of what is stored and of what is left.
LEMMA StoredParts ==
  ASSUME Typed, NEW o \in Orgs
  PROVE  /\ Stored(o) \subseteq Tables /\ Left(o) \subseteq Tables
         /\ rows[o] \subseteq Tables \ {UsersTable, Memberships}
         /\ \A t \in Tables \ {UsersTable, Memberships} :
              /\ t \in Stored(o) <=> t \in rows[o]
              /\ t \in Left(o) <=> t \in rows[o] /\ t \notin gone
         /\ UsersTable \in Stored(o) <=> MembersOf(o) # {}
         /\ Memberships \in Stored(o) <=> MembersOf(o) # {}
         /\ UsersTable \in Left(o) <=> MembersOf(o) # {} /\ UsersTable \notin gone
         /\ Memberships \in Left(o) <=> ~(MembersOf(o) \subseteq dropped)
<1>1. rows[o] \subseteq Tables \ {UsersTable, Memberships}
  BY SmallTypes
<1>2. UsersTable \in Tables /\ Memberships \in Tables /\ UsersTable # Memberships
  BY DEF Tables, AuthTables, UsersTable, Memberships
<1> QED
  BY <1>1, <1>2 DEF Stored, Left

\* A member is a member of an organization that is there.
LEMMA MembersLive ==
  ASSUME Typed, Referential, NEW o \in Orgs, MembersOf(o) # {}
  PROVE  Live(o)
<1>1. Memberships \in Stored(o) /\ Stored(o) \subseteq Tables
  BY StoredParts
<1>2. Organizations \in Stored(o)
  BY <1>1, MembershipReferences DEF Referential, Closed
<1>3. Organizations \in Tables \ {UsersTable, Memberships}
  BY DEF Tables, AuthTables, Organizations, UsersTable, Memberships
<1> QED
  BY <1>2, <1>3, StoredParts DEF Live

\* So is a row of a tied table.
LEMMA TiedLive ==
  ASSUME Typed, Referential, NEW o \in Orgs, NEW t \in rows[o], t \notin Untied
  PROVE  Live(o)
<1>1. t \in Stored(o) /\ t \in Tables \ {UsersTable, Memberships} /\ Stored(o) \subseteq Tables
  BY StoredParts
<1>2. Organizations \in Stored(o)
  BY <1>1, ClosedHoldsRoot DEF Referential
<1>3. Organizations \in Tables \ {UsersTable, Memberships}
  BY DEF Tables, AuthTables, Organizations, UsersTable, Memberships
<1> QED
  BY <1>2, <1>3, StoredParts DEF Live

\* The tables the wipe treats on their own.
LEMMA SpecialTables ==
  /\ Organizations \in Tables \ {UsersTable, Memberships}
  /\ UsersTable \in Tables /\ Memberships \in Tables /\ UsersTable # Memberships
  /\ Untied \subseteq Tables \ {Organizations, UsersTable, Memberships}
BY DEF Tables, AuthTables, Untied, AuditTables, FinalLink, Organizations, UsersTable, Memberships

\* Steps that leave the rows of the organizations alone.
LEMMA RowsSame ==
  ASSUME Typed, Referential, LateInv, rows' = rows, drawn' = drawn, late \subseteq late',
         \A o \in Orgs : MembersOf(o)' = MembersOf(o)
  PROVE  Referential' /\ LateInv'
<1>1. \A o \in Orgs : Stored(o)' = Stored(o) /\ Live(o)' = Live(o)
  BY DEF Stored, Live
<1>2. drawn \in Int /\ \A o \in Orgs : o \in Int
  BY DEF Typed, TypeOK, Orgs
<1>3. Referential'
  <2>1. \A o \in Orgs : Closed(Stored(o))'
    BY <1>1 DEF Referential, Closed
  <2>2. \A o \in Orgs : Live(o)' => o <= drawn'
    BY <1>1, <1>2 DEF Referential
  <2> QED
    BY <2>1, <2>2 DEF Referential
<1>4. LateInv'
  BY <1>1 DEF LateInv
<1> QED
  BY <1>3, <1>4

\* What an open wipe still sees depends on these variables only.
LEMMA LeftSame ==
  ASSUME NEW o, rows'[o] = rows[o], gone' = gone, dropped' = dropped, MembersOf(o)' = MembersOf(o)
  PROVE  Left(o)' = Left(o) /\ Live(o)' = Live(o)
BY DEF Left, Live

\* A wipe whose organization and deletions stay as they are.
LEMMA WipeSame ==
  ASSUME Typed, NEW s \in Scripts, WipeSound(s), target'[s] = target[s], target[s] \in Orgs,
         rows'[target[s]] = rows[target[s]], gone' = gone, dropped' = dropped,
         MembersOf(target[s])' = MembersOf(target[s]), late \subseteq late',
         \/ at'[s] = at[s]
         \/ /\ at'[s] = at[s] + 1 /\ at[s] \in 1..35
            /\ WipeStatements[at[s]] \notin Untied \cup {Organizations}
  PROVE  WipeSound(s)'
<1>1. Left(target[s])' = Left(target[s]) /\ Live(target[s])' = Live(target[s])
  BY LeftSame
<1>2. Closed(Left(target[s]))'
  BY <1>1 DEF WipeSound, Closed
<1>3. \A i \in 1..(at'[s] - 1) :
       /\ WipeStatements[i] = Organizations => Organizations \in gone'
       /\ WipeStatements[i] \in Untied /\ target'[s] \notin late' => WipeStatements[i] \in gone'
  <2>1. at[s] \in 1..40
    BY SmallTypes
  <2>2. \A i \in 1..(at'[s] - 1) : i \in 1..(at[s] - 1) \/ WipeStatements[i] \notin Untied \cup {Organizations}
    BY <2>1
  <2> QED
    BY <2>2 DEF WipeSound
<1> QED
  BY <1>1, <1>2, <1>3 DEF WipeSound, Live

\* Moves of scripts and requests that touch no row, membership or deletion.
LEMMA WholeMoves ==
  ASSUME Typed, Whole, rows' = rows, drawn' = drawn, late' = late,
         \A o \in Orgs : MembersOf(o)' = MembersOf(o),
         \/ Wiping' = {}
         \/ /\ Wiping' \subseteq Wiping /\ gone' = gone /\ dropped' = dropped
            /\ \A s \in Wiping' :
                 /\ target'[s] = target[s]
                 /\ \/ at'[s] = at[s]
                    \/ /\ at'[s] = at[s] + 1 /\ at[s] \in 1..35
                       /\ WipeStatements[at[s]] \notin Untied \cup {Organizations}
  PROVE  Whole'
<1>1. Referential' /\ LateInv'
  BY RowsSame DEF Whole
<1>2. CASE Wiping' = {}
  BY <1>1, <1>2 DEF Whole, WipeInv, OneWipe
<1>3. CASE /\ Wiping' \subseteq Wiping /\ gone' = gone /\ dropped' = dropped
           /\ \A s \in Wiping' :
                 /\ target'[s] = target[s]
                 /\ \/ at'[s] = at[s]
                    \/ /\ at'[s] = at[s] + 1 /\ at[s] \in 1..35
                       /\ WipeStatements[at[s]] \notin Untied \cup {Organizations}
  <2>1. ASSUME NEW s \in Wiping' PROVE WipeSound(s)'
    <3>1. s \in Scripts /\ s \in Wiping /\ WipeSound(s) /\ target[s] \in Orgs
      BY <1>3, <2>1 DEF Whole, WipeInv, Wiping, Typed, InItsScript
    <3> QED
      BY <1>3, <2>1, <3>1, WipeSame
  <2>2. OneWipe'
    BY <1>3 DEF Whole, WipeInv, OneWipe
  <2> QED
    BY <1>1, <2>1, <2>2 DEF Whole, WipeInv
<1> QED
  BY <1>2, <1>3

\* A wipe that begins sees the tenant whole.
LEMMA WholeStartWipe ==
  ASSUME Typed, Whole, NEW s \in Scripts, NEW o \in Orgs, StartWipe(s, o)
  PROVE  Whole'
<1>1. /\ rows' = rows /\ account' = account /\ drawn' = drawn /\ late' = late
      /\ gone' = gone /\ dropped' = dropped /\ Live(o) /\ Wiping = {}
      /\ pc' = [pc EXCEPT ![s] = "wipe"] /\ at' = [at EXCEPT ![s] = 1]
      /\ target' = [target EXCEPT ![s] = o]
  BY DEF StartWipe, Start, tenantVars, wipeVars
<1>2. \A p \in Orgs : MembersOf(p)' = MembersOf(p)
  BY <1>1 DEF MembersOf
<1>3. Referential' /\ LateInv'
  BY <1>1, <1>2, RowsSame DEF Whole
<1>4. Wiping' = {s} /\ target'[s] = o /\ at'[s] = 1 /\ gone = {} /\ dropped = {}
  BY <1>1, SmallTypes DEF Wiping
<1>5. Left(o)' = Stored(o)
  BY <1>1, <1>2, <1>4 DEF Left, Stored
<1>6. WipeSound(s)'
  <2>1. Closed(Left(o))'
    BY <1>5 DEF Whole, Referential, Closed
  <2>2. Live(o)' /\ MembersOf(o)' = MembersOf(o)
    BY <1>1, <1>2 DEF Live
  <2>3. 1..(at'[s] - 1) = {}
    BY <1>4
  <2> QED
    BY <1>1, <1>4, <2>1, <2>2, <2>3 DEF WipeSound
<1> QED
  BY <1>3, <1>4, <1>6 DEF Whole, WipeInv, OneWipe

\* An insert whose references hold and that did not have to wait.
LEMMA WholeAdd ==
  ASSUME Typed, Whole, NEW o \in Orgs,
         NEW t \in Tables \ {Organizations, UsersTable, Memberships},
         AddRow(o, t), Holds(o, t), ~Waits(o, t),
         UNCHANGED <<account, drawn, pc, target, dropped>>, late \subseteq late',
         \A s \in Wiping : at'[s] = at[s],
         ~Live(o) => o \in late',
         t \in Untied /\ (\E s \in Wiping : target[s] = o) => o \in late'
  PROVE  Whole'
<1>1. /\ rows' = [rows EXCEPT ![o] = @ \cup {t}] /\ gone' = Returned(o, t)
      /\ Wiping' = Wiping
  BY DEF AddRow, Wiping
<1>2. /\ \A p \in Orgs \ {o} : rows'[p] = rows[p]
      /\ rows'[o] = rows[o] \cup {t}
      /\ \A p \in Orgs : MembersOf(p)' = MembersOf(p) /\ Live(p)' = Live(p)
  BY <1>1, SmallTypes DEF MembersOf, Live
<1>3. \A p \in Orgs \ {o} : Stored(p)' = Stored(p)
  BY <1>2 DEF Stored
<1>4. Stored(o)' = Stored(o) \cup {t}
  BY <1>2 DEF Stored
<1>5. Referential'
  <2>1. Closed(Stored(o))'
    BY <1>4 DEF Closed, Holds, Whole, Referential
  <2>2. \A p \in Orgs : Closed(Stored(p))'
    BY <1>3, <2>1 DEF Closed, Whole, Referential
  <2> QED
    BY <1>2, <2>2 DEF Referential, Whole
<1>6. LateInv'
  <2>1. ASSUME NEW p \in Orgs, ~Live(p)', rows'[p] # {} PROVE p \in late'
    BY <1>2, <2>1 DEF Whole, LateInv
  <2> QED
    BY <2>1 DEF LateInv
<1>7. ASSUME NEW s \in Wiping PROVE WipeSound(s)'
  <2>1. /\ s \in Scripts /\ WipeSound(s) /\ target[s] \in Orgs /\ target'[s] = target[s]
        /\ at'[s] = at[s]
    BY <1>7 DEF Whole, WipeInv, Wiping, Typed, InItsScript
  <2>2. CASE target[s] # o
    <3>1. \A u \in Wiping : u = s
      BY <1>7 DEF Whole, WipeInv, OneWipe
    <3>2. gone' = gone
      BY <1>1, <2>2, <3>1 DEF Returned
    <3> QED
      BY <1>2, <2>1, <2>2, <3>2, WipeSame
  <2>3. CASE target[s] = o
    <3>1. gone' = gone \ {t}
      BY <1>1, <1>7, <2>3 DEF Returned
    <3>2. References[t] \cap gone = {}
      BY <1>7, <2>1, <2>3 DEF Waits, Wiping
    <3>3. Left(o)' = Left(o) \cup {t}
      BY <1>2, <3>1, SpecialTables DEF Left
    <3>4. References[t] \subseteq Left(o)
      <4>1. ASSUME NEW p \in References[t] PROVE p \in Left(o)
        <5>1. p \in Stored(o) /\ p \notin gone /\ p \in Tables
          BY <3>2, <4>1, ReferencesOf DEF Holds
        <5>2. CASE p = Memberships
          <6>1. MembersOf(o) # {} /\ ~(MembersOf(o) \subseteq dropped)
            BY <2>1, <2>3, <5>1, <5>2, StoredParts DEF WipeSound
          <6> QED
            BY <5>2, <6>1, StoredParts
        <5>3. CASE p = UsersTable
          BY <5>1, <5>3, StoredParts
        <5>4. CASE p \notin {UsersTable, Memberships}
          BY <5>1, <5>4, StoredParts
        <5> QED
          BY <5>2, <5>3, <5>4
      <4> QED
        BY <4>1
    <3>5. Closed(Left(o))'
      BY <2>1, <2>3, <3>3, <3>4 DEF Closed, WipeSound
    <3>6. Memberships \notin gone' => Memberships \notin gone
      BY <3>1
    <3>7. \A i \in 1..(at[s] - 1) :
            /\ WipeStatements[i] = Organizations => Organizations \in gone'
            /\ WipeStatements[i] \in Untied /\ o \notin late' => WipeStatements[i] \in gone'
      <4>1. t \in Untied => o \in late'
        BY <1>7, <2>3
      <4>2. Organizations \in gone => Organizations \in gone'
        BY <3>1
      <4> QED
        BY <2>1, <2>3, <3>1, <4>1, <4>2 DEF WipeSound
    <3>8. /\ Live(o)' /\ MembersOf(o)' = MembersOf(o) /\ dropped' = dropped /\ target'[s] = o
      BY <1>2, <2>1, <2>3 DEF WipeSound
    <3> QED
      BY <2>1, <2>3, <3>5, <3>6, <3>7, <3>8 DEF WipeSound
  <2> QED
    BY <2>2, <2>3
<1> QED
  BY <1>1, <1>5, <1>6, <1>7 DEF Whole, WipeInv, OneWipe

\* A DELETE that no foreign key rejects.
LEMMA WholeDelete ==
  ASSUME Typed, Whole, NEW s \in Scripts, Delete(s)
  PROVE  Whole'
<1> DEFINE o == target[s]
           t == Statement(s)
<1>1. /\ pc[s] = "wipe" /\ at[s] \in DOMAIN WipeStatements /\ t \in Tables
      /\ ~Restricted(o, t)
      /\ gone' = gone \cup {t} \cup Cascaded(t)
      /\ dropped' = IF t = Memberships THEN MembersOf(o) ELSE dropped
      /\ at' = [at EXCEPT ![s] = @ + 1]
      /\ UNCHANGED <<rows, account, drawn, pc, target, late>>
  BY DEF Delete, Advance, tenantVars, historyVars
<1>2. /\ s \in Wiping /\ Wiping' = Wiping /\ o \in Orgs /\ at[s] \in 1..35
      /\ at'[s] = at[s] + 1
  BY <1>1, WipeStep, SmallTypes DEF Wiping
<1>3. \A p \in Orgs : MembersOf(p)' = MembersOf(p) /\ Live(p)' = Live(p)
  BY <1>1 DEF MembersOf, Live
<1>4. Referential' /\ LateInv'
  BY <1>1, <1>3, RowsSame DEF Whole
<1>5. WipeSound(s)
  BY <1>2 DEF Whole, WipeInv
<1>6. Cascaded(t) \cap {Organizations, UsersTable, Memberships} = {}
  BY CascadesLeave DEF Cascaded, Organizations, UsersTable, Memberships, EnabledConnector, FinalLink
<1>7. Left(o)' = Left(o) \ ({t} \cup Cascaded(t))
  <2>1. Left(o)' = (rows[o] \ gone')
           \cup (IF MembersOf(o) = {} \/ UsersTable \in gone' THEN {} ELSE {UsersTable})
           \cup (IF MembersOf(o) \subseteq dropped' THEN {} ELSE {Memberships})
    BY <1>1, <1>2, <1>3 DEF Left
  <2>2. rows[o] \subseteq Tables \ {UsersTable, Memberships}
    BY <1>2, SmallTypes
  <2>3. UsersTable \in gone' <=> UsersTable \in gone \/ t = UsersTable
    BY <1>1, <1>6
  <2>4. MembersOf(o) \subseteq dropped' <=> MembersOf(o) \subseteq dropped \/ t = Memberships
    BY <1>1
  <2>5. rows[o] \ gone' = (rows[o] \ gone) \ ({t} \cup Cascaded(t))
    BY <1>1
  <2> HIDE DEF o, t
  <2> QED
    BY <1>6, <2>1, <2>2, <2>3, <2>4, <2>5, SpecialTables DEF Left
<1>8. Closed(Left(o))'
  <2>1. ASSUME NEW u \in Left(o) \ ({t} \cup Cascaded(t)), NEW p \in References[u]
        PROVE  p \in Left(o) \ ({t} \cup Cascaded(t))
    <3>1. u \in Tables /\ p \in Left(o) /\ p \in Tables /\ <<u, p>> \in ForeignKeys
      BY <1>2, <1>5, <2>1, StoredParts, ReferencesOf DEF WipeSound, Closed
    <3>2. p # t
      BY <1>1, <2>1, <3>1 DEF Restricted, Restricting, Cascaded
    <3>3. p \notin Cascaded(t)
      BY <3>1, CascadedUnnamed DEF Cascaded
    <3> QED
      BY <3>1, <3>2, <3>3
  <2> QED
    BY <1>7, <2>1 DEF Closed
<1>9. \A i \in 1..(at'[s] - 1) :
        /\ WipeStatements[i] = Organizations => Organizations \in gone'
        /\ WipeStatements[i] \in Untied /\ o \notin late' => WipeStatements[i] \in gone'
  <2>1. \A i \in 1..(at'[s] - 1) : i \in 1..(at[s] - 1) \/ i = at[s]
    BY <1>2
  <2>2. WipeStatements[at[s]] = t /\ t \in gone' /\ gone \subseteq gone'
    BY <1>1 DEF Statement
  <2> QED
    BY <1>1, <1>5, <2>1, <2>2 DEF WipeSound
<1>10. dropped' \subseteq MembersOf(o)
  BY <1>1, <1>5 DEF WipeSound
<1>11. Memberships \notin gone' /\ MembersOf(o) # {} => ~(MembersOf(o) \subseteq dropped')
  BY <1>1, <1>5 DEF WipeSound
<1>12. WipeSound(s)'
  BY <1>1, <1>2, <1>3, <1>5, <1>8, <1>9, <1>10, <1>11 DEF WipeSound
<1>13. \A u \in Wiping : u = s
  BY <1>2 DEF Whole, WipeInv, OneWipe
<1> QED
  BY <1>2, <1>4, <1>12, <1>13 DEF Whole, WipeInv, OneWipe

\* The commit of a wipe leaves nothing of the organization but rows that a
\* request inserted where no foreign key made it wait.
LEMMA WholeCommit ==
  ASSUME Typed, Whole, NEW s \in Scripts, CommitWipe(s)
  PROVE  Whole'
<1> PICK o : o = target[s]
  OBVIOUS
<1>1. /\ pc[s] = "wipe" /\ at[s] = 36
      /\ rows' = [rows EXCEPT ![o] = @ \ gone]
      /\ account' = [a \in Addresses |->
                       IF a \in dropped THEN (IF a \in seen THEN NoUser ELSE Stray)
                       ELSE account[a]]
      /\ pc' = [pc EXCEPT ![s] = "build"]
      /\ UNCHANGED <<drawn, late>>
  BY WipeLength DEF CommitWipe, historyVars
<1>2. s \in Wiping /\ o \in Orgs /\ WipeSound(s)
  BY <1>1 DEF Typed, InItsScript, Wiping, Whole, WipeInv
<1>3. Wiping' = {}
  <2>1. \A u \in Wiping : u = s
    BY <1>2 DEF Whole, WipeInv, OneWipe
  <2> QED
    BY <1>1, <2>1, SmallTypes DEF Wiping
<1>4. Organizations \in gone /\ (o \notin late => Untied \subseteq gone)
  <2>1. \A t \in Untied \cup {Organizations} : \E i \in 1..35 : WipeStatements[i] = t
    BY WipeCovers
  <2>2. 1..(at[s] - 1) = 1..35
    BY <1>1
  <2> QED
    BY <1>2, <2>1, <2>2 DEF WipeSound
<1>5. Left(o) \subseteq Untied \cup {UsersTable}
  <2>1. Organizations \notin Left(o) /\ Left(o) \subseteq Tables
    BY <1>2, <1>4, StoredParts, SpecialTables
  <2> QED
    BY <1>2, <2>1, ClosedHoldsRoot DEF WipeSound
<1>6. MembersOf(o) \subseteq dropped /\ rows[o] \ gone \subseteq Untied
  BY <1>2, <1>5, StoredParts, SpecialTables
<1>7. /\ rows'[o] = rows[o] \ gone
      /\ \A p \in Orgs \ {o} : rows'[p] = rows[p]
      /\ MembersOf(o)' = {}
      /\ \A p \in Orgs \ {o} : MembersOf(p)' = MembersOf(p)
  <2>1. NoUser \notin Orgs /\ Stray \notin Orgs
    BY DEF NoUser, Stray, Orgs
  <2>2. dropped \subseteq MembersOf(o)
    BY <1>2 DEF WipeSound
  <2>3. ASSUME NEW p \in Orgs \ {o} PROVE MembersOf(p)' = MembersOf(p)
    BY <1>1, <2>1, <2>2, <2>3 DEF MembersOf
  <2>4. MembersOf(o)' = {}
    BY <1>1, <1>2, <1>6, <2>1 DEF MembersOf
  <2> QED
    BY <1>1, <1>2, <2>3, <2>4, SmallTypes
<1>8. Stored(o)' = rows[o] \ gone
  BY <1>7 DEF Stored
<1>9. Closed(rows[o] \ gone)
  <2>1. ASSUME NEW t \in rows[o] \ gone PROVE References[t] \subseteq rows[o] \ gone
    <3>1. t \in Untied /\ t \in Left(o)
      BY <1>2, <1>6, <2>1, StoredParts, SpecialTables
    <3>2. References[t] \subseteq Left(o) /\ References[t] \subseteq Untied
      BY <1>2, <3>1, UntiedReferences DEF WipeSound, Closed
    <3> QED
      BY <1>2, <3>2, StoredParts, SpecialTables
  <2> QED
    BY <2>1 DEF Closed
<1>10. Referential'
  <2>1. ASSUME NEW p \in Orgs PROVE Closed(Stored(p))' /\ (Live(p)' => p <= drawn')
    <3>1. CASE p = o
      BY <1>4, <1>7, <1>8, <1>9, <3>1 DEF Closed, Live
    <3>2. CASE p # o
      <4>1. Stored(p)' = Stored(p) /\ Live(p)' = Live(p)
        BY <1>7, <3>2 DEF Stored, Live
      <4> QED
        BY <1>1, <4>1 DEF Closed, Whole, Referential
    <3> QED
      BY <3>1, <3>2
  <2> QED
    BY <2>1 DEF Referential
<1>11. LateInv'
  <2>1. ASSUME NEW p \in Orgs, ~Live(p)', rows'[p] # {} PROVE p \in late'
    <3>1. CASE p = o
      BY <1>1, <1>4, <1>6, <1>7, <2>1, <3>1
    <3>2. CASE p # o
      BY <1>1, <1>7, <2>1, <3>2 DEF Whole, LateInv, Live
    <3> QED
      BY <3>1, <3>2
  <2> QED
    BY <2>1 DEF LateInv
<1> QED
  BY <1>3, <1>10, <1>11 DEF Whole, WipeInv, OneWipe

\* A new organization is whole, and no wipe works on it.
LEMMA WholeCreateOrganization ==
  ASSUME Typed, Whole, NEW s \in Scripts, CreateOrganization(s)
  PROVE  Whole'
<1> PICK o : o = drawn + 1
  OBVIOUS
<1>1. /\ pc[s] = "build" /\ account[First] = NoUser /\ drawn' = o
      /\ rows' = [rows EXCEPT ![o] = Created]
      /\ account' = [account EXCEPT ![First] = o]
      /\ target' = [target EXCEPT ![s] = o] /\ at' = [at EXCEPT ![s] = @ + 1]
      /\ UNCHANGED <<pc, gone, dropped, late>>
  BY DEF CreateOrganization, Building, wipeVars, historyVars
<1>2. o \in Orgs /\ drawn \in Nat
  BY CreateOrganizationTypes DEF Typed, TypeOK
<1>3. First \in Addresses
  BY DEF First, Addresses
<1>4. /\ rows'[o] = Created /\ MembersOf(o)' # {}
      /\ \A p \in Orgs \ {o} : rows'[p] = rows[p] /\ MembersOf(p)' = MembersOf(p)
  <2>1. NoUser \notin Orgs
    BY DEF NoUser, Orgs
  <2>2. account'[First] = o
    BY <1>1, <1>3, SmallTypes
  <2>3. ASSUME NEW p \in Orgs \ {o} PROVE MembersOf(p)' = MembersOf(p)
    BY <1>1, <1>3, <2>1, <2>2, SmallTypes DEF MembersOf
  <2>4. First \in MembersOf(o)'
    BY <1>3, <2>2 DEF MembersOf
  <2> QED
    BY <1>1, <1>2, <2>3, <2>4, SmallTypes
<1>5. Live(o)' /\ Closed(Stored(o))'
  <2>1. Stored(o)' = Created \cup {UsersTable, Memberships}
    BY <1>4 DEF Stored
  <2>2. \A t \in Created \cup {UsersTable, Memberships} :
          References[t] \subseteq Created \cup {UsersTable, Memberships}
    BY RootReferences, MembershipReferences, RoleReferences DEF Created
  <2> QED
    BY <1>4, <2>1, <2>2 DEF Closed, Live, Created
<1>6. Referential'
  <2>1. ASSUME NEW p \in Orgs \ {o} PROVE Closed(Stored(p))' /\ (Live(p)' => p <= drawn')
    <3>1. Stored(p)' = Stored(p) /\ Live(p)' = Live(p)
      BY <1>4 DEF Stored, Live
    <3>2. Live(p) => p <= drawn
      BY DEF Whole, Referential
    <3>3. p \in Int
      BY DEF Orgs
    <3> QED
      BY <1>1, <1>2, <3>1, <3>2, <3>3 DEF Closed, Whole, Referential
  <2>2. o <= drawn'
    BY <1>1, <1>2
  <2> QED
    BY <1>2, <1>5, <2>1, <2>2 DEF Referential
<1>7. LateInv'
  BY <1>1, <1>4, <1>5 DEF Whole, LateInv, Live
<1>8. Wiping' = Wiping
  BY <1>1 DEF Wiping
<1>9. ASSUME NEW u \in Wiping PROVE WipeSound(u)'
  <2>1. u \in Scripts /\ u # s /\ WipeSound(u) /\ target[u] \in Orgs
    BY <1>1, <1>9 DEF Wiping, Typed, InItsScript, Whole, WipeInv
  <2>2. target[u] # o
    <3>1. target[u] <= drawn /\ target[u] \in Int
      BY <2>1 DEF WipeSound, Whole, Referential, Orgs
    <3> QED
      BY <1>2, <3>1
  <2>3. target'[u] = target[u] /\ at'[u] = at[u]
    BY <1>1, <2>1, SmallTypes
  <2> QED
    BY <1>1, <1>4, <2>1, <2>2, <2>3, WipeSame
<1> QED
  BY <1>6, <1>7, <1>8, <1>9 DEF Whole, WipeInv, OneWipe

-----------------------------------------------------------------------------
(* Users and their memberships *)

\* Between the two commits of createUser.
AtMember(s) == Building(s, "member")

\* The address is then held by its user, and by one script.
MemberInv ==
  \A s \in Scripts : AtMember(s) =>
    /\ account[Step(s).what] = Stray
    /\ \A u \in Scripts : AtMember(u) /\ Step(u).what = Step(s).what => u = s

\* A script that is about to insert a membership has just inserted its user.
LEMMA AtMemberStep ==
  ASSUME Typed, NEW s \in Scripts, AtMember(s)
  PROVE  /\ Step(s).what \in Addresses /\ target[s] \in Orgs
         /\ at[s] \in Nat /\ at[s] > 1
         /\ at[s] - 1 \in 1..Len(Build) /\ Build[at[s] - 1].op = "user"
<1>1. /\ pc[s] = "build" /\ Step(s).op = "member" /\ at[s] \in 1..Len(Build)
      /\ Len(Build) \in 14..24 /\ Sound(Build, at[s]) /\ target[s] \in Orgs
  BY BuildStep DEF AtMember, Building
<1>2. at[s] > 1 /\ Build[at[s] - 1] = Do("user", Step(s).what)
  BY <1>1 DEF Sound, Step
<1>3. at[s] - 1 \in 1..Len(Build)
  BY <1>1, <1>2
<1>4. Build[at[s] - 1].op = "user" /\ Build[at[s] - 1].what = Step(s).what
  BY <1>2 DEF Do
<1>5. Build[at[s] - 1].what \in Addresses
  BY <1>3, <1>4, BuildSound DEF Sound
<1> QED
  BY <1>1, <1>2, <1>3, <1>4, <1>5

\* A membership is created only right after its user.
LEMMA NoMemberNext ==
  ASSUME Typed, Typed', profile' = profile, NEW s \in Scripts, pc[s] = "build",
         \/ Step(s).op # "user" /\ at'[s] = at[s] + 1
         \/ Step(s).op = "user" /\ at'[s] = at[s] + 2
  PROVE  ~AtMember(s)'
<1> SUFFICES ASSUME AtMember(s)' PROVE FALSE
  OBVIOUS
<1>1. Build' = Build
  BY DEF Build
<1>2. /\ at'[s] - 1 \in 1..Len(Build) /\ Build[at'[s] - 1].op = "user" /\ at'[s] \in Nat
      /\ Build[at'[s]].op = "member"
  <2>1. pc'[s] = "build" /\ Build[at'[s]].op = "member" /\ at'[s] \in 1..Len(Build)
    BY <1>1 DEF AtMember, Building, Step, Typed, InItsScript
  <2>2. Sound(Build, at'[s]) /\ Len(Build) \in 14..24
    BY <2>1, BuildSound
  <2>3. at'[s] > 1 /\ Build[at'[s] - 1].op = "user"
    BY <2>1, <2>2 DEF Sound, Do
  <2> QED
    BY <2>1, <2>2, <2>3
<1>3. at[s] \in Nat /\ Len(Build) \in 14..24 /\ Sound(Build, at[s]) /\ Step(s) = Build[at[s]]
  BY BuildStep DEF Step
<1>4. CASE Step(s).op # "user" /\ at'[s] = at[s] + 1
  BY <1>2, <1>3, <1>4
<1>5. CASE Step(s).op = "user" /\ at'[s] = at[s] + 2
  BY <1>2, <1>3, <1>5 DEF Sound
<1> QED
  BY <1>4, <1>5

\* Nor is a script there that has just started, or that is not building.
LEMMA NoMemberFirst ==
  /\ Build[1].op # "member"
  /\ profile = "dev" => Build[9].op # "member"
BY DemoStatements, DevStatements, DevContinues DEF Build, Do

\* No script begins with a membership.
LEMMA NoMemberFirstAfter ==
  ASSUME NEW s \in Scripts, profile' = profile,
         \/ pc'[s] # "build"
         \/ at'[s] = 1
         \/ profile = "dev" /\ at'[s] = 9
  PROVE  ~AtMember(s)'
<1>1. Build' = Build
  BY DEF Build
<1> QED
  BY <1>1, NoMemberFirst DEF AtMember, Building, Step

\* A user between two inserts of createUser stays as it is.
LEMMA MemberAfter ==
  ASSUME MemberInv, 
         \A u \in Scripts : AtMember(u)' =>
           /\ AtMember(u) /\ Step(u)'.what = Step(u).what
           /\ account'[Step(u).what] = Stray
  PROVE  MemberInv'
<1>1. ASSUME NEW u \in Scripts, AtMember(u)'
      PROVE  /\ account'[Step(u)'.what] = Stray
             /\ \A v \in Scripts : AtMember(v)' /\ Step(v)'.what = Step(u)'.what => v = u
  BY <1>1 DEF MemberInv
<1> QED
  BY <1>1 DEF MemberInv

\* A script the step does not move stays where it is.
LEMMA AtMemberSame ==
  ASSUME NEW u \in Scripts, profile' = profile, pc'[u] = pc[u], at'[u] = at[u]
  PROVE  AtMember(u)' = AtMember(u) /\ Step(u)' = Step(u) /\ Step(u)'.what = Step(u).what
BY DEF AtMember, Building, Step, Build

\* A step of one script leaves the users of the others alone.
LEMMA MemberStays ==
  ASSUME MemberInv, NEW s \in Scripts, profile' = profile,
         \A u \in Scripts \ {s} : pc'[u] = pc[u] /\ at'[u] = at[u],
         ~AtMember(s)',
         \A u \in Scripts \ {s} : AtMember(u) => account'[Step(u).what] = Stray
  PROVE  MemberInv'
<1>1. ASSUME NEW u \in Scripts, AtMember(u)'
      PROVE  /\ AtMember(u) /\ Step(u)'.what = Step(u).what
             /\ account'[Step(u).what] = Stray
  <2>1. u # s
    BY <1>1
  <2>2. AtMember(u) /\ Step(u)'.what = Step(u).what
    BY <1>1, <2>1, AtMemberSame
  <2> QED
    BY <2>1, <2>2
<1> QED
  BY <1>1, MemberAfter

\* Every script but one stays, and the others keep their place.
LEMMA OthersStay ==
  ASSUME Typed, NEW s \in Scripts,
         \/ \E o \in Orgs : StartWipe(s, o)
         \/ StartDemo(s) \/ StartDev(s) \/ Delete(s) \/ SelectMembers(s) \/ WipeFails(s)
         \/ CommitWipe(s) \/ CreateOrganization(s) \/ InsertRow(s) \/ UpdateRow(s)
         \/ SkipUser(s) \/ CreateUser(s) \/ CreateMembership(s) \/ BuildFails(s)
         \/ WriteSeedFile(s) \/ Die(s)
  PROVE  /\ profile' = profile
         /\ \A u \in Scripts \ {s} : pc'[u] = pc[u] /\ at'[u] = at[u] /\ target'[u] = target[u]
<1>1. CASE (\E o \in Orgs : StartWipe(s, o)) \/ StartDemo(s) \/ StartDev(s)
  BY <1>1, SmallTypes DEF StartWipe, StartDemo, StartDev, Start
<1>2. CASE Delete(s) \/ SelectMembers(s) \/ InsertRow(s) \/ UpdateRow(s) \/ SkipUser(s)
           \/ CreateUser(s) \/ CreateMembership(s)
  BY <1>2, SmallTypes DEF Delete, SelectMembers, InsertRow, UpdateRow, SkipUser, CreateUser,
     CreateMembership, Advance
<1>3. CASE WipeFails(s) \/ BuildFails(s) \/ WriteSeedFile(s) \/ Die(s)
  BY <1>3, SmallTypes DEF WipeFails, BuildFails, WriteSeedFile, Die, End
<1>4. CASE CommitWipe(s) \/ CreateOrganization(s)
  BY <1>4, SmallTypes DEF CommitWipe, CreateOrganization
<1> QED
  BY <1>1, <1>2, <1>3, <1>4

\* Where a script is after a step of its own: not at a membership, unless it
\* has just created the user.
LEMMA NotAtMember ==
  ASSUME Typed, Typed', NEW s \in Scripts,
         \/ \E o \in Orgs : StartWipe(s, o)
         \/ StartDemo(s) \/ StartDev(s) \/ Delete(s) \/ SelectMembers(s) \/ WipeFails(s)
         \/ CommitWipe(s) \/ CreateOrganization(s) \/ InsertRow(s) \/ UpdateRow(s)
         \/ SkipUser(s) \/ CreateMembership(s) \/ BuildFails(s) \/ WriteSeedFile(s) \/ Die(s)
  PROVE  ~AtMember(s)'
<1>1. profile' = profile
  BY OthersStay
<1>2. CASE (\E o \in Orgs : StartWipe(s, o)) \/ StartDemo(s) \/ StartDev(s)
  <2>1. \/ pc'[s] # "build"
        \/ at'[s] = 1
        \/ profile = "dev" /\ at'[s] = 9
    BY <1>1, <1>2, DevContinues, SmallTypes DEF StartWipe, StartDemo, StartDev, Start
  <2> QED
    BY <1>1, <2>1, NoMemberFirstAfter
<1>3. CASE Delete(s) \/ SelectMembers(s) \/ WipeFails(s) \/ BuildFails(s) \/ WriteSeedFile(s) \/ Die(s)
  <2>1. pc'[s] # "build"
    BY <1>3, SmallTypes DEF Delete, SelectMembers, Advance, WipeFails, BuildFails, WriteSeedFile,
       Die, End
  <2> QED
    BY <1>1, <2>1, NoMemberFirstAfter
<1>4. CASE CommitWipe(s)
  <2>1. at'[s] = 1
    BY <1>4, SmallTypes DEF CommitWipe
  <2> QED
    BY <1>1, <2>1, NoMemberFirstAfter
<1>5. CASE CreateOrganization(s) \/ InsertRow(s) \/ UpdateRow(s) \/ CreateMembership(s)
  <2>1. pc[s] = "build" /\ Step(s).op # "user" /\ at'[s] = at[s] + 1
    BY <1>5, SmallTypes DEF CreateOrganization, InsertRow, UpdateRow, CreateMembership, Building,
       Advance
  <2> QED
    BY <1>1, <2>1, NoMemberNext
<1>6. CASE SkipUser(s)
  <2>1. pc[s] = "build" /\ Step(s).op = "user" /\ at'[s] = at[s] + 2
    BY <1>6, SmallTypes DEF SkipUser, Building
  <2> QED
    BY <1>1, <2>1, NoMemberNext
<1> QED
  BY <1>2, <1>3, <1>4, <1>5, <1>6

\* The second insert of createUser keeps the tenant whole.
LEMMA WholeCreateMembership ==
  ASSUME Typed, Whole, MemberInv, NEW s \in Scripts, CreateMembership(s)
  PROVE  Whole'
<1> PICK o, a : o = target[s] /\ a = Step(s).what
  OBVIOUS
<1>1. /\ pc[s] = "build" /\ AtMember(s) /\ ~Waits(o, Memberships)
      /\ {Organizations, "auth.roles"} \subseteq rows[o]
      /\ account' = [account EXCEPT ![a] = o]
      /\ gone' = Returned(o, Memberships)
      /\ at' = [at EXCEPT ![s] = @ + 1]
      /\ UNCHANGED <<rows, drawn, dropped, pc, target, late>>
  BY DEF CreateMembership, Building, AtMember, Advance, historyVars
<1>2. o \in Orgs /\ a \in Addresses /\ account[a] = Stray /\ Stray \notin Orgs
  BY <1>1, AtMemberStep DEF MemberInv, Stray, Orgs
<1>3. account'[a] = o /\ \A b \in Addresses \ {a} : account'[b] = account[b]
  BY <1>1, <1>2, SmallTypes
<1>4. /\ MembersOf(o)' = MembersOf(o) \cup {a}
      /\ \A p \in Orgs \ {o} : MembersOf(p)' = MembersOf(p)
  <2>1. MembersOf(o)' = MembersOf(o) \cup {a}
    BY <1>2, <1>3 DEF MembersOf
  <2>2. ASSUME NEW p \in Orgs \ {o} PROVE MembersOf(p)' = MembersOf(p)
    BY <1>2, <1>3, <2>2 DEF MembersOf
  <2> QED
    BY <2>1, <2>2
<1>5. \A p \in Orgs : Live(p)' = Live(p)
  BY <1>1 DEF Live
<1>6. Referential'
  <2>1. Stored(o)' = Stored(o) \cup {UsersTable, Memberships}
    BY <1>1, <1>4 DEF Stored
  <2>2. {Organizations, UsersTable, "auth.roles"} \subseteq Stored(o) \cup {UsersTable, Memberships}
    BY <1>1 DEF Stored
  <2>3. Closed(Stored(o))'
    BY <1>2, <2>1, <2>2, RootReferences, MembershipReferences DEF Closed, Whole, Referential
  <2>4. ASSUME NEW p \in Orgs \ {o} PROVE Closed(Stored(p))'
    <3>1. Stored(p)' = Stored(p)
      BY <1>1, <1>4 DEF Stored
    <3> QED
      BY <3>1 DEF Closed, Whole, Referential
  <2>5. \A p \in Orgs : Closed(Stored(p))'
    BY <2>3, <2>4
  <2> QED
    BY <1>1, <1>5, <2>5 DEF Whole, Referential
<1>7. LateInv'
  BY <1>1, <1>5 DEF Whole, LateInv
<1>8. Wiping' = Wiping
  BY <1>1 DEF Wiping
<1>9. ASSUME NEW u \in Wiping PROVE WipeSound(u)'
  <2>1. /\ u \in Scripts /\ u # s /\ WipeSound(u) /\ target[u] \in Orgs
        /\ target'[u] = target[u] /\ at'[u] = at[u]
    BY <1>1, <1>9, SmallTypes DEF Wiping, Typed, InItsScript, Whole, WipeInv
  <2>2. \A v \in Wiping : v = u
    BY <1>9 DEF Whole, WipeInv, OneWipe
  <2>3. CASE target[u] # o
    <3>1. gone' = gone
      BY <1>1, <2>2, <2>3 DEF Returned
    <3> QED
      BY <1>1, <1>4, <2>1, <2>3, <3>1, WipeSame
  <2>4. CASE target[u] = o
    <3>1. gone' = gone \ {Memberships}
      BY <1>1, <1>9, <2>4 DEF Returned
    <3>2. {Organizations, UsersTable, "auth.roles"} \cap gone = {}
      BY <1>1, <1>9, <2>1, <2>4, MembershipReferences DEF Waits, Wiping
    <3>3. a \notin dropped /\ dropped \subseteq MembersOf(o)
      BY <1>2, <2>1, <2>4 DEF WipeSound, MembersOf
    <3>4. Left(o)' = Left(o) \cup {UsersTable, Memberships}
      BY <1>1, <1>4, <3>1, <3>2, <3>3, <1>2, SmallTypes, SpecialTables DEF Left
    <3>5. {Organizations, "auth.roles"} \subseteq Left(o)
      BY <1>1, <3>2 DEF Left
    <3>6. Closed(Left(o))'
      BY <2>1, <2>4, <3>4, <3>5, RootReferences, MembershipReferences DEF Closed, WipeSound
    <3>7. \A i \in 1..(at[u] - 1) :
            /\ WipeStatements[i] = Organizations => Organizations \in gone'
            /\ WipeStatements[i] \in Untied /\ o \notin late' => WipeStatements[i] \in gone'
      BY <1>1, <2>1, <2>4, <3>1, SpecialTables DEF WipeSound
    <3>8. /\ dropped' \subseteq MembersOf(o)' /\ ~(MembersOf(o)' \subseteq dropped') /\ Live(o)'
      BY <1>1, <1>2, <1>4, <1>5, <2>1, <2>4, <3>3 DEF WipeSound
    <3> QED
      BY <2>1, <2>4, <3>6, <3>7, <3>8 DEF WipeSound
  <2> QED
    BY <2>3, <2>4
<1> QED
  BY <1>6, <1>7, <1>8, <1>9 DEF Whole, WipeInv, OneWipe

\* What a step leaves of the addresses between two commits.
LEMMA MemberStep ==
  ASSUME Typed, Typed', Whole, MemberInv, NEW s \in Scripts,
         \/ \E o \in Orgs : StartWipe(s, o)
         \/ StartDemo(s) \/ StartDev(s) \/ Delete(s) \/ SelectMembers(s) \/ WipeFails(s)
         \/ CommitWipe(s) \/ CreateOrganization(s) \/ InsertRow(s) \/ UpdateRow(s)
         \/ SkipUser(s) \/ CreateUser(s) \/ CreateMembership(s) \/ BuildFails(s)
         \/ WriteSeedFile(s) \/ Die(s)
  PROVE  MemberInv'
<1>1. /\ profile' = profile
      /\ \A u \in Scripts \ {s} : pc'[u] = pc[u] /\ at'[u] = at[u] /\ target'[u] = target[u]
  BY OthersStay
<1>2. \A u \in Scripts : AtMember(u) => account[Step(u).what] = Stray /\ Step(u).what \in Addresses
  BY AtMemberStep DEF MemberInv
<1>3. CASE account' = account /\ ~CreateUser(s)
  BY <1>1, <1>2, <1>3, NotAtMember, MemberStays
<1>4. CASE CommitWipe(s)
  <2>1. dropped \subseteq MembersOf(target[s]) /\ target[s] \in Orgs
    BY <1>4 DEF CommitWipe, Whole, WipeInv, Wiping, WipeSound, Typed, InItsScript
  <2>2. ASSUME NEW u \in Scripts, AtMember(u) PROVE account'[Step(u).what] = Stray
    <3>1. account[Step(u).what] = Stray /\ Step(u).what \in Addresses /\ Stray \notin Orgs
      BY <1>2, <2>2 DEF Stray, Orgs
    <3>2. Step(u).what \notin dropped
      BY <2>1, <3>1 DEF MembersOf
    <3> QED
      BY <1>4, <3>1, <3>2 DEF CommitWipe
  <2> QED
    BY <1>1, <1>4, <2>2, NotAtMember, MemberStays
<1>5. CASE CreateOrganization(s)
  <2>1. account[First] = NoUser /\ account' = [account EXCEPT ![First] = drawn + 1]
    BY <1>5 DEF CreateOrganization
  <2>2. ASSUME NEW u \in Scripts, AtMember(u) PROVE account'[Step(u).what] = Stray
    <3>1. Step(u).what # First
      BY <1>2, <2>1, <2>2 DEF NoUser, Stray
    <3> QED
      BY <1>2, <2>1, <2>2, <3>1, SmallTypes
  <2> QED
    BY <1>1, <1>5, <2>2, NotAtMember, MemberStays
<1>6. CASE CreateMembership(s)
  <2>1. AtMember(s) /\ account' = [account EXCEPT ![Step(s).what] = target[s]]
    BY <1>6 DEF CreateMembership, AtMember, Building
  <2>2. ASSUME NEW u \in Scripts \ {s}, AtMember(u) PROVE account'[Step(u).what] = Stray
    <3>1. Step(u).what # Step(s).what
      BY <2>1, <2>2 DEF MemberInv
    <3> QED
      BY <1>2, <2>1, <2>2, <3>1, SmallTypes
  <2> QED
    BY <1>1, <1>6, <2>2, NotAtMember, MemberStays
<1>7. CASE CreateUser(s)
  <2> PICK a : a = Step(s).what
    OBVIOUS
  <2>1. /\ pc[s] = "build" /\ Step(s).op = "user" /\ account[a] = NoUser
        /\ account' = [account EXCEPT ![a] = Stray] /\ at' = [at EXCEPT ![s] = @ + 1]
        /\ pc' = pc
    BY <1>7 DEF CreateUser, Building, Advance
  <2>2. /\ a \in Addresses /\ Build' = Build
        /\ at[s] \in Nat /\ Build[at[s] + 1] = Do("member", a)
    BY <1>1, <2>1, BuildStep DEF Sound, Step, Build
  <2>3. Step(s)' = Do("member", a)
    BY <2>1, <2>2, SmallTypes DEF Step
  <2>4. Step(s)'.what = a
    BY <2>3 DEF Do
  <2>5. account'[a] = Stray
    BY <2>1, <2>2, SmallTypes
  <2>6. ASSUME NEW u \in Scripts \ {s}, AtMember(u)'
        PROVE  AtMember(u) /\ Step(u)'.what = Step(u).what /\ Step(u).what # a
               /\ account'[Step(u).what] = Stray
    <3>1. AtMember(u) /\ Step(u)'.what = Step(u).what
      BY <1>1, <2>6, AtMemberSame
    <3>2. Step(u).what # a
      BY <1>2, <2>1, <3>1 DEF NoUser, Stray
    <3> QED
      BY <1>2, <2>1, <3>1, <3>2, SmallTypes
  <2>7. ASSUME NEW u \in Scripts, AtMember(u)'
        PROVE  /\ account'[Step(u)'.what] = Stray
               /\ \A v \in Scripts : AtMember(v)' /\ Step(v)'.what = Step(u)'.what => v = u
    <3>1. CASE u = s
      BY <2>4, <2>5, <2>6, <3>1
    <3>2. CASE u # s
      <4>1. AtMember(u) /\ Step(u)'.what = Step(u).what /\ Step(u).what # a
            /\ account'[Step(u).what] = Stray
        BY <2>6, <2>7, <3>2
      <4>2. ASSUME NEW v \in Scripts, AtMember(v)', Step(v)'.what = Step(u)'.what PROVE v = u
        <5>1. v # s
          BY <2>4, <4>1, <4>2
        <5>2. AtMember(v) /\ Step(v)'.what = Step(v).what
          BY <2>6, <4>2, <5>1
        <5> QED
          BY <4>1, <4>2, <5>2 DEF MemberInv
      <4> QED
        BY <4>1, <4>2
    <3> QED
      BY <3>1, <3>2
  <2> QED
    BY <2>7 DEF MemberInv
<1> QED
  BY <1>3, <1>4, <1>5, <1>6, <1>7
  DEF StartWipe, StartDemo, StartDev, Start, Delete, SelectMembers, WipeFails, InsertRow, UpdateRow,
      SkipUser, BuildFails, WriteSeedFile, Die, tenantVars

\* The steps that insert a row.
LEMMA WholeInsert ==
  ASSUME Typed, Whole, NEW s \in Scripts, InsertRow(s) \/ UpdateRow(s)
  PROVE  Whole'
<1> PICK o, t : o = target[s] /\ t = Step(s).what
  OBVIOUS
<1>1. /\ pc[s] = "build" /\ Step(s).op \in {"insert", "update"} /\ ~Waits(o, t)
      /\ at' = [at EXCEPT ![s] = @ + 1]
      /\ UNCHANGED <<account, drawn, dropped, pc, target, late>>
      /\ (Holds(o, t) /\ AddRow(o, t)) \/ UNCHANGED <<rows, gone>>
  BY DEF InsertRow, UpdateRow, Building, Advance, historyVars
<1>2. o \in Orgs /\ t \in Tied
  BY <1>1, BuildStep DEF Sound, Step
<1>3. Wiping' = Wiping /\ \A u \in Wiping : u # s /\ at'[u] = at[u] /\ target'[u] = target[u]
  BY <1>1, SmallTypes DEF Wiping
<1>4. CASE UNCHANGED <<rows, gone>>
  <2>1. \A p \in Orgs : MembersOf(p)' = MembersOf(p)
    BY <1>1 DEF MembersOf
  <2> QED
    BY <1>1, <1>3, <1>4, <2>1, WholeMoves
<1>5. CASE Holds(o, t) /\ AddRow(o, t)
  <2>1. t \in Tables \ {Organizations, UsersTable, Memberships} /\ t \notin Untied
    BY <1>2 DEF Tied
  <2>2. References[t] \subseteq Stored(o)
    BY <1>5 DEF Holds
  <2>3. Organizations \in Stored(o)
    <3>1. Closed(Stored(o) \cup {t}) /\ Stored(o) \cup {t} \in SUBSET Tables
      BY <1>2, <2>1, <2>2, StoredParts DEF Closed, Whole, Referential
    <3>2. Organizations \in Stored(o) \cup {t}
      BY <2>1, <3>1, ClosedHoldsRoot
    <3> QED
      BY <2>1, <3>2
  <2>4. Live(o)
    BY <1>2, <2>3, StoredParts, SpecialTables DEF Live
  <2> QED
    BY <1>1, <1>2, <1>3, <1>5, <2>1, <2>4, WholeAdd
<1> QED
  BY <1>1, <1>4, <1>5

\* What a request inserts keeps the tenant whole, also beside an open wipe.
LEMMA WholeRequest ==
  ASSUME Typed, Whole, NEW q \in Requests,
         \/ \E o \in Orgs : BeginRequest(q, o)
         \/ \E t \in RowTables : InsertByRequest(q, t)
         \/ EndRequest(q)
  PROVE  Whole'
<1>1. UNCHANGED <<account, drawn, dropped, pc, at, target>>
  BY DEF BeginRequest, InsertByRequest, EndRequest, tenantVars, wipeVars, scriptVars
<1>2. Wiping' = Wiping /\ \A p \in Orgs : MembersOf(p)' = MembersOf(p)
  BY <1>1 DEF Wiping, MembersOf
<1>3. ASSUME NEW t \in RowTables, InsertByRequest(q, t) PROVE Whole'
  <2> PICK o : o = request[q]
    OBVIOUS
  <2>1. /\ o \in Orgs /\ t \in Tables \ {Organizations, UsersTable, Memberships}
        /\ AddRow(o, t) /\ Holds(o, t) /\ ~Waits(o, t)
    BY <1>3, RowTablesAssumption, SmallTypes DEF InsertByRequest
  <2>2. late' = IF ~Live(o) \/ \E s \in Scripts : Wipes(s, o) THEN late \cup {o} ELSE late
    BY <1>3 DEF InsertByRequest
  <2>3. (\E s \in Wiping : target[s] = o) => o \in late'
    BY <2>2 DEF Wiping, Wipes
  <2>4. late \subseteq late' /\ (~Live(o) => o \in late')
    BY <2>2
  <2> QED
    BY <1>1, <2>1, <2>3, <2>4, WholeAdd
<1>4. CASE (\E o \in Orgs : BeginRequest(q, o)) \/ EndRequest(q)
  <2>1. UNCHANGED <<rows, gone, late>>
    BY <1>4 DEF BeginRequest, EndRequest, tenantVars, wipeVars, historyVars
  <2> QED
    BY <1>1, <1>2, <2>1, WholeMoves
<1> QED
  BY <1>3, <1>4

\* Every statement of a script keeps the tenant whole.
LEMMA WholeScript ==
  ASSUME Typed, Typed', Whole, MemberInv, NEW s \in Scripts,
         \/ \E o \in Orgs : StartWipe(s, o)
         \/ StartDemo(s) \/ StartDev(s) \/ Delete(s) \/ SelectMembers(s) \/ WipeFails(s)
         \/ CommitWipe(s) \/ CreateOrganization(s) \/ InsertRow(s) \/ UpdateRow(s)
         \/ SkipUser(s) \/ CreateUser(s) \/ CreateMembership(s) \/ BuildFails(s)
         \/ WriteSeedFile(s) \/ Die(s)
  PROVE  Whole'
<1>1. \A u \in Scripts \ {s} : pc'[u] = pc[u] /\ at'[u] = at[u] /\ target'[u] = target[u]
  BY OthersStay
<1>2. CASE StartDemo(s) \/ StartDev(s)
  <2>1. /\ pc' = [pc EXCEPT ![s] = "build"] /\ pc[s] = "idle"
        /\ UNCHANGED <<rows, account, drawn, gone, dropped, late>>
    BY <1>2 DEF StartDemo, StartDev, Start, tenantVars, wipeVars
  <2>2. Wiping' = Wiping /\ s \notin Wiping
    BY <2>1, SmallTypes DEF Wiping
  <2>3. \A p \in Orgs : MembersOf(p)' = MembersOf(p)
    BY <2>1 DEF MembersOf
  <2> QED
    BY <1>1, <2>1, <2>2, <2>3, WholeMoves DEF Wiping
<1>3. CASE SelectMembers(s)
  <2>1. /\ pc[s] = "wipe" /\ at[s] \in DOMAIN WipeStatements /\ Statement(s) = "select_members"
        /\ at' = [at EXCEPT ![s] = @ + 1]
        /\ UNCHANGED <<rows, account, drawn, gone, dropped, late, pc, target>>
    BY <1>3 DEF SelectMembers, Advance, tenantVars, historyVars
  <2>2. Wiping' = Wiping /\ \A p \in Orgs : MembersOf(p)' = MembersOf(p)
    BY <2>1 DEF Wiping, MembersOf
  <2>3. at'[s] = at[s] + 1 /\ at[s] \in 1..35
    BY <2>1, WipeStep, SmallTypes
  <2>4. WipeStatements[at[s]] \notin Untied \cup {Organizations}
    BY <2>1 DEF Statement, Untied, AuditTables, FinalLink, Organizations
  <2> QED
    BY <1>1, <2>1, <2>2, <2>3, <2>4, WholeMoves DEF Wiping
<1>4. CASE WipeFails(s) \/ BuildFails(s) \/ WriteSeedFile(s) \/ Die(s)
  <2>1. /\ pc' = [pc EXCEPT ![s] = "idle"] /\ UNCHANGED <<rows, account, drawn, late>>
        /\ pc[s] = "wipe" \/ UNCHANGED wipeVars
    BY <1>4 DEF WipeFails, BuildFails, WriteSeedFile, Die, End, tenantVars, historyVars
  <2>2. Wiping' = Wiping \ {s} /\ \A p \in Orgs : MembersOf(p)' = MembersOf(p)
    BY <2>1, SmallTypes DEF Wiping, MembersOf
  <2>3. CASE pc[s] = "wipe"
    <3>1. Wiping' = {}
      BY <2>2, <2>3 DEF Whole, WipeInv, OneWipe, Wiping
    <3> QED
      BY <2>1, <2>2, <3>1, WholeMoves
  <2>4. CASE UNCHANGED wipeVars
    BY <1>1, <2>1, <2>2, <2>4, WholeMoves DEF wipeVars, Wiping
  <2> QED
    BY <2>1, <2>3, <2>4
<1>5. CASE SkipUser(s) \/ CreateUser(s)
  <2>1. /\ pc[s] = "build" /\ Step(s).op = "user"
        /\ UNCHANGED <<rows, drawn, gone, dropped, late, pc, target>>
        /\ \/ account' = account
           \/ account[Step(s).what] = NoUser /\ account' = [account EXCEPT ![Step(s).what] = Stray]
    BY <1>5 DEF SkipUser, CreateUser, Building, Advance, tenantVars, wipeVars, historyVars
  <2>2. Step(s).what \in Addresses /\ NoUser \notin Orgs /\ Stray \notin Orgs
    BY <2>1, BuildStep DEF Sound, Step, NoUser, Stray, Orgs
  <2>3. \A p \in Orgs : MembersOf(p)' = MembersOf(p)
    BY <2>1, <2>2, SmallTypes DEF MembersOf
  <2>4. Wiping' = Wiping /\ s \notin Wiping
    BY <2>1 DEF Wiping
  <2> QED
    BY <1>1, <2>1, <2>3, <2>4, WholeMoves DEF Wiping
<1> QED
  BY <1>2, <1>3, <1>4, <1>5, WholeStartWipe, WholeDelete, WholeCommit, WholeCreateOrganization,
     WholeInsert, WholeCreateMembership

\* The tenant of the first state is whole.
LEMMA WholeInit ==
  ASSUME Init
  PROVE  Whole /\ MemberInv
<1>1. Typed
  BY InitTypes
<1>2. PICK full \in (IF profile = "demo" THEN BOOLEAN ELSE {FALSE}) :
         /\ rows = [o \in Orgs |-> IF full /\ o = 1 THEN Tables \ {UsersTable, Memberships}
                                   ELSE {}]
         /\ account = [a \in Addresses |-> IF full /\ a \in People THEN 1 ELSE NoUser]
         /\ drawn = IF full THEN 1 ELSE 0
  BY DEF Init
<1>3. Wiping = {} /\ \A s \in Scripts : ~AtMember(s)
  BY DEF Init, Wiping, AtMember, Building
<1>4. ASSUME NEW o \in Orgs
      PROVE  Closed(Stored(o)) /\ (Live(o) => o <= drawn) /\ (~Live(o) => rows[o] = {})
  <2>1. CASE full /\ o = 1
    <3>1. profile = "demo" /\ drawn = 1
      BY <1>2, <2>1
    <3>2. "director" \in People
      <4>1. /\ Build = DemoBuild /\ 1 \in DOMAIN DemoBuild
            /\ DemoBuild[1] = Do("organization", "director")
        BY <3>1, DemoStatements DEF Build
      <4>2. Build[1].op = "organization" /\ Build[1].what = "director"
        BY <4>1 DEF Do
      <4> QED
        BY <4>1, <4>2 DEF People
    <3>3. "director" \in MembersOf(o)
      BY <1>2, <2>1, <3>2 DEF MembersOf, Addresses
    <3>4. Stored(o) = Tables
      <4>1. rows[o] = Tables \ {UsersTable, Memberships}
        BY <1>2, <2>1
      <4> QED
        BY <3>3, <4>1, SpecialTables DEF Stored
    <3>5. Live(o)
      BY <1>2, <2>1, SpecialTables DEF Live
    <3>6. Closed(Stored(o))
      BY <3>4, ReferencesOf DEF Closed
    <3>7. o <= drawn
      BY <2>1, <3>1
    <3> QED
      BY <3>5, <3>6, <3>7
  <2>2. CASE ~(full /\ o = 1)
    <3>1. rows[o] = {}
      BY <1>2, <2>2
    <3>2. MembersOf(o) = {}
      <4>1. ASSUME NEW a \in Addresses PROVE account[a] # o
        BY <1>2, <2>2, <4>1 DEF NoUser, Orgs
      <4> QED
        BY <4>1 DEF MembersOf
    <3>3. Stored(o) = {}
      BY <3>1, <3>2 DEF Stored
    <3> QED
      BY <3>1, <3>3 DEF Closed, Live
  <2> QED
    BY <2>1, <2>2
<1> QED
  BY <1>3, <1>4 DEF Whole, Referential, WipeInv, OneWipe, LateInv, MemberInv

-----------------------------------------------------------------------------
(* Without a mishap *)

\* As long as no script died or ran beside another, one script runs at most;
\* an address without a membership is the one it is creating, in a tenant that
\* has the role; and what the wipe deletes of members are those it has read.
Quiet ==
  ~mishap =>
    /\ \A s, u \in Running : s = u
    /\ \A a \in Strays : \E s \in Scripts : AtMember(s) /\ Step(s).what = a
    /\ \A s \in Scripts : AtMember(s) => "auth.roles" \in rows[target[s]]
    /\ \A s \in Wiping : /\ at[s] > 29 => seen = MembersOf(target[s])
                         /\ dropped \subseteq seen

\* The script that runs is alone, and no address is without a membership
\* unless it is creating it.
LEMMA QuietAlone ==
  ASSUME Typed, Quiet, ~mishap, NEW s \in Scripts, pc[s] # "idle"
  PROVE  /\ \A u \in Scripts \ {s} : pc[u] = "idle" /\ ~AtMember(u) /\ u \notin Wiping
         /\ ~AtMember(s) => Strays = {}
         /\ Strays \subseteq {Step(s).what}
<1>1. \A u \in Scripts \ {s} : pc[u] = "idle"
  BY DEF Quiet, Running
<1>2. \A u \in Scripts \ {s} : ~AtMember(u) /\ u \notin Wiping
  BY <1>1 DEF AtMember, Building, Wiping
<1> QED
  BY <1>1, <1>2 DEF Quiet

\* A step of a running script that leaves no address without a membership.
LEMMA QuietStep ==
  ASSUME Typed, Quiet, ~mishap, NEW s \in Scripts, pc[s] # "idle",
         \A u \in Scripts \ {s} : pc'[u] = pc[u],
         ~AtMember(s)', Strays' = {},
         pc'[s] = "wipe" => /\ at'[s] > 29 => seen' = MembersOf(target[s])'
                            /\ dropped' \subseteq seen'
  PROVE  Quiet'
<1>1. \A u \in Scripts \ {s} : pc'[u] = "idle"
  BY QuietAlone
<1>2. \A u \in Scripts \ {s} : ~AtMember(u)' /\ u \notin Wiping'
  BY <1>1 DEF AtMember, Building, Wiping
<1>3. \A u, v \in Running' : u = v
  BY <1>1 DEF Running
<1>4. \A u \in Wiping' : u = s /\ pc'[s] = "wipe"
  BY <1>2 DEF Wiping
<1>5. \A u \in Scripts : ~AtMember(u)'
  BY <1>2
<1> QED
  BY <1>3, <1>4, <1>5 DEF Quiet, Wiping

\* A script that starts beside another is one that ran beside another.
LEMMA QuietStart ==
  ASSUME Typed, Typed', Quiet, Whole, NEW s \in Scripts, ~mishap',
         (\E o \in Orgs : StartWipe(s, o)) \/ StartDemo(s) \/ StartDev(s)
  PROVE  Quiet'
<1>1. /\ ~mishap /\ Running = {} /\ account' = account
      /\ UNCHANGED <<seen, dropped>>
      /\ \/ pc' = [pc EXCEPT ![s] = "build"]
         \/ pc' = [pc EXCEPT ![s] = "wipe"] /\ at' = [at EXCEPT ![s] = 1] /\ Wiping = {}
  BY DEF StartWipe, StartDemo, StartDev, Start, tenantVars, wipeVars
<1>2. \A u \in Scripts : pc[u] = "idle" /\ ~AtMember(u)
  BY <1>1 DEF Running, AtMember, Building
<1>3. ~AtMember(s)' /\ \A u \in Scripts \ {s} : pc'[u] = "idle"
  BY <1>1, <1>2, NotAtMember, SmallTypes
<1>4. \A u \in Scripts : ~AtMember(u)'
  BY <1>3 DEF AtMember, Building
<1>5. Strays' = {}
  BY <1>1, <1>2 DEF Quiet, Strays
<1>6. \A u, v \in Running' : u = v
  BY <1>3 DEF Running
<1>7. ASSUME NEW u \in Wiping' PROVE ~(at'[u] > 29) /\ dropped' = {}
  <2>1. u = s /\ pc'[s] = "wipe"
    BY <1>3, <1>7 DEF Wiping
  <2>2. at'[s] = 1 /\ Wiping = {}
    BY <1>1, <2>1, SmallTypes
  <2> QED
    BY <1>1, <2>1, <2>2, SmallTypes
<1> QED
  BY <1>4, <1>5, <1>6, <1>7 DEF Quiet

\* Only a death or a run beside another leaves a user without a membership.
LEMMA QuietScript ==
  ASSUME Typed, Typed', Quiet, Whole, MemberInv, NEW s \in Scripts, ~mishap', pc[s] # "idle",
         \/ Delete(s) \/ SelectMembers(s) \/ WipeFails(s)
         \/ CommitWipe(s) \/ CreateOrganization(s) \/ InsertRow(s) \/ UpdateRow(s)
         \/ SkipUser(s) \/ CreateUser(s) \/ CreateMembership(s) \/ BuildFails(s)
         \/ WriteSeedFile(s) \/ Die(s)
  PROVE  Quiet'
<1>1. /\ profile' = profile
      /\ \A u \in Scripts \ {s} : pc'[u] = pc[u] /\ at'[u] = at[u] /\ target'[u] = target[u]
  BY OthersStay
<1>2. ~mishap /\ ~Die(s)
  BY DEF Delete, SelectMembers, WipeFails, CommitWipe, CreateOrganization, InsertRow, UpdateRow,
     SkipUser, CreateUser, CreateMembership, BuildFails, WriteSeedFile, Die, historyVars
<1>3. ~CreateUser(s) => ~AtMember(s)'
  BY NotAtMember
<1>4. CASE Delete(s)
  <2>1. /\ pc[s] = "wipe" /\ at[s] \in DOMAIN WipeStatements
        /\ UNCHANGED <<account, seen, pc, target>> /\ at' = [at EXCEPT ![s] = @ + 1]
        /\ dropped' = IF Statement(s) = Memberships THEN MembersOf(target[s]) ELSE dropped
        /\ Statement(s) \in Tables
    BY <1>4 DEF Delete, Advance, tenantVars
  <2>2. ~AtMember(s) /\ s \in Wiping
    BY <2>1 DEF AtMember, Building, Wiping
  <2>3. Strays' = {}
    BY <1>2, <2>1, <2>2, QuietAlone DEF Strays
  <2>4. MembersOf(target[s])' = MembersOf(target[s])
    BY <2>1 DEF MembersOf
  <2>5. at[s] # 29
    <3>1. "select_members" \notin Tables
      BY DEF Tables, AuthTables, CommandTables, KnowledgeTables, AuditTables, NovaTables,
         Organizations, UsersTable, Memberships, FinalLink, EnabledConnector
    <3> QED
      BY <2>1, <3>1, WipeStep
  <2>6. at'[s] = at[s] + 1 /\ at[s] \in 1..35 /\ (Statement(s) = Memberships => at[s] > 29)
    BY <2>1, WipeStep, SmallTypes
  <2>7. /\ at[s] > 29 => seen = MembersOf(target[s])
        /\ dropped \subseteq seen
    BY <1>2, <2>2 DEF Quiet
  <2>8. at'[s] > 29 => at[s] > 29
    BY <2>5, <2>6
  <2> QED
    BY <1>1, <1>2, <1>3, <1>4, <2>1, <2>3, <2>4, <2>6, <2>7, <2>8, QuietStep DEF CreateUser, Building
<1>5. CASE SelectMembers(s)
  <2>1. /\ pc[s] = "wipe" /\ UNCHANGED <<account, dropped, pc, target>>
        /\ seen' = MembersOf(target[s])
    BY <1>5 DEF SelectMembers, Advance, tenantVars
  <2>2. ~AtMember(s) /\ s \in Wiping
    BY <2>1 DEF AtMember, Building, Wiping
  <2>3. Strays' = {}
    BY <1>2, <2>1, <2>2, QuietAlone DEF Strays
  <2>4. MembersOf(target[s])' = MembersOf(target[s])
    BY <2>1 DEF MembersOf
  <2>5. dropped \subseteq MembersOf(target[s])
    BY <2>2 DEF Whole, WipeInv, WipeSound
  <2> QED
    BY <1>1, <1>2, <1>3, <1>5, <2>1, <2>3, <2>4, <2>5, QuietStep DEF CreateUser, Building
<1>6. CASE WipeFails(s) \/ WriteSeedFile(s) \/ BuildFails(s)
  <2>1. account' = account /\ pc'[s] = "idle"
    BY <1>6, SmallTypes DEF WipeFails, WriteSeedFile, BuildFails, End, tenantVars
  <2>2. ~AtMember(s)
    <3>1. CASE WipeFails(s) \/ WriteSeedFile(s)
      BY <3>1 DEF WipeFails, WriteSeedFile, AtMember, Building
    <3>2. CASE BuildFails(s)
      <4> SUFFICES ASSUME AtMember(s) PROVE FALSE
        OBVIOUS
      <4>1. "auth.roles" \in rows[target[s]] /\ target[s] \in Orgs
        BY <1>2, AtMemberStep DEF Quiet
      <4>2. Organizations \in rows[target[s]]
        BY <4>1, TiedLive DEF Whole, Live, Untied, AuditTables, FinalLink
      <4> QED
        BY <3>2, <4>1, <4>2 DEF BuildFails, Rejected, AtMember, Building
    <3> QED
      BY <1>6, <3>1, <3>2
  <2>3. Strays' = {}
    BY <1>2, <2>1, <2>2, QuietAlone DEF Strays
  <2>4. ~CreateUser(s)
    BY <2>1 DEF CreateUser, Building, Advance
  <2> QED
    BY <1>1, <1>2, <1>3, <2>1, <2>3, <2>4, QuietStep
<1>7. CASE CommitWipe(s)
  <2>1. /\ pc[s] = "wipe" /\ pc'[s] = "build"
        /\ account' = [a \in Addresses |->
                         IF a \in dropped THEN (IF a \in seen THEN NoUser ELSE Stray)
                         ELSE account[a]]
    BY <1>7, SmallTypes DEF CommitWipe
  <2>2. ~AtMember(s) /\ s \in Wiping /\ ~CreateUser(s)
    BY <2>1 DEF AtMember, Building, Wiping, CreateUser
  <2>3. dropped \subseteq seen
    BY <1>2, <2>2 DEF Quiet
  <2>4. Strays = {}
    BY <1>2, <2>1, <2>2, QuietAlone
  <2>5. Strays' = {}
    BY <2>1, <2>3, <2>4 DEF Strays, NoUser, Stray
  <2> QED
    BY <1>1, <1>2, <1>3, <2>1, <2>2, <2>5, QuietStep
<1>8. CASE CreateOrganization(s) \/ InsertRow(s) \/ UpdateRow(s) \/ SkipUser(s)
  <2>1. /\ pc[s] = "build" /\ pc' = pc /\ Step(s).op # "member"
        /\ \/ account' = account
           \/ \E o \in Orgs : account' = [account EXCEPT ![First] = o]
    BY <1>8, CreateOrganizationTypes DEF CreateOrganization, InsertRow, UpdateRow, SkipUser, Building, Advance,
       tenantVars
  <2>2. ~AtMember(s) /\ Stray \notin Orgs
    BY <2>1 DEF AtMember, Building, Stray, Orgs
  <2>3. Strays = {}
    BY <1>2, <2>1, <2>2, QuietAlone
  <2>4. Strays' = {}
    BY <2>1, <2>2, <2>3, SmallTypes DEF Strays
  <2>5. ~CreateUser(s)
    BY <1>8, SmallTypes DEF CreateOrganization, InsertRow, UpdateRow, SkipUser, CreateUser, Building, Advance
  <2> QED
    BY <1>1, <1>2, <1>3, <2>1, <2>4, <2>5, QuietStep
<1>9. CASE CreateMembership(s)
  <2>1. /\ AtMember(s) /\ pc[s] = "build" /\ pc' = pc /\ Step(s).op = "member"
        /\ account' = [account EXCEPT ![Step(s).what] = target[s]]
    BY <1>9 DEF CreateMembership, AtMember, Building, Advance
  <2>2. Strays \subseteq {Step(s).what} /\ target[s] \in Orgs /\ Stray \notin Orgs
    BY <1>2, <2>1, QuietAlone, AtMemberStep DEF Stray, Orgs
  <2>3. Strays' = {}
    BY <2>1, <2>2, SmallTypes DEF Strays
  <2>4. ~CreateUser(s)
    BY <2>1 DEF CreateUser, Building
  <2> QED
    BY <1>1, <1>2, <1>3, <2>1, <2>3, <2>4, QuietStep
<1>10. CASE CreateUser(s)
  <2> PICK a : a = Step(s).what
    OBVIOUS
  <2>1. /\ pc[s] = "build" /\ pc' = pc /\ Step(s).op = "user" /\ rows' = rows /\ target' = target
        /\ "auth.roles" \in rows[target[s]] /\ account' = [account EXCEPT ![a] = Stray]
        /\ at' = [at EXCEPT ![s] = @ + 1]
    BY <1>10 DEF CreateUser, Building, Advance
  <2>2. a \in Addresses /\ Build[at[s] + 1] = Do("member", a) /\ Build' = Build
    BY <1>1, <2>1, BuildStep DEF Sound, Step, Build
  <2>3. Step(s)' = Do("member", a)
    BY <2>1, <2>2, SmallTypes DEF Step
  <2>4. AtMember(s)' /\ Step(s)'.what = a
    BY <2>1, <2>3 DEF AtMember, Building, Do
  <2>5. Strays = {} /\ \A u \in Scripts \ {s} : pc[u] = "idle"
    BY <1>2, <2>1, QuietAlone DEF AtMember, Building
  <2>6. Strays' \subseteq {a}
    BY <2>1, <2>5, SmallTypes DEF Strays
  <2>7. \A u \in Scripts \ {s} : ~AtMember(u)'
    BY <2>1, <2>5 DEF AtMember, Building
  <2>8. Wiping' = {} /\ \A u, v \in Running' : u = v
    BY <2>1, <2>5 DEF Wiping, Running
  <2>9. \A b \in Strays' : AtMember(s)' /\ Step(s)'.what = b
    BY <2>4, <2>6
  <2>10. \A u \in Scripts : AtMember(u)' => "auth.roles" \in rows'[target'[u]]
    BY <2>1, <2>7
  <2> QED
    BY <2>8, <2>9, <2>10 DEF Quiet
<1> QED
  BY <1>2, <1>4, <1>5, <1>6, <1>7, <1>8, <1>9, <1>10

\* A request leaves addresses alone.
LEMMA QuietRequest ==
  ASSUME Typed, Quiet, NEW q \in Requests,
         \/ \E o \in Orgs : BeginRequest(q, o)
         \/ \E t \in RowTables : InsertByRequest(q, t)
         \/ EndRequest(q)
  PROVE  Quiet' /\ (MemberInv => MemberInv')
<1>1. UNCHANGED <<profile, account, seen, dropped, pc, at, target, mishap>>
  BY DEF BeginRequest, InsertByRequest, EndRequest, tenantVars, wipeVars, scriptVars, historyVars
<1>2. /\ Running' = Running /\ Wiping' = Wiping /\ Strays' = Strays
      /\ \A s \in Scripts : /\ AtMember(s)' = AtMember(s) /\ Step(s)' = Step(s)
                            /\ MembersOf(target[s])' = MembersOf(target[s])
  BY <1>1 DEF Running, Wiping, Strays, AtMember, Building, Step, Build, MembersOf
<1>3. \A o \in Orgs : rows[o] \subseteq rows'[o]
  <2>1. ASSUME NEW t \in RowTables, InsertByRequest(q, t) PROVE \A o \in Orgs : rows[o] \subseteq rows'[o]
    BY <2>1, SmallTypes DEF InsertByRequest, AddRow
  <2>2. (\E o \in Orgs : BeginRequest(q, o)) \/ EndRequest(q) => rows' = rows
    BY DEF BeginRequest, EndRequest, tenantVars
  <2> QED
    BY <2>1, <2>2
<1>4. \A s \in Scripts : AtMember(s) => target[s] \in Orgs
  BY AtMemberStep
<1>5. MemberInv => MemberInv'
  BY <1>1, <1>2 DEF MemberInv
<1>6. Quiet'
  BY <1>1, <1>2, <1>3, <1>4 DEF Quiet, Wiping
<1> QED
  BY <1>5, <1>6

-----------------------------------------------------------------------------
(* Tenants are whole *)

DemoInv == Typed /\ Whole /\ MemberInv /\ Quiet

\* The invariant holds in the first state.
LEMMA DemoInit ==
  ASSUME Init
  PROVE  DemoInv
<1>1. Strays = {} /\ Running = {} /\ \A s \in Scripts : ~AtMember(s)
  BY DEF Init, Strays, Running, AtMember, Building, NoUser, Stray
<1>2. Wiping = {}
  BY DEF Init, Wiping
<1>3. Quiet
  BY <1>1, <1>2 DEF Quiet
<1> QED
  BY <1>3, InitTypes, WholeInit DEF DemoInv

\* Every step keeps the invariant.
LEMMA DemoStep ==
  ASSUME DemoInv, [Next]_vars
  PROVE  DemoInv'
<1>1. Typed /\ Whole /\ MemberInv /\ Quiet /\ Typed'
  BY TypedStep DEF DemoInv
<1>2. ASSUME NEW s \in Scripts,
             \/ \E o \in Orgs : StartWipe(s, o)
             \/ StartDemo(s) \/ StartDev(s) \/ Delete(s) \/ SelectMembers(s) \/ WipeFails(s)
             \/ CommitWipe(s) \/ CreateOrganization(s) \/ InsertRow(s) \/ UpdateRow(s)
             \/ SkipUser(s) \/ CreateUser(s) \/ CreateMembership(s) \/ BuildFails(s)
             \/ WriteSeedFile(s) \/ Die(s)
      PROVE  DemoInv'
  <2>1. Whole' /\ MemberInv'
    BY <1>1, <1>2, WholeScript, MemberStep
  <2>2. Quiet'
    <3>1. CASE mishap'
      BY <3>1 DEF Quiet
    <3>2. CASE ~mishap' /\ ((\E o \in Orgs : StartWipe(s, o)) \/ StartDemo(s) \/ StartDev(s))
      BY <1>1, <3>2, QuietStart
    <3>3. CASE /\ ~mishap'
               /\ \/ Delete(s) \/ SelectMembers(s) \/ WipeFails(s)
                  \/ CommitWipe(s) \/ CreateOrganization(s) \/ InsertRow(s) \/ UpdateRow(s)
                  \/ SkipUser(s) \/ CreateUser(s) \/ CreateMembership(s) \/ BuildFails(s)
                  \/ WriteSeedFile(s) \/ Die(s)
      <4>1. pc[s] # "idle"
        BY <3>3 DEF Delete, SelectMembers, WipeFails, CommitWipe, CreateOrganization, InsertRow,
           UpdateRow, SkipUser, CreateUser, CreateMembership, BuildFails, Rejected, WriteSeedFile,
           Die, Building
      <4> QED
        BY <1>1, <3>3, <4>1, QuietScript
    <3> QED
      BY <1>2, <3>1, <3>2, <3>3
  <2> QED
    BY <1>1, <2>1, <2>2 DEF DemoInv
<1>3. ASSUME NEW q \in Requests,
             \/ \E o \in Orgs : BeginRequest(q, o)
             \/ \E t \in RowTables : InsertByRequest(q, t)
             \/ EndRequest(q)
      PROVE  DemoInv'
  BY <1>1, <1>3, WholeRequest, QuietRequest DEF DemoInv
<1>4. CASE UNCHANGED vars
  <2>1. /\ UNCHANGED <<profile, rows, account, drawn, gone, seen, dropped, late, mishap, pc, at, target>>
    BY <1>4 DEF vars, tenantVars, wipeVars, historyVars, scriptVars
  <2>2. /\ Wiping' = Wiping /\ Running' = Running /\ Strays' = Strays
        /\ \A o \in Orgs : MembersOf(o)' = MembersOf(o)
        /\ \A s \in Scripts : /\ AtMember(s)' = AtMember(s) /\ Step(s)' = Step(s)
                              /\ MembersOf(target[s])' = MembersOf(target[s])
    BY <2>1 DEF Wiping, Running, Strays, MembersOf, AtMember, Building, Step, Build
  <2>3. Whole'
    BY <1>1, <2>1, <2>2, WholeMoves
  <2>4. MemberInv'
    BY <1>1, <2>1, <2>2 DEF MemberInv
  <2>5. Quiet'
    <3>1. \A s \in Wiping : s \in Scripts
      BY DEF Wiping
    <3> QED
      BY <1>1, <2>1, <2>2, <3>1 DEF Quiet
  <2> QED
    BY <1>1, <2>3, <2>4, <2>5 DEF DemoInv
<1> QED
  BY <1>2, <1>3, <1>4 DEF Next

\* The tenant of a demo is destroyed as a unit by wipeOrganization, and built by
\* createOrganization and createUser so that no row refers to one that is not
\* there, whatever requests and other scripts do meanwhile and wherever it dies.
THEOREM TenantsAreWholeOrGone == Spec => []TenantIsWholeOrGone
<1>1. DemoInv => TenantIsWholeOrGone
  <2> SUFFICES ASSUME DemoInv PROVE TenantIsWholeOrGone
    OBVIOUS
  <2>1. Typed /\ Referential /\ LateInv /\ Quiet
    BY DEF DemoInv, Whole
  <2>2. \A o \in Orgs : \A t \in Stored(o) : References[t] \subseteq Stored(o)
    BY <2>1 DEF Referential, Closed
  <2>3. ASSUME NEW o \in Orgs, ~Live(o)
        PROVE  MembersOf(o) = {} /\ rows[o] \subseteq Untied /\ (rows[o] # {} => o \in late)
    BY <2>1, <2>3, MembersLive, TiedLive DEF LateInv
  <2>4. Running = {} /\ Strays # {} => mishap
    BY <2>1 DEF Quiet, Running, AtMember, Building
  <2> QED
    BY <2>2, <2>3, <2>4 DEF TenantIsWholeOrGone
<1>2. Init => DemoInv
  BY DemoInit
<1>3. DemoInv /\ [Next]_vars => DemoInv'
  BY DemoStep
<1> QED
  BY <1>1, <1>2, <1>3, PTL DEF Spec

-----------------------------------------------------------------------------
(* The order of the statements *)

\* The statements of wipeOrganization, one by one.
LEMMA WipeList ==
  /\ WipeStatements[1] = "knowledge.retrieval_hits"
  /\ WipeStatements[2] = "knowledge.retrieval_runs"
  /\ WipeStatements[3] = "knowledge.chunks"
  /\ WipeStatements[4] = "knowledge.source_versions"
  /\ WipeStatements[5] = "knowledge.sources"
  /\ WipeStatements[6] = "knowledge.collection_permissions"
  /\ WipeStatements[7] = "knowledge.collections"
  /\ WipeStatements[8] = "social.content_items"
  /\ WipeStatements[9] = "social.onboarding_sessions"
  /\ WipeStatements[10] = "social.brands"
  /\ WipeStatements[11] = "nova.skill_runs"
  /\ WipeStatements[12] = "nova.external_identities"
  /\ WipeStatements[13] = "command.connector_actions"
  /\ WipeStatements[14] = "command.approvals"
  /\ WipeStatements[15] = "command.skill_connectors"
  /\ WipeStatements[16] = "command.skill_policy_roles"
  /\ WipeStatements[17] = "command.skill_policies"
  /\ WipeStatements[18] = "command.policy_bindings"
  /\ WipeStatements[19] = "command.policies"
  /\ WipeStatements[20] = "command.models"
  /\ WipeStatements[21] = "command.connectors"
  /\ WipeStatements[22] = "audit.execution_events"
  /\ WipeStatements[23] = "audit.merkle_checkpoints"
  /\ WipeStatements[24] = FinalLink
  /\ WipeStatements[25] = "audit.ledger_entries"
  /\ WipeStatements[26] = "audit.executions"
  /\ WipeStatements[27] = "audit.chain_state"
  /\ WipeStatements[28] = "auth.sessions"
  /\ WipeStatements[29] = "select_members"
  /\ WipeStatements[30] = Memberships
  /\ WipeStatements[31] = "auth.role_permissions"
  /\ WipeStatements[32] = "auth.roles"
  /\ WipeStatements[33] = "auth.service_credentials"
  /\ WipeStatements[34] = UsersTable
  /\ WipeStatements[35] = Organizations
BY DEF WipeStatements, DELETE_ORDER, AuditOrder, CommandOrder

Earlier(c, i) == \E j \in 1..(i - 1) : WipeStatements[j] = c

\* What keeps a row of a table from being deleted is deleted before it.
LEMMA WipeOrder ==
  ASSUME NEW i \in 1..35, NEW c, <<c, WipeStatements[i]>> \in ForeignKeys \ Cascades
  PROVE  Earlier(c, i)
<1> USE WipeList DEF ForeignKeys, AuthKeys, CommandKeys, KnowledgeKeys, AuditKeys, NovaKeys,
   Cascades, Earlier, CommandTables, KnowledgeTables, NovaTables, Organizations, UsersTable, Memberships,
   FinalLink, EnabledConnector
<1>1. CASE i \in 1..7
  BY <1>1
<1>2. CASE i \in 8..14
  BY <1>2
<1>3. CASE i \in 15..21
  BY <1>3
<1>4. CASE i \in 22..28
  BY <1>4
<1>5. CASE i \in 29..35
  BY <1>5
<1> QED
  BY <1>1, <1>2, <1>3, <1>4, <1>5

\* What a build inserts names only what an earlier statement created.
Named(i) == Created \cup {UsersTable, Memberships}
             \cup {Build[j].what : j \in {k \in 1..(i - 1) : Build[k].op \in {"insert", "update"}}}

LEMMA BuildOrder ==
  ASSUME NEW i \in 1..Len(Build), Build[i].op \in {"insert", "update"},
         NEW p, <<Build[i].what, p>> \in ForeignKeys
  PROVE  p \in Named(i)
<1> USE DEF ForeignKeys, AuthKeys, CommandKeys, KnowledgeKeys, AuditKeys, NovaKeys,
   CommandTables, KnowledgeTables, NovaTables, Organizations, UsersTable, Memberships,
   FinalLink, EnabledConnector, Named, Created, Do
<1>1. CASE Build = DemoBuild
  <2>1. i \in 1..24
    BY <1>1, DemoStatements
  <2>2. CASE i \in 1..8
    BY <1>1, <2>2, DemoStatements
  <2>3. CASE i \in 9..16
    BY <1>1, <2>3, DemoStatements
  <2>4. CASE i \in 17..24
    BY <1>1, <2>4, DemoStatements
  <2> QED
    BY <2>1, <2>2, <2>3, <2>4
<1>2. CASE Build = DevBuild
  <2>1. i \in 1..14
    BY <1>2, DevStatements
  <2>2. CASE i \in 1..7
    BY <1>2, <2>2, DevStatements
  <2>3. CASE i \in 8..14
    BY <1>2, <2>3, DevStatements
  <2> QED
    BY <2>1, <2>2, <2>3
<1> QED
  BY <1>1, <1>2 DEF Build

\* The users a build creates are different people, and not the first one.
LEMMA BuildUsers ==
  /\ First \in Addresses
  /\ \A i \in 1..Len(Build) : Build[i].op = "organization" => Build[i].what = First
  /\ \A i \in 1..Len(Build) : Build[i].op = "user" =>
       /\ Build[i].what # First
       /\ \A j \in 1..Len(Build) : Build[j].op = "user" /\ Build[j].what = Build[i].what => j = i
<1>1. profile = "demo" => Build = DemoBuild /\ First = "director"
  BY DEF Build, First
<1>2. profile # "demo" => Build = DevBuild /\ First = "admin"
  BY DEF Build, First
<1>3. \A i \in 1..24 : /\ DemoBuild[i].op = "organization" => DemoBuild[i].what = "director"
                       /\ DemoBuild[i].op = "user" => \/ i = 9 /\ DemoBuild[i].what = "officer"
                                                      \/ i = 14 /\ DemoBuild[i].what = "analyst"
  BY DemoStatements DEF Do
<1>4. \A i \in 1..14 : /\ DevBuild[i].op = "organization" => DevBuild[i].what = "admin"
                       /\ DevBuild[i].op = "user" => i = 9 /\ DevBuild[i].what = "member"
  BY DevStatements DEF Do
<1>5. CASE profile = "demo"
  <2>1. Build = DemoBuild /\ First = "director" /\ Len(Build) = 24
    BY <1>1, <1>5, DemoStatements
  <2>2. First \in Addresses
    BY <2>1 DEF Addresses
  <2>3. \A i \in 1..24 : /\ Build[i].op = "organization" => Build[i].what = First
                         /\ Build[i].op = "user" => \/ i = 9 /\ Build[i].what = "officer"
                                                    \/ i = 14 /\ Build[i].what = "analyst"
    BY <1>3, <2>1
  <2>4. \A i \in 1..24 : Build[i].op = "user" =>
          /\ Build[i].what # First
          /\ \A j \in 1..24 : Build[j].op = "user" /\ Build[j].what = Build[i].what => j = i
    BY <2>1, <2>3
  <2> QED
    BY <2>1, <2>2, <2>3, <2>4
<1>6. CASE profile # "demo"
  BY <1>2, <1>4, <1>6, DevStatements DEF Addresses
<1> QED
  BY <1>5, <1>6
-----------------------------------------------------------------------------
(* Undisturbed runs *)

\* The organization of the demo that is there is the director's.
DirectorLeads ==
  profile = "demo" => \A o \in Orgs : Live(o) => account["director"] = o

\* An undisturbed wipe: what it has passed is deleted, the members it has read
\* are those of the tenant, and so are those it has dropped.
CalmWipe(s) ==
  /\ Strays = {}
  /\ \A i \in 1..(at[s] - 1) : WipeStatements[i] \in Tables => WipeStatements[i] \in gone
  /\ at[s] > 29 => seen = MembersOf(target[s])
  /\ \A i \in 1..(at[s] - 1) : WipeStatements[i] = Memberships => dropped = MembersOf(target[s])

\* An undisturbed build: before its first statement no address is taken; after
\* it, everything the build has passed is there, and the users it will create
\* are not there yet, or are members already.
CalmBuild(s) ==
  /\ at[s] = 1 => \A a \in Addresses : account[a] = NoUser
  /\ at[s] > 1 =>
       /\ Created \subseteq rows[target[s]]
       /\ account[First] = target[s]
       /\ \A j \in 1..(at[s] - 1) :
            /\ Build[j].op \in {"insert", "update"} => Build[j].what \in rows[target[s]]
            /\ Build[j].op = "member" => account[Build[j].what] = target[s]
       /\ \A j \in at[s]..Len(Build) : Build[j].op = "user" =>
            \/ account[Build[j].what] = NoUser
            \/ profile = "dev" /\ account[Build[j].what] = target[s]

\* What an undisturbed run leaves.
Rebuilt(s) ==
  /\ result[s] = "ok" /\ seedFile = target[s]
  /\ target[s] \in Orgs /\ Complete(target[s])

CalmAt(s) ==
  /\ Running \subseteq {s}
  /\ pc[s] = "wipe" => result[s] = "none" /\ CalmWipe(s)
  /\ pc[s] = "build" => result[s] = "none" /\ CalmBuild(s)
  /\ pc[s] = "idle" => Rebuilt(s)

CalmInv ==
  /\ \A s \in Scripts : pc[s] = "wipe" => profile = "demo"
  /\ calm \subseteq Scripts
  /\ \A s \in calm : CalmAt(s)

\* A development tenant as long as nobody died or overlapped: not there, or whole
\* but while a script works on it.
DevInv ==
  profile = "dev" /\ ~mishap =>
    /\ Running \subseteq calm
    /\ Running = {} => \/ \A a \in Addresses : account[a] = NoUser
                       \/ \E o \in Orgs : Complete(o)
\* The script that runs, if an undisturbed one does, is that one.
LEMMA CalmAlone ==
  ASSUME CalmInv, NEW s \in Scripts, pc[s] # "idle"
  PROVE  \A c \in calm : c = s /\ Running = {s}
BY DEF CalmInv, CalmAt, Running

\* Nothing keeps the rows of an undisturbed wipe from being deleted.
LEMMA CalmNotRestricted ==
  ASSUME Typed, NEW s \in Scripts, pc[s] = "wipe", at[s] \in 1..35, CalmWipe(s),
         Statement(s) \in Tables
  PROVE  ~Restricted(target[s], Statement(s))
<1> SUFFICES ASSUME NEW c \in Restricting(Statement(s)), c \in Left(target[s]) PROVE FALSE
  BY DEF Restricted
<1>1. c \in Tables /\ <<c, Statement(s)>> \in ForeignKeys \ Cascades
  BY ReferencesOf DEF Restricting
<1>2. PICK j \in 1..(at[s] - 1) : WipeStatements[j] = c
  BY <1>1, WipeOrder DEF Earlier, Statement
<1>3. c \in gone /\ (c = Memberships => dropped = MembersOf(target[s]))
  BY <1>1, <1>2 DEF CalmWipe
<1>4. target[s] \in Orgs
  BY WipeStep, WipeLength
<1> QED
  BY <1>1, <1>3, <1>4, StoredParts

\* A DELETE, or the read of the members, of an undisturbed wipe.
LEMMA CalmDelete ==
  ASSUME Typed, NEW s \in Scripts, CalmWipe(s), Delete(s) \/ SelectMembers(s)
  PROVE  CalmWipe(s)'
<1>1. /\ pc[s] = "wipe" /\ at[s] \in 1..35 /\ at' = [at EXCEPT ![s] = @ + 1]
      /\ UNCHANGED <<account, target>>
  BY WipeLength DEF Delete, SelectMembers, Advance, tenantVars
<1>2. at'[s] = at[s] + 1 /\ at[s] \in Nat
  BY <1>1, SmallTypes
<1>3. /\ Statement(s) = "select_members" <=> at[s] = 29
      /\ Statement(s) = Memberships => at[s] > 29
      /\ Statement(s) = WipeStatements[at[s]]
  BY <1>1, WipeStep, WipeLength DEF Statement
<1>4. "select_members" \notin Tables /\ "select_members" # Memberships
  BY DEF Tables, AuthTables, CommandTables, KnowledgeTables, AuditTables, NovaTables,
     Organizations, UsersTable, Memberships, FinalLink, EnabledConnector
<1>5. Strays' = Strays /\ MembersOf(target[s])' = MembersOf(target[s])
  BY <1>1 DEF Strays, MembersOf
<1>6. \A i \in 1..(at'[s] - 1) : i \in 1..(at[s] - 1) \/ i = at[s]
  BY <1>2
<1>7. CASE Delete(s)
  <2>1. /\ gone \subseteq gone' /\ Statement(s) \in gone' /\ seen' = seen /\ Statement(s) \in Tables
        /\ dropped' = IF Statement(s) = Memberships THEN MembersOf(target[s]) ELSE dropped
    BY <1>7 DEF Delete
  <2>2. at[s] # 29
    BY <1>3, <1>4, <2>1
  <2>3. at'[s] > 29 => seen' = MembersOf(target[s])'
    BY <1>2, <1>5, <2>1, <2>2 DEF CalmWipe
  <2>4. \A i \in 1..(at'[s] - 1) : WipeStatements[i] \in Tables => WipeStatements[i] \in gone'
    BY <1>3, <1>6, <2>1 DEF CalmWipe
  <2>5. \A i \in 1..(at'[s] - 1) : WipeStatements[i] = Memberships => dropped' = MembersOf(target[s])'
    BY <1>3, <1>5, <1>6, <2>1 DEF CalmWipe
  <2>6. Strays' = {}
    BY <1>5 DEF CalmWipe
  <2> QED
    BY <2>3, <2>4, <2>5, <2>6 DEF CalmWipe
<1>8. CASE SelectMembers(s)
  <2>1. seen' = MembersOf(target[s]) /\ gone' = gone /\ dropped' = dropped
        /\ Statement(s) = "select_members"
    BY <1>8 DEF SelectMembers
  <2>2. \A i \in 1..(at'[s] - 1) : WipeStatements[i] \in Tables => WipeStatements[i] \in gone'
    BY <1>3, <1>4, <1>6, <2>1 DEF CalmWipe
  <2>3. \A i \in 1..(at'[s] - 1) : WipeStatements[i] = Memberships => dropped' = MembersOf(target[s])'
    BY <1>3, <1>4, <1>5, <1>6, <2>1 DEF CalmWipe
  <2>4. Strays' = {}
    BY <1>5 DEF CalmWipe
  <2> QED
    BY <1>5, <2>1, <2>2, <2>3, <2>4 DEF CalmWipe
<1> QED
  BY <1>7, <1>8

\* The COMMIT of an undisturbed wipe leaves no address taken.
LEMMA CalmCommit ==
  ASSUME Typed, Whole, DirectorLeads, NEW s \in Scripts, profile = "demo", CalmWipe(s),
         CommitWipe(s)
  PROVE  at'[s] = 1 /\ \A a \in Addresses : account'[a] = NoUser
<1>1. /\ pc[s] = "wipe" /\ at[s] = 36 /\ at' = [at EXCEPT ![s] = 1]
      /\ account' = [a \in Addresses |->
                       IF a \in dropped THEN (IF a \in seen THEN NoUser ELSE Stray) ELSE account[a]]
  BY WipeLength DEF CommitWipe
<1> PICK o \in Orgs : o = target[s]
  BY <1>1 DEF Typed, InItsScript
<1>2. seen = MembersOf(o) /\ Strays = {}
  BY <1>1 DEF CalmWipe
<1>3. dropped = MembersOf(o)
  <2>1. 30 \in 1..(at[s] - 1) /\ WipeStatements[30] = Memberships
    BY <1>1, WipeList
  <2> QED
    BY <2>1 DEF CalmWipe
<1>4. Live(o)
  BY <1>1 DEF Whole, WipeInv, WipeSound, Wiping
<1>5. ASSUME NEW a \in Addresses, NEW p \in Orgs, account[a] = p
      PROVE  p = o
  <2>1. Live(p)
    BY <1>5, MembersLive DEF Whole, MembersOf
  <2> QED
    BY <1>4, <2>1 DEF DirectorLeads
<1>6. \A a \in Addresses : a \in MembersOf(o) \/ account[a] = NoUser
  BY <1>2, <1>5, SmallTypes DEF MembersOf, Strays
<1>7. \A a \in Addresses : account'[a] = NoUser
  BY <1>1, <1>2, <1>3, <1>6
<1> QED
  BY <1>1, <1>7, SmallTypes

\* No statement of an undisturbed build is rejected.
LEMMA CalmNotRejected ==
  ASSUME Typed, NEW s \in Scripts, pc[s] = "build", CalmBuild(s)
  PROVE  /\ Step(s).op \in {"insert", "update"} => Holds(target[s], Step(s).what)
         /\ ~Rejected(s)
<1>1. at[s] \in 1..Len(Build) /\ Sound(Build, at[s]) /\ Step(s) = Build[at[s]] /\ at[s] \in Nat
  BY BuildStep DEF Step
<1>2. CASE at[s] = 1
  <2>1. Step(s).op = "organization" /\ account[First] = NoUser
    BY <1>1, <1>2, BuildUsers DEF Sound, CalmBuild
  <2> QED
    BY <2>1 DEF Rejected, Building
<1>3. CASE at[s] > 1
  <2>1. Step(s).op # "organization" /\ target[s] \in Orgs
    BY <1>1, <1>3, BuildStep DEF Sound
  <2>2. Created \subseteq rows[target[s]] /\ account[First] = target[s] /\ First \in Addresses
    BY <1>3, BuildUsers DEF CalmBuild
  <2>3. Step(s).op \in {"insert", "update"} => Holds(target[s], Step(s).what)
    <3>1. SUFFICES ASSUME Step(s).op \in {"insert", "update"}, NEW p \in References[Step(s).what]
                   PROVE  p \in Stored(target[s])
      BY DEF Holds
    <3>2. Step(s).what \in Tables
      BY <1>1, <3>1, TiedRows DEF Sound
    <3>3. <<Build[at[s]].what, p>> \in ForeignKeys
      BY <1>1, <3>1, <3>2, ReferencesOf
    <3>4. p \in Named(at[s])
      BY <1>1, <3>1, <3>3, BuildOrder
    <3>5. {UsersTable, Memberships} \subseteq Stored(target[s])
      BY <2>1, <2>2 DEF Stored, MembersOf
    <3>6. rows[target[s]] \subseteq Stored(target[s])
      BY DEF Stored
    <3> QED
      BY <1>3, <2>2, <3>4, <3>5, <3>6 DEF Named, CalmBuild
  <2>4. Organizations \in rows[target[s]] /\ "auth.roles" \in rows[target[s]]
    BY <2>2 DEF Created
  <2>5. Step(s).op = "user" => account[Step(s).what] = NoUser \/ profile = "dev"
    BY <1>1, <1>3 DEF CalmBuild
  <2>6. Step(s).op = "user" /\ profile = "demo" => account[Step(s).what] = NoUser
    BY <2>5
  <2> QED
    BY <2>1, <2>3, <2>4, <2>6 DEF Rejected, Building
<1> QED
  BY <1>1, <1>2, <1>3

\* Each statement of an undisturbed build brings it on.
LEMMA CalmBuildStep ==
  ASSUME Typed, NEW s \in Scripts, pc[s] = "build", CalmBuild(s),
         \/ CreateOrganization(s) \/ InsertRow(s) \/ UpdateRow(s) \/ SkipUser(s)
         \/ CreateUser(s) \/ CreateMembership(s)
  PROVE  CalmBuild(s)'
<1>1. /\ at[s] \in 1..Len(Build) /\ at[s] \in Nat /\ Len(Build) \in Nat
      /\ Sound(Build, at[s]) /\ Step(s) = Build[at[s]] /\ Step(s).op # "file"
  BY BuildStep DEF Step, CreateOrganization, InsertRow, UpdateRow, SkipUser, CreateUser, CreateMembership, Building
<1> PICK i \in 1..Len(Build) : i = at[s]
  BY <1>1
<1>2. profile' = profile /\ Build' = Build /\ First' = First
  BY DEF CreateOrganization, InsertRow, UpdateRow, SkipUser, CreateUser, CreateMembership, Build, First
<1>3. \A j \in 1..i : j \in 1..(i - 1) \/ j = i
  BY <1>1
<1>4. CASE CreateOrganization(s)
  <2>1. /\ i = 1 /\ drawn + 1 \in Orgs
        /\ rows' = [rows EXCEPT ![drawn + 1] = Created]
        /\ account' = [account EXCEPT ![First] = drawn + 1]
        /\ target' = [target EXCEPT ![s] = drawn + 1]
        /\ at' = [at EXCEPT ![s] = @ + 1]
    BY <1>1, <1>4, CreateOrganizationTypes DEF CreateOrganization, Building, Sound
  <2>2. /\ at'[s] = 2 /\ target'[s] = drawn + 1 /\ rows'[target'[s]] = Created
        /\ account'[First] = drawn + 1
        /\ \A a \in Addresses : a = First \/ account'[a] = NoUser
    <3>0. at[s] = 1
      BY <2>1
    <3>1. \A a \in Addresses : account[a] = NoUser
      BY <3>0 DEF CalmBuild
    <3>2. at'[s] = 2 /\ target'[s] = drawn + 1
      BY <2>1, <3>0, SmallTypes DEF Typed, TypeOK
    <3>3. rows'[drawn + 1] = Created
      BY <2>1, SmallTypes
    <3> QED
      BY <2>1, <3>1, <3>2, <3>3, SmallTypes, BuildUsers
  <2>3. \A j \in 1..(at'[s] - 1) : Build[j].op = "organization"
    BY <1>1, <2>1, <2>2 DEF Sound
  <2>4. ASSUME NEW j \in at'[s]..Len(Build), Build[j].op = "user"
        PROVE  account'[Build[j].what] = NoUser
    <3>1. j \in 1..Len(Build)
      BY <2>2
    <3>2. Build[j].what # First /\ Build[j].what \in Addresses
      BY <2>4, <3>1, BuildUsers, BuildSound DEF Sound
    <3> QED
      BY <2>2, <3>2
  <2> QED
    BY <1>2, <2>2, <2>3, <2>4 DEF CalmBuild
<1>5. CASE ~CreateOrganization(s)
  <2>1. i > 1
    <3>1. Step(s).op # "organization"
      BY <1>1, <1>5 DEF InsertRow, UpdateRow, SkipUser, CreateUser, CreateMembership, Building
    <3> QED
      BY <1>1, <3>1 DEF Sound
  <2> PICK o \in Orgs : o = target[s]
    BY <1>1, <2>1, BuildStep DEF Sound
  <2>2. target' = target
    BY <1>5 DEF InsertRow, UpdateRow, SkipUser, CreateUser, CreateMembership, Advance
  <2>3. /\ Created \subseteq rows[o] /\ account[First] = o
        /\ \A j \in 1..(i - 1) :
             /\ Build[j].op \in {"insert", "update"} => Build[j].what \in rows[o]
             /\ Build[j].op = "member" => account[Build[j].what] = o
        /\ \A j \in i..Len(Build) : Build[j].op = "user" =>
             \/ account[Build[j].what] = NoUser
             \/ profile = "dev" /\ account[Build[j].what] = o
    BY <2>1 DEF CalmBuild
  <2>4. CASE InsertRow(s) \/ UpdateRow(s)
    <3>1. AddRow(o, Build[i].what) /\ at' = [at EXCEPT ![s] = @ + 1] /\ account' = account
          /\ Build[i].op \in {"insert", "update"}
      <4>1. Step(s).op \in {"insert", "update"}
        BY <2>4 DEF InsertRow, UpdateRow, Building
      <4>2. Holds(target[s], Step(s).what)
        BY <4>1, CalmNotRejected
      <4> QED
        BY <1>1, <2>4, <4>1, <4>2 DEF InsertRow, UpdateRow, Advance
    <3>2. /\ at'[s] = i + 1 /\ rows[o] \subseteq rows'[o] /\ Build[i].what \in rows'[o]
      BY <3>1, SmallTypes DEF AddRow
    <3>3. \A j \in 1..i :
             /\ Build[j].op \in {"insert", "update"} => Build[j].what \in rows'[o]
             /\ Build[j].op = "member" => account'[Build[j].what] = o
      BY <1>3, <2>3, <3>1, <3>2
    <3>4. \A j \in (i + 1)..Len(Build) : j \in i..Len(Build)
      OBVIOUS
    <3> QED
      BY <1>2, <2>1, <2>2, <2>3, <3>1, <3>2, <3>3, <3>4 DEF CalmBuild
  <2>5. CASE SkipUser(s)
    <3>1. /\ at' = [at EXCEPT ![s] = @ + 2] /\ account' = account /\ rows' = rows
          /\ Build[i].op = "user" /\ account[Build[i].what] # NoUser
      BY <1>1, <2>5 DEF SkipUser, Building, tenantVars
    <3>2. account[Build[i].what] = o /\ at'[s] = i + 2
      BY <2>3, <3>1, SmallTypes
    <3>3. Build[i + 1].op = "member" /\ Build[i + 1].what = Build[i].what
      BY <1>1, <3>1 DEF Sound, Do
    <3>4. \A j \in 1..(i + 1) :
             /\ Build[j].op \in {"insert", "update"} => Build[j].what \in rows'[o]
             /\ Build[j].op = "member" => account'[Build[j].what] = o
      <4>1. \A j \in 1..(i + 1) : j \in 1..(i - 1) \/ j = i \/ j = i + 1
        OBVIOUS
      <4> QED
        BY <2>3, <3>1, <3>2, <3>3, <4>1
    <3>5. \A j \in (i + 2)..Len(Build) : j \in i..Len(Build)
      OBVIOUS
    <3>6. (i + 2) - 1 = i + 1 /\ i + 2 > 1
      OBVIOUS
    <3> QED
      BY <1>2, <2>2, <2>3, <3>1, <3>2, <3>4, <3>5, <3>6 DEF CalmBuild
  <2>6. CASE CreateUser(s)
    <3>1. /\ at' = [at EXCEPT ![s] = @ + 1] /\ rows' = rows
          /\ Build[i].op = "user" /\ account' = [account EXCEPT ![Build[i].what] = Stray]
      BY <1>1, <2>6 DEF CreateUser, Building, Advance
    <3>2. /\ at'[s] = i + 1 /\ Build[i].what # First
          /\ \A a \in Addresses : a = Build[i].what \/ account'[a] = account[a]
      BY <3>1, SmallTypes, BuildUsers
    <3>3. ASSUME NEW j \in 1..Len(Build), Build[j].op = "user", j # i
          PROVE  Build[j].what # Build[i].what /\ account'[Build[j].what] = account[Build[j].what]
      <4>1. Build[j].what # Build[i].what /\ Build[j].what \in Addresses
        BY <3>1, <3>3, BuildUsers, BuildSound DEF Sound
      <4> QED
        BY <3>2, <4>1
    <3>4. ASSUME NEW j \in 1..(i - 1), Build[j].op = "member"
          PROVE  account'[Build[j].what] = o
      <4>1. j \in 1..Len(Build)
        BY <1>1
      <4>2. j > 1 /\ Build[j - 1] = Do("user", Build[j].what)
        BY <3>4, <4>1, BuildSound DEF Sound
      <4>3. j - 1 \in 1..Len(Build) /\ j - 1 # i /\ Build[j - 1].op = "user"
            /\ Build[j - 1].what = Build[j].what
        BY <1>1, <4>2 DEF Do
      <4> QED
        BY <2>3, <3>3, <3>4, <4>3
    <3>5. \A j \in 1..i :
             /\ Build[j].op \in {"insert", "update"} => Build[j].what \in rows'[o]
             /\ Build[j].op = "member" => account'[Build[j].what] = o
      BY <1>3, <2>3, <3>1, <3>4
    <3>6. \A j \in (i + 1)..Len(Build) : j \in i..Len(Build) /\ j \in 1..Len(Build) /\ j # i
      BY <1>1
    <3>7. \A j \in (i + 1)..Len(Build) : Build[j].op = "user" =>
             \/ account'[Build[j].what] = NoUser
             \/ profile = "dev" /\ account'[Build[j].what] = o
      BY <2>3, <3>3, <3>6
    <3>8. account'[First] = o
      BY <2>3, <3>2, BuildUsers
    <3> QED
      BY <1>2, <2>1, <2>2, <2>3, <3>1, <3>2, <3>5, <3>7, <3>8 DEF CalmBuild
  <2>7. CASE CreateMembership(s)
    <3>1. /\ at' = [at EXCEPT ![s] = @ + 1] /\ rows' = rows
          /\ Build[i].op = "member" /\ account' = [account EXCEPT ![Build[i].what] = o]
      BY <1>1, <2>7 DEF CreateMembership, Building, Advance
    <3>2. /\ i > 1 /\ Build[i - 1] = Do("user", Build[i].what) /\ i - 1 \in 1..Len(Build)
      BY <1>1, <3>1 DEF Sound
    <3>3. Build[i - 1].op = "user" /\ Build[i - 1].what = Build[i].what /\ Build[i].what \in Addresses
      <4>1. Build[i - 1].op = "user" /\ Build[i - 1].what = Build[i].what
        BY <3>2 DEF Do
      <4> QED
        BY <3>2, <4>1, BuildSound DEF Sound
    <3>4. /\ at'[s] = i + 1 /\ account'[Build[i].what] = o
          /\ \A a \in Addresses : account'[a] = account[a] \/ account'[a] = o
          /\ \A a \in Addresses : a # Build[i].what => account'[a] = account[a]
      BY <3>1, <3>3, SmallTypes
    <3>5. ASSUME NEW j \in 1..(i - 1), Build[j].op = "member"
          PROVE  account'[Build[j].what] = o
      <4>1. j \in 1..Len(Build)
        BY <1>1
      <4>2. j > 1 /\ Build[j - 1] = Do("user", Build[j].what) /\ j - 1 \in 1..Len(Build)
        BY <3>5, <4>1, BuildSound DEF Sound
      <4>3. Build[j - 1].op = "user" /\ Build[j - 1].what = Build[j].what
        BY <4>2 DEF Do
      <4>4. Build[j].what \in Addresses
        BY <4>2, <4>3, BuildSound DEF Sound
      <4> QED
        BY <2>3, <3>4, <3>5, <4>4
    <3>6. \A j \in 1..i :
             /\ Build[j].op \in {"insert", "update"} => Build[j].what \in rows'[o]
             /\ Build[j].op = "member" => account'[Build[j].what] = o
      BY <1>3, <2>3, <3>1, <3>4, <3>5
    <3>7. ASSUME NEW j \in (i + 1)..Len(Build), Build[j].op = "user"
          PROVE  account'[Build[j].what] = account[Build[j].what]
      <4>1. j \in 1..Len(Build) /\ j # i - 1
        BY <1>1
      <4>2. Build[j].what # Build[i].what /\ Build[j].what \in Addresses
        BY <3>2, <3>3, <3>7, <4>1, BuildUsers, BuildSound DEF Sound
      <4> QED
        BY <3>4, <4>2
    <3>8. \A j \in (i + 1)..Len(Build) : j \in i..Len(Build)
      OBVIOUS
    <3>9. account'[First] = o
      BY <2>3, <3>4, BuildUsers
    <3> QED
      BY <1>2, <2>1, <2>2, <2>3, <3>1, <3>4, <3>6, <3>7, <3>8, <3>9 DEF CalmBuild
  <2> QED
    BY <1>5, <2>4, <2>5, <2>6, <2>7
<1> QED
  BY <1>4, <1>5

\* The last statement of an undisturbed build finds it complete.
LEMMA CalmEnd ==
  ASSUME Typed, NEW s \in Scripts, CalmBuild(s), WriteSeedFile(s)
  PROVE  Rebuilt(s)'
<1>1. /\ pc[s] = "build" /\ at[s] \in 1..Len(Build) /\ Step(s) = Build[at[s]] /\ Step(s).op = "file"
      /\ Sound(Build, at[s]) /\ Len(Build) \in 14..24 /\ target[s] \in Orgs
  BY BuildStep DEF WriteSeedFile, Building, Step
<1> PICK o \in Orgs : o = target[s]
  BY <1>1
<1>2. at[s] = Len(Build) /\ at[s] > 1
  BY <1>1 DEF Sound
<1>3. /\ Created \subseteq rows[o] /\ account[First] = o
      /\ \A j \in 1..(Len(Build) - 1) :
           /\ Build[j].op \in {"insert", "update"} => Build[j].what \in rows[o]
           /\ Build[j].op = "member" => account[Build[j].what] = o
  BY <1>2 DEF CalmBuild
<1>4. UNCHANGED <<profile, rows, account>> /\ seedFile' = o /\ target' = target
      /\ result' = [result EXCEPT ![s] = "ok"]
  BY DEF WriteSeedFile, End, tenantVars
<1>5. DOMAIN Build = 1..Len(Build)
  BY DemoStatements, DevStatements DEF Build
<1>6. Build[Len(Build)].op = "file"
  BY <1>1, <1>2
<1>7. \A j \in DOMAIN Build : j \in 1..(Len(Build) - 1) \/ j = Len(Build)
  BY <1>1, <1>5
<1>8. Expected \subseteq rows[o]
  BY <1>3, <1>6, <1>7 DEF Expected
<1>9. ASSUME NEW j \in DOMAIN Build, Build[j].op \in {"organization", "user"}
      PROVE  Build[j].what \in MembersOf(o)
  <2>1. CASE Build[j].op = "organization"
    BY <1>3, <1>5, <2>1, BuildUsers DEF MembersOf
  <2>2. CASE Build[j].op = "user"
    <3>1. /\ j + 2 <= Len(Build) /\ Build[j].what \in Addresses
          /\ Build[j + 1] = Do("member", Build[j].what)
      BY <1>5, <2>2, BuildSound DEF Sound
    <3>2. j + 1 \in 1..(Len(Build) - 1)
      BY <1>1, <1>5, <3>1
    <3>3. Build[j + 1].op = "member" /\ Build[j + 1].what = Build[j].what
      BY <3>1 DEF Do
    <3> QED
      BY <1>3, <3>1, <3>2, <3>3 DEF MembersOf
  <2> QED
    BY <1>9, <2>1, <2>2
<1>10. Complete(o)
  BY <1>8, <1>9 DEF Complete, People
<1>11. Complete(o)'
  BY <1>4, <1>10 DEF Complete, Expected, People, Build, MembersOf
<1>12. result'[s] = "ok"
  BY <1>4 DEF Typed, TypeOK
<1>13. Complete(target[s])'
  BY <1>4, <1>11
<1> QED
  BY <1>4, <1>12, <1>13 DEF Rebuilt

\* The director stays with the organization that is there.
LEMMA LeaderStep ==
  ASSUME Typed, Whole, DirectorLeads, NEW s \in Scripts,
         \/ \E o \in Orgs : StartWipe(s, o)
         \/ StartDemo(s) \/ StartDev(s) \/ Delete(s) \/ SelectMembers(s) \/ WipeFails(s)
         \/ CommitWipe(s) \/ CreateOrganization(s) \/ InsertRow(s) \/ UpdateRow(s)
         \/ SkipUser(s) \/ CreateUser(s) \/ CreateMembership(s) \/ BuildFails(s)
         \/ WriteSeedFile(s) \/ Die(s)
  PROVE  DirectorLeads'
<1>0. profile' = profile
  BY OthersStay
<1> SUFFICES ASSUME profile = "demo", NEW o \in Orgs, Live(o)'
             PROVE  account'["director"] = o
  BY <1>0 DEF DirectorLeads
<1>1. First = "director" /\ "director" \in Addresses
  BY DEF First, Addresses
<1>2. ASSUME UNCHANGED <<rows, account>> PROVE account'["director"] = o
  BY <1>2 DEF Live, DirectorLeads
<1>3. CASE \/ \E p \in Orgs : StartWipe(s, p)
           \/ StartDemo(s) \/ StartDev(s) \/ Delete(s) \/ SelectMembers(s) \/ WipeFails(s)
           \/ SkipUser(s) \/ BuildFails(s) \/ WriteSeedFile(s) \/ Die(s)
  BY <1>2, <1>3 DEF StartWipe, StartDemo, StartDev, Start, Delete, SelectMembers, WipeFails, SkipUser,
     BuildFails, WriteSeedFile, Die, tenantVars
<1>4. CASE CommitWipe(s)
  <2>1. /\ s \in Wiping /\ at[s] = 36 /\ target[s] \in Orgs
        /\ rows' = [rows EXCEPT ![target[s]] = @ \ gone]
    BY <1>4, WipeLength DEF CommitWipe, Wiping, Typed, InItsScript
  <2>2. Live(target[s]) /\ Organizations \in gone
    <3>1. 35 \in 1..(at[s] - 1) /\ WipeStatements[35] = Organizations
      BY <2>1, WipeList
    <3> QED
      BY <2>1, <3>1 DEF Whole, WipeInv, WipeSound
  <2>3. o # target[s] /\ Live(o)
    BY <2>1, <2>2, SmallTypes DEF Live
  <2> QED
    BY <2>1, <2>2, <2>3 DEF DirectorLeads
<1>5. CASE CreateOrganization(s)
  <2>1. /\ account["director"] = NoUser /\ drawn + 1 \in Orgs
        /\ rows' = [rows EXCEPT ![drawn + 1] = Created]
        /\ account' = [account EXCEPT !["director"] = drawn + 1]
    BY <1>1, <1>5, CreateOrganizationTypes DEF CreateOrganization
  <2>2. ~Live(o)
    BY <2>1 DEF DirectorLeads, NoUser, Orgs
  <2>3. o = drawn + 1
    BY <2>1, <2>2, SmallTypes DEF Live
  <2> QED
    BY <1>1, <2>1, <2>3, SmallTypes
<1>6. CASE InsertRow(s) \/ UpdateRow(s)
  <2>1. pc[s] = "build" /\ Step(s).op \in {"insert", "update"} /\ account' = account
    BY <1>6 DEF InsertRow, UpdateRow, Building
  <2>2. Step(s).what # Organizations
    BY <2>1, BuildStep, TiedRows DEF Sound, Step
  <2>3. rows' = rows \/ rows' = [rows EXCEPT ![target[s]] = @ \cup {Step(s).what}]
    BY <1>6 DEF InsertRow, UpdateRow, AddRow
  <2>4. Live(o)
    BY <2>2, <2>3, SmallTypes DEF Live
  <2> QED
    BY <2>1, <2>4 DEF DirectorLeads
<1>7. CASE CreateUser(s) \/ CreateMembership(s)
  <2>1. /\ pc[s] = "build" /\ Step(s).op \in {"user", "member"} /\ rows' = rows
        /\ \E x : account' = [account EXCEPT ![Step(s).what] = x]
    BY <1>7 DEF CreateUser, CreateMembership, Building
  <2>2. Step(s).what # "director"
    <3>1. /\ at[s] \in 1..Len(Build) /\ Len(Build) \in 14..24 /\ Sound(Build, at[s])
          /\ Step(s) = Build[at[s]]
      BY <2>1, BuildStep DEF Step
    <3>2. CASE Step(s).op = "user"
      BY <1>1, <3>1, <3>2, BuildUsers
    <3>3. CASE Step(s).op = "member"
      <4>1. /\ at[s] - 1 \in 1..Len(Build) /\ Build[at[s] - 1].op = "user"
            /\ Build[at[s] - 1].what = Step(s).what
        BY <3>1, <3>3 DEF Sound, Do
      <4> QED
        BY <1>1, <4>1, BuildUsers
    <3> QED
      BY <2>1, <3>2, <3>3
  <2>3. account'["director"] = account["director"]
    BY <1>1, <2>1, <2>2, SmallTypes
  <2> QED
    BY <2>1, <2>3 DEF Live, DirectorLeads
<1> QED
  BY <1>3, <1>4, <1>5, <1>6, <1>7

\* A run that starts undisturbed, at the statement it starts with.
LEMMA CalmStartAt ==
  ASSUME Typed, Whole, DevInv, NEW s \in Scripts,
         \A u \in Scripts : pc[u] = "wipe" => profile = "demo",
         NEW label \in {"wipe", "build"}, NEW n \in 1..40, NEW o \in Orgs \cup {0},
         Start(s, label, n, o),
         label = "wipe" => profile = "demo" /\ n = 1,
         label = "build" => \/ /\ n = 1
                               /\ \/ profile = "demo" /\ \A p \in Orgs : ~Live(p)
                                  \/ profile = "dev" /\ account["admin"] \notin Orgs
                            \/ profile = "dev" /\ n = 9 /\ o \in Orgs /\ o = account["admin"]
  PROVE  CalmInv'
<1>1. /\ profile' = profile /\ account' = account /\ rows' = rows
      /\ calm' = (IF Running = {} /\ Strays = {} /\ (profile = "dev" => ~mishap) THEN {s} ELSE {})
      /\ result' = [result EXCEPT ![s] = "none"]
  BY DEF Start, tenantVars
<1>2. /\ pc' = [pc EXCEPT ![s] = label] /\ at' = [at EXCEPT ![s] = n]
      /\ target' = [target EXCEPT ![s] = o]
  BY DEF Start
<1>3. pc'[s] = label /\ at'[s] = n /\ target'[s] = o /\ result'[s] = "none"
      /\ \A u \in Scripts \ {s} : pc'[u] = pc[u]
  BY <1>1, <1>2, SmallTypes DEF Typed, TypeOK
<1>4. \A u \in Scripts : pc'[u] = "wipe" => profile' = "demo"
  BY <1>1, <1>2, <1>3
<1>5. ASSUME Running = {}, Strays = {}, profile = "dev" => ~mishap
      PROVE  CalmAt(s)'
  <2>1. Running' \subseteq {s} /\ Strays' = {}
    BY <1>1, <1>3, <1>5 DEF Running, Strays
  <2>2. CASE label = "wipe"
    <3>1. at'[s] = 1 /\ pc'[s] = "wipe"
      BY <1>2, <1>3, <2>2
    <3>2. CalmWipe(s)'
      BY <2>1, <3>1 DEF CalmWipe
    <3> QED
      BY <1>3, <2>1, <3>1, <3>2 DEF CalmAt
  <2>3. CASE label = "build"
    <3>1. pc'[s] = "build" /\ First' = First /\ Build' = Build
      BY <1>1, <1>3, <2>3 DEF First, Build
    <3>2. CalmBuild(s)'
      <4>1. CASE n = 1 /\ profile = "demo" /\ \A p \in Orgs : ~Live(p)
        <5>1. \A p \in Orgs : MembersOf(p) = {}
          BY <4>1, MembersLive DEF Whole
        <5>2. \A a \in Addresses : account[a] = NoUser
          BY <1>5, <5>1, SmallTypes DEF MembersOf, Strays
        <5> QED
          BY <1>1, <1>3, <4>1, <5>2 DEF CalmBuild
      <4>2. CASE n = 1 /\ profile = "dev" /\ account["admin"] \notin Orgs
        <5>1. \/ \A a \in Addresses : account[a] = NoUser
              \/ \E p \in Orgs : Complete(p)
          BY <1>5, <4>2 DEF DevInv
        <5>2. \A p \in Orgs : ~Complete(p)
          <6>1. Build = DevBuild /\ 1 \in DOMAIN Build /\ Build[1] = Do("organization", "admin")
            BY <4>2, DevStatements DEF Build
          <6>2. "admin" \in People
            BY <6>1 DEF People, Do
          <6> QED
            BY <4>2, <6>2 DEF Complete, MembersOf
        <5> QED
          BY <1>1, <1>3, <4>2, <5>1, <5>2 DEF CalmBuild
      <4>3. CASE profile = "dev" /\ n = 9 /\ o \in Orgs /\ o = account["admin"]
        <5>1. \E p \in Orgs : Complete(p)
          <6>1. account["admin"] # NoUser /\ "admin" \in Addresses
            BY <4>3 DEF NoUser, Orgs, Addresses
          <6> QED
            BY <1>5, <4>3, <6>1 DEF DevInv
        <5> PICK p \in Orgs : Complete(p)
          BY <5>1
        <5>2. Build = DevBuild /\ Len(Build) = 14 /\ DOMAIN Build = 1..14 /\ First = "admin"
          BY <4>3, DevStatements DEF Build, First
        <5>3. Build[1].op = "organization" /\ Build[1].what = "admin" 
          BY <5>2, DevStatements DEF Do
        <5>4. p = o
          BY <4>3, <5>2, <5>3 DEF Complete, People, MembersOf
        <5>5. /\ Created \subseteq rows[o]
              /\ \A j \in 1..14 : Build[j].op \in {"insert", "update"} => Build[j].what \in rows[o]
              /\ \A j \in 1..14 : Build[j].op = "user" => account[Build[j].what] = o
          BY <5>2, <5>4 DEF Complete, Expected, People, MembersOf
        <5>6. \A j \in 1..8 : Build[j].op # "member"
          BY <5>2, DevStatements DEF Do
        <5> QED
          BY <1>1, <1>3, <3>1, <4>3, <5>2, <5>5, <5>6 DEF CalmBuild
      <4> QED
        BY <1>2, <2>3, <4>1, <4>2, <4>3
    <3> QED
      BY <1>3, <2>1, <3>1, <3>2 DEF CalmAt
  <2> QED
    BY <2>2, <2>3
<1>6. calm' \subseteq Scripts
  BY <1>1
<1>7. \A c \in calm' : CalmAt(c)'
  BY <1>1, <1>5
<1> QED
  BY <1>4, <1>6, <1>7 DEF CalmInv

\* A run that starts undisturbed.
LEMMA CalmStart ==
  ASSUME Typed, Whole, DevInv, NEW s \in Scripts,
         (\E o \in Orgs : StartWipe(s, o)) \/ StartDemo(s) \/ StartDev(s),
         \A u \in Scripts : pc[u] = "wipe" => profile = "demo"
  PROVE  CalmInv'
<1>1. ASSUME NEW o \in Orgs, StartWipe(s, o) PROVE CalmInv'
  BY <1>1, CalmStartAt DEF StartWipe
<1>2. ASSUME StartDemo(s) PROVE CalmInv'
  BY <1>2, CalmStartAt DEF StartDemo
<1>3. ASSUME StartDev(s) PROVE CalmInv'
  <2>1. CASE account["admin"] \in Orgs
    BY <1>3, <2>1, CalmStartAt, DevContinues DEF StartDev
  <2>2. CASE account["admin"] \notin Orgs
    BY <1>3, <2>2, CalmStartAt DEF StartDev
  <2> QED
    BY <2>1, <2>2
<1> QED
  BY <1>1, <1>2, <1>3

\* Every statement of a run that nothing disturbs does what it should.
LEMMA CalmScript ==
  ASSUME Typed, Whole, DirectorLeads, CalmInv, NEW s \in Scripts,
         \/ Delete(s) \/ SelectMembers(s) \/ WipeFails(s)
         \/ CommitWipe(s) \/ CreateOrganization(s) \/ InsertRow(s) \/ UpdateRow(s)
         \/ SkipUser(s) \/ CreateUser(s) \/ CreateMembership(s) \/ BuildFails(s)
         \/ WriteSeedFile(s) \/ Die(s)
  PROVE  CalmInv'
<1>1. pc[s] # "idle" /\ (BuildFails(s) => pc[s] = "build")
  BY DEF Delete, SelectMembers, WipeFails, CommitWipe, CreateOrganization, InsertRow, UpdateRow,
     SkipUser, CreateUser, CreateMembership, BuildFails, Rejected, WriteSeedFile, Die, Building
<1>2. \A c \in calm : c = s /\ Running = {s}
  BY <1>1, CalmAlone
<1>3. calm' \subseteq calm /\ (Die(s) => s \notin calm')
  BY DEF Delete, SelectMembers, WipeFails, CommitWipe, CreateOrganization, InsertRow, UpdateRow,
     SkipUser, CreateUser, CreateMembership, BuildFails, WriteSeedFile, Die, historyVars
<1>4. /\ profile' = profile
      /\ \A u \in Scripts \ {s} : pc'[u] = pc[u] /\ at'[u] = at[u] /\ target'[u] = target[u]
  BY OthersStay
<1>5. pc'[s] = "wipe" => pc[s] = "wipe"
  <2>1. CASE Delete(s) \/ SelectMembers(s) \/ InsertRow(s) \/ UpdateRow(s) \/ SkipUser(s)
             \/ CreateUser(s) \/ CreateMembership(s) \/ CreateOrganization(s)
    BY <2>1 DEF Delete, SelectMembers, InsertRow, UpdateRow, SkipUser, CreateUser, CreateMembership,
       CreateOrganization, Advance
  <2>2. CASE WipeFails(s) \/ BuildFails(s) \/ WriteSeedFile(s) \/ Die(s) \/ CommitWipe(s)
    BY <2>2, SmallTypes DEF WipeFails, BuildFails, WriteSeedFile, Die, End, CommitWipe
  <2> QED
    BY <2>1, <2>2
<1>6. \A u \in Scripts : pc'[u] = "wipe" => profile' = "demo"
  BY <1>4, <1>5 DEF CalmInv
<1>7. ASSUME s \in calm' PROVE CalmAt(s)'
  <2>1. /\ s \in calm /\ ~Die(s) /\ Running' \subseteq {s}
        /\ pc[s] = "wipe" => result[s] = "none" /\ CalmWipe(s) /\ profile = "demo"
        /\ pc[s] = "build" => result[s] = "none" /\ CalmBuild(s)
    <3>1. s \in calm /\ ~Die(s)
      BY <1>3, <1>7
    <3>2. Running' \subseteq {s}
      BY <1>2, <1>4, <3>1 DEF Running
    <3> QED
      BY <3>1, <3>2 DEF CalmInv, CalmAt
  <2>2. CASE Delete(s) \/ SelectMembers(s)
    <3>1. pc[s] = "wipe" /\ pc' = pc /\ result' = result
      BY <2>2 DEF Delete, SelectMembers, Advance
    <3>2. CalmWipe(s)'
      BY <2>1, <2>2, <3>1, CalmDelete
    <3> QED
      BY <2>1, <3>1, <3>2 DEF CalmAt
  <2>3. CASE WipeFails(s)
    BY <2>1, <2>3, CalmNotRestricted, WipeLength DEF WipeFails
  <2>4. CASE CommitWipe(s)
    <3>1. pc[s] = "wipe" /\ pc'[s] = "build" /\ result' = result
      BY <2>4, SmallTypes DEF CommitWipe
    <3>2. at'[s] = 1 /\ \A a \in Addresses : account'[a] = NoUser
      BY <2>1, <2>4, <3>1, CalmCommit
    <3>3. CalmBuild(s)'
      BY <3>2 DEF CalmBuild
    <3> QED
      BY <2>1, <3>1, <3>3 DEF CalmAt
  <2>5. CASE \/ CreateOrganization(s) \/ InsertRow(s) \/ UpdateRow(s) \/ SkipUser(s)
             \/ CreateUser(s) \/ CreateMembership(s)
    <3>1. pc[s] = "build" /\ pc' = pc /\ result' = result
      BY <2>5 DEF CreateOrganization, InsertRow, UpdateRow, SkipUser, CreateUser, CreateMembership,
         Building, Advance
    <3>2. CalmBuild(s)'
      BY <2>1, <2>5, <3>1, CalmBuildStep
    <3> QED
      BY <2>1, <3>1, <3>2 DEF CalmAt
  <2>6. CASE BuildFails(s)
    BY <1>1, <2>1, <2>6, CalmNotRejected DEF BuildFails
  <2>7. CASE WriteSeedFile(s)
    <3>1. pc[s] = "build" /\ pc'[s] = "idle"
      BY <2>7, SmallTypes DEF WriteSeedFile, Building, End
    <3>2. Rebuilt(s)'
      BY <2>1, <2>7, <3>1, CalmEnd
    <3> QED
      BY <2>1, <3>1, <3>2 DEF CalmAt
  <2> QED
    BY <2>1, <2>2, <2>3, <2>4, <2>5, <2>6, <2>7
<1>8. calm' \subseteq Scripts /\ \A c \in calm' : CalmAt(c)'
  BY <1>2, <1>3, <1>7
<1> QED
  BY <1>6, <1>8 DEF CalmInv

\* A request only adds a row to a tenant, and never one tying it to itself.
LEMMA RequestAdds ==
  ASSUME Typed, NEW q \in Requests,
         \/ \E o \in Orgs : BeginRequest(q, o)
         \/ \E t \in RowTables : InsertByRequest(q, t)
         \/ EndRequest(q)
  PROVE  /\ UNCHANGED <<profile, account, drawn, seen, dropped, pc, at, target, result, seedFile, mishap>>
         /\ \A o \in Orgs : rows[o] \subseteq rows'[o] /\ (Live(o)' <=> Live(o))
         /\ \/ calm' = calm /\ gone' = gone
            \/ /\ calm' = {s \in calm : ~Wipes(s, request[q])}
               /\ (\A s \in Wiping : target[s] # request[q]) => gone' = gone
<1>1. CASE (\E o \in Orgs : BeginRequest(q, o)) \/ EndRequest(q)
  BY <1>1 DEF BeginRequest, EndRequest, tenantVars, wipeVars, scriptVars, historyVars, Live
<1>2. ASSUME NEW t \in RowTables, InsertByRequest(q, t)
      PROVE  /\ UNCHANGED <<profile, account, drawn, seen, dropped, pc, at, target, result, seedFile, mishap>>
             /\ \A o \in Orgs : rows[o] \subseteq rows'[o] /\ (Live(o)' <=> Live(o))
             /\ calm' = {s \in calm : ~Wipes(s, request[q])}
             /\ (\A s \in Wiping : target[s] # request[q]) => gone' = gone
  <2>1. t # Organizations
    BY RowTablesAssumption
  <2>2. /\ rows' = [rows EXCEPT ![request[q]] = @ \cup {t}]
        /\ gone' = IF \E s \in Wiping : target[s] = request[q] THEN gone \ {t} ELSE gone
    BY <1>2 DEF InsertByRequest, AddRow, Returned
  <2>3. \A o \in Orgs : rows[o] \subseteq rows'[o] /\ (Live(o)' <=> Live(o))
    BY <2>1, <2>2, SmallTypes DEF Live
  <2>4. UNCHANGED <<profile, account, drawn, seen, dropped, pc, at, target, result, seedFile, mishap>>
    BY <1>2 DEF InsertByRequest, scriptVars
  <2>5. calm' = {s \in calm : ~Wipes(s, request[q])}
    BY <1>2 DEF InsertByRequest
  <2> QED
    BY <2>2, <2>3, <2>4, <2>5
<1> QED
  BY <1>1, <1>2

\* A request disturbs a run only by writing to the tenant it wipes.
LEMMA CalmRequest ==
  ASSUME Typed, CalmInv, DevInv, DirectorLeads, NEW q \in Requests,
         \/ \E o \in Orgs : BeginRequest(q, o)
         \/ \E t \in RowTables : InsertByRequest(q, t)
         \/ EndRequest(q)
  PROVE  CalmInv' /\ DevInv' /\ DirectorLeads'
<1>1. /\ UNCHANGED <<profile, account, drawn, seen, dropped, pc, at, target, result, seedFile, mishap>>
      /\ \A o \in Orgs : rows[o] \subseteq rows'[o] /\ (Live(o)' <=> Live(o))
      /\ \/ calm' = calm /\ gone' = gone
         \/ /\ calm' = {s \in calm : ~Wipes(s, request[q])}
            /\ (\A s \in Wiping : target[s] # request[q]) => gone' = gone
  BY RequestAdds
<1>2. Running' = Running /\ Strays' = Strays /\ Build' = Build /\ First' = First
  BY <1>1 DEF Running, Strays, Build, First
<1>3. \A o : MembersOf(o)' = MembersOf(o)
  BY <1>1 DEF MembersOf
<1>4. \A o \in Orgs : Complete(o) => Complete(o)'
  <2>1. Expected' = Expected /\ People' = People
    BY <1>2 DEF Expected, People
  <2> QED
    BY <1>1, <1>3, <2>1 DEF Complete
<1>5. ASSUME NEW c \in calm' PROVE c \in calm /\ CalmAt(c)'
  <2>1. c \in calm /\ c \in Scripts /\ CalmAt(c)
    BY <1>1, <1>5 DEF CalmInv
  <2>2. pc[c] = "wipe" => gone' = gone
    <3>1. pc[c] = "wipe" /\ calm' # calm => target[c] # request[q]
      BY <1>1, <1>5 DEF Wipes
    <3>2. \A s \in Wiping : s = c
      BY <2>1 DEF CalmAt, Wiping, Running
    <3> QED
      BY <1>1, <1>5, <3>1, <3>2 DEF Wipes
  <2>3. CalmWipe(c) /\ pc[c] = "wipe" => CalmWipe(c)'
    BY <1>1, <1>2, <1>3, <2>2 DEF CalmWipe
  <2>4. CalmBuild(c) /\ pc[c] = "build" => CalmBuild(c)'
    <3> SUFFICES ASSUME CalmBuild(c), pc[c] = "build" PROVE CalmBuild(c)'
      OBVIOUS
    <3>1. at[c] > 1 => target[c] \in Orgs
      BY <2>1 DEF Typed, InItsScript
    <3>2. at[c] > 1 => rows[target[c]] \subseteq rows'[target[c]]
      BY <1>1, <3>1
    <3> QED
      BY <1>1, <1>2, <3>2 DEF CalmBuild
  <2>5. Rebuilt(c) => Rebuilt(c)'
    <3>1. Rebuilt(c) => Complete(target[c])'
      BY <1>1, <1>4 DEF Rebuilt
    <3> QED
      BY <1>1, <3>1 DEF Rebuilt
  <2> QED
    BY <1>1, <1>2, <2>1, <2>3, <2>4, <2>5 DEF CalmAt
<1>6. CalmInv'
  BY <1>1, <1>5 DEF CalmInv
<1>7. DevInv'
  <2>1. profile = "dev" => calm' = calm
    BY <1>1 DEF CalmInv, Wipes
  <2> QED
    BY <1>1, <1>2, <1>4, <2>1 DEF DevInv
<1>8. DirectorLeads'
  BY <1>1 DEF DirectorLeads
<1> QED
  BY <1>6, <1>7, <1>8

\* A development seed that nothing disturbs leaves nothing or a whole tenant.
LEMMA DevScript ==
  ASSUME Typed, Typed', Quiet, CalmInv, CalmInv', DevInv, NEW s \in Scripts,
         \/ \E o \in Orgs : StartWipe(s, o)
         \/ StartDemo(s) \/ StartDev(s) \/ Delete(s) \/ SelectMembers(s) \/ WipeFails(s)
         \/ CommitWipe(s) \/ CreateOrganization(s) \/ InsertRow(s) \/ UpdateRow(s)
         \/ SkipUser(s) \/ CreateUser(s) \/ CreateMembership(s) \/ BuildFails(s)
         \/ WriteSeedFile(s) \/ Die(s)
  PROVE  DevInv'
<1>1. /\ profile' = profile
      /\ \A u \in Scripts \ {s} : pc'[u] = pc[u] /\ at'[u] = at[u] /\ target'[u] = target[u]
  BY OthersStay
<1> SUFFICES ASSUME profile = "dev", ~mishap'
             PROVE  /\ (Running \subseteq calm)'
                    /\ Running' = {} => \/ \A a \in Addresses : account'[a] = NoUser
                                        \/ \E o \in Orgs : Complete(o)'
  BY <1>1 DEF DevInv
<1>2. CASE (\E o \in Orgs : StartWipe(s, o)) \/ StartDemo(s) \/ StartDev(s)
  <2>1. /\ ~mishap /\ Running = {}
        /\ calm' = (IF Running = {} /\ Strays = {} /\ (profile = "dev" => ~mishap) THEN {s} ELSE {})
        /\ \E label \in {"wipe", "build"} : pc' = [pc EXCEPT ![s] = label]
    BY <1>2 DEF StartWipe, StartDemo, StartDev, Start
  <2>2. Strays = {}
    BY <2>1 DEF Quiet, AtMember, Building, Running
  <2>3. pc'[s] # "idle"
    BY <2>1, SmallTypes
  <2>4. Running' = {s}
    BY <1>1, <2>1, <2>3 DEF Running
  <2> QED
    BY <2>1, <2>2, <2>4
<1>3. CASE \/ Delete(s) \/ SelectMembers(s) \/ WipeFails(s)
           \/ CommitWipe(s) \/ CreateOrganization(s) \/ InsertRow(s) \/ UpdateRow(s)
           \/ SkipUser(s) \/ CreateUser(s) \/ CreateMembership(s) \/ BuildFails(s)
           \/ WriteSeedFile(s) \/ Die(s)
  <2>1. pc[s] # "idle"
    BY <1>3 DEF Delete, SelectMembers, WipeFails, CommitWipe, CreateOrganization, InsertRow, UpdateRow,
       SkipUser, CreateUser, CreateMembership, BuildFails, Rejected, WriteSeedFile, Die, Building
  <2>2. ~mishap /\ calm' = calm
    BY <1>3 DEF Delete, SelectMembers, WipeFails, CommitWipe, CreateOrganization, InsertRow, UpdateRow,
       SkipUser, CreateUser, CreateMembership, BuildFails, WriteSeedFile, Die, historyVars
  <2>3. s \in calm
    BY <2>1, <2>2 DEF DevInv, Running
  <2>4. Running' \subseteq {s}
    BY <1>1, <2>1, <2>3, CalmAlone DEF Running
  <2>5. CASE pc'[s] = "idle"
    <3>1. Rebuilt(s)'
      BY <2>2, <2>3, <2>5 DEF CalmInv, CalmAt
    <3>2. target'[s] \in Orgs /\ Complete(target[s])'
      BY <3>1 DEF Rebuilt
    <3>3. \E o \in Orgs : Complete(o)'
      BY <3>2 DEF Complete, MembersOf
    <3> QED
      BY <2>2, <2>3, <2>4, <3>3
  <2>6. CASE pc'[s] # "idle"
    BY <2>2, <2>3, <2>4, <2>6 DEF Running
  <2> QED
    BY <2>5, <2>6
<1> QED
  BY <1>2, <1>3

RebuildInv == DemoInv /\ DirectorLeads /\ CalmInv /\ DevInv

\* The first state is a demo tenant of the director's or no tenant at all.
LEMMA RebuildFirst ==
  ASSUME Init
  PROVE  RebuildInv
<1>1. PICK full \in (IF profile = "demo" THEN BOOLEAN ELSE {FALSE}) :
         /\ rows = [o \in Orgs |-> IF full /\ o = 1 THEN Tables \ {UsersTable, Memberships}
                                   ELSE {}]
         /\ account = [a \in Addresses |-> IF full /\ a \in People THEN 1 ELSE NoUser]
  BY DEF Init
<1>2. DirectorLeads
  <2> SUFFICES ASSUME profile = "demo", NEW o \in Orgs, Live(o) PROVE account["director"] = o
    BY DEF DirectorLeads
  <2>1. full /\ o = 1
    BY <1>1 DEF Live
  <2>2. Build = DemoBuild /\ 1 \in DOMAIN Build
    BY DemoStatements DEF Build
  <2>3. Build[1].op = "organization" /\ Build[1].what = "director"
    BY <2>2, DemoStatements DEF Do
  <2>4. "director" \in People /\ "director" \in Addresses
    BY <2>2, <2>3 DEF People, Addresses
  <2> QED
    BY <1>1, <2>1, <2>4
<1>3. CalmInv
  BY DEF CalmInv, Init
<1>4. DevInv
  <2>1. Running = {}
    BY DEF Init, Running
  <2> QED
    BY <1>1, <2>1 DEF DevInv
<1> QED
  BY <1>2, <1>3, <1>4, DemoInit DEF RebuildInv

\* Every step keeps what an undisturbed run relies on.
LEMMA RebuildStep ==
  ASSUME RebuildInv, [Next]_vars
  PROVE  RebuildInv'
<1>1. /\ Typed /\ Whole /\ MemberInv /\ Quiet /\ Typed' /\ DemoInv'
      /\ DirectorLeads /\ CalmInv /\ DevInv
  BY DemoStep DEF RebuildInv, DemoInv
<1>2. ASSUME NEW s \in Scripts,
             \/ \E o \in Orgs : StartWipe(s, o)
             \/ StartDemo(s) \/ StartDev(s) \/ Delete(s) \/ SelectMembers(s) \/ WipeFails(s)
             \/ CommitWipe(s) \/ CreateOrganization(s) \/ InsertRow(s) \/ UpdateRow(s)
             \/ SkipUser(s) \/ CreateUser(s) \/ CreateMembership(s) \/ BuildFails(s)
             \/ WriteSeedFile(s) \/ Die(s)
      PROVE  RebuildInv'
  <2>1. DirectorLeads'
    BY <1>1, <1>2, LeaderStep
  <2>2. CalmInv'
    <3>1. CASE (\E o \in Orgs : StartWipe(s, o)) \/ StartDemo(s) \/ StartDev(s)
      <4>1. \A u \in Scripts : pc[u] = "wipe" => profile = "demo"
        BY <1>1 DEF CalmInv
      <4> QED
        BY <1>1, <3>1, <4>1, CalmStart
    <3>2. CASE ~((\E o \in Orgs : StartWipe(s, o)) \/ StartDemo(s) \/ StartDev(s))
      BY <1>1, <1>2, <3>2, CalmScript
    <3> QED
      BY <3>1, <3>2
  <2>3. DevInv'
    BY <1>1, <1>2, <2>2, DevScript
  <2> QED
    BY <1>1, <2>1, <2>2, <2>3 DEF RebuildInv
<1>3. ASSUME NEW q \in Requests,
             \/ \E o \in Orgs : BeginRequest(q, o)
             \/ \E t \in RowTables : InsertByRequest(q, t)
             \/ EndRequest(q)
      PROVE  RebuildInv'
  BY <1>1, <1>3, CalmRequest DEF RebuildInv
<1>4. CASE UNCHANGED vars
  <2>1. UNCHANGED <<profile, rows, account, gone, seen, dropped, calm, mishap, pc, at, target, result, seedFile>>
    BY <1>4 DEF vars, tenantVars, wipeVars, historyVars, scriptVars
  <2>2. DirectorLeads'
    BY <1>1, <2>1 DEF DirectorLeads, Live
  <2>3. /\ Running' = Running /\ Strays' = Strays /\ \A o : MembersOf(o)' = MembersOf(o)
        /\ Build' = Build /\ First' = First
    BY <2>1 DEF Running, Strays, MembersOf, Build, First
  <2>4. \A o : Complete(o)' <=> Complete(o)
    BY <2>1, <2>3 DEF Complete, Expected, People
  <2>5. ASSUME NEW c \in calm PROVE CalmAt(c)'
    <3>1. CalmWipe(c) => CalmWipe(c)'
      BY <2>1, <2>3 DEF CalmWipe
    <3>2. CalmBuild(c) => CalmBuild(c)'
      BY <2>1, <2>3 DEF CalmBuild
    <3>3. Rebuilt(c) => Rebuilt(c)'
      BY <2>1, <2>4 DEF Rebuilt
    <3> QED
      BY <1>1, <2>1, <2>3, <3>1, <3>2, <3>3 DEF CalmInv, CalmAt
  <2>6. CalmInv'
    BY <1>1, <2>1, <2>5 DEF CalmInv
  <2>7. DevInv'
    BY <1>1, <2>1, <2>3, <2>4 DEF DevInv
  <2> QED
    BY <1>1, <2>2, <2>6, <2>7 DEF RebuildInv
<1> QED
  BY <1>2, <1>3, <1>4 DEF Next

\* seed-demo.ts, run over whatever a death or a request has left, and seed-dev.ts,
\* run where nothing died, end with the whole tenant and a seed file that names it
\* if nothing disturbs them: no DELETE of the wipe is rejected, no INSERT of the
\* build lacks the row it refers to, and no address is taken.
THEOREM CalmRunsRebuild == Spec => []CalmRunRebuilds
<1>1. RebuildInv => CalmRunRebuilds
  <2> SUFFICES ASSUME RebuildInv, NEW s \in calm, result[s] # "none"
               PROVE  /\ result[s] = "ok" /\ seedFile = target[s]
                      /\ Live(seedFile) /\ Complete(seedFile)
    BY DEF CalmRunRebuilds
  <2>1. s \in Scripts /\ CalmAt(s) /\ Typed
    BY DEF RebuildInv, DemoInv, CalmInv
  <2>2. pc[s] = "idle"
    BY <2>1, SmallTypes DEF CalmAt
  <2>3. Rebuilt(s)
    BY <2>1, <2>2 DEF CalmAt
  <2>4. Live(seedFile)
    BY <2>3 DEF Rebuilt, Complete, Expected, Created, Live
  <2> QED
    BY <2>3, <2>4 DEF Rebuilt
<1>2. Init => RebuildInv
  BY RebuildFirst
<1>3. RebuildInv /\ [Next]_vars => RebuildInv'
  BY RebuildStep
<1> QED
  BY <1>1, <1>2, <1>3, PTL DEF Spec
=============================================================================
