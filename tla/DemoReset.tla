------------------------------ MODULE DemoReset ------------------------------
(***************************************************************************)
(* The scripts that make and remake a tenant, beside a running core-api:   *)
(* seed-demo.ts, which wipes the organization of the demo's name           *)
(* (demo-wipe.ts) and builds it again, and seed-dev.ts, which builds a     *)
(* development tenant or completes the one it finds.                       *)
(*                                                                         *)
(* The wipe is one READ COMMITTED transaction of a DELETE per table; the   *)
(* build is one commit per statement, so it may stop anywhere and be run   *)
(* again, also while requests of the tenant's members go on.  A table of   *)
(* an organization has rows or has none.  Waiting for a row that an open   *)
(* wipe has deleted, and for the tables whose triggers it has disabled, is *)
(* PostgreSQL's.                                                           *)
(***************************************************************************)
EXTENDS Integers, Sequences, FiniteSets, TenantTables

CONSTANTS
  Scripts,    \* seed processes that may run at once
  Requests,   \* requests of members in progress at once
  Profiles,   \* the scripts this instance runs: subset of {"demo", "dev"}
  RowTables,  \* the tables requests insert into in this instance
  Failures,   \* BOOLEAN: may a script die between two statements?
  MaxRuns,    \* bound on the runs of a behavior
  MaxRows     \* bound on the rows requests insert

ASSUME ProfilesAssumption == Profiles \subseteq {"demo", "dev"}
ASSUME RowTablesAssumption ==
  RowTables \subseteq Tables \ {Organizations, UsersTable, Memberships}
ASSUME FailuresAssumption == Failures \in BOOLEAN
ASSUME MaxRunsAssumption == MaxRuns \in Nat
ASSUME MaxRowsAssumption == MaxRows \in Nat

\* Organization ids, in the order they are drawn; 0 is none.
Orgs == 1..(MaxRuns + 1)

\* An address nobody has, and one whose user has no membership.
NoUser == 0
Stray == -1

VARIABLES
  profile,   \* which script runs in this behavior
  rows,      \* the tables in which each organization has committed rows
  account,   \* each address: NoUser, Stray, or the organization of its membership
  drawn,     \* organization ids in use so far
  pc,        \* idle, wipe or build
  at,        \* the next statement of a script
  target,    \* the organization a script works on
  gone,      \* what the open wipe has deleted
  seen,      \* the members it has read
  dropped,   \* the members whose membership it has deleted
  seedFile,  \* the organization the seed file names
  request,   \* the organization of the member of each request
  result,    \* how the last run of a script ended
  runs,
  inserted,  \* rows inserted by requests so far
  calm,      \* history: scripts whose run nothing has disturbed
  late,      \* history: organizations a request wrote to during a wipe or after it
  mishap     \* history: a script died, or two ran at once

tenantVars == <<rows, account, drawn>>
wipeVars == <<gone, seen, dropped>>
historyVars == <<calm, late, mishap>>
scriptVars == <<pc, at, target, result, runs>>
requestVars == <<request, inserted>>
vars == <<profile, tenantVars, wipeVars, historyVars, scriptVars, requestVars, seedFile>>

-----------------------------------------------------------------------------
(* The statements of the scripts *)

\* Variant for mutation runs: connectors go before the actions that use them.
ConnectorsFirst ==
  << "command.connectors", "command.connector_actions", "command.approvals",
     "command.skill_connectors", "command.skill_policy_roles", "command.skill_policies",
     "command.policy_bindings", "command.policies", "command.models" >>

CommandOrder ==
  << "command.connector_actions", "command.approvals", "command.skill_connectors",
     "command.skill_policy_roles", "command.skill_policies", "command.policy_bindings",
     "command.policies", "command.models", "command.connectors" >>

\* DELETE_ORDER, and the statements that follow it.
DELETE_ORDER ==
  << "knowledge.retrieval_hits", "knowledge.retrieval_runs", "knowledge.chunks",
     "knowledge.source_versions", "knowledge.sources", "knowledge.collection_permissions",
     "knowledge.collections",
     "social.content_items", "social.onboarding_sessions", "social.brands",
     "nova.skill_runs", "nova.external_identities" >>
  \o CommandOrder \o << "audit.execution_events", "audit.merkle_checkpoints" >>

\* Variant for mutation runs: the head of the audit chain is forgotten.
NoChainState ==
  << FinalLink, "audit.ledger_entries", "audit.executions" >>

AuditOrder ==
  << FinalLink, "audit.ledger_entries", "audit.executions", "audit.chain_state" >>

WipeStatements ==
  DELETE_ORDER \o AuditOrder
  \o << "auth.sessions", "select_members", Memberships, "auth.role_permissions",
        "auth.roles", "auth.service_credentials", UsersTable, Organizations >>

\* A statement of a build: what it does, and to which table or address.
Do(op, what) == [op |-> op, what |-> what]
Inserts(tables) == [i \in DOMAIN tables |-> Do("insert", tables[i])]
NewUser(address) == << Do("user", address), Do("member", address) >>

\* seedDefaultCommand
SeedCommand ==
  Inserts(<< "command.policies", "command.policy_bindings", "command.skill_policies",
             "command.skill_policy_roles", "command.models", "command.connectors",
             "command.skill_connectors" >>)

DemoBuild ==
  << Do("organization", "director") >> \o SeedCommand \o NewUser("officer")
  \o Inserts(<< "auth.roles", "auth.role_permissions", "command.skill_policy_roles" >>)
  \o NewUser("analyst") \o << Do("update", EnabledConnector) >>
  \o Inserts(<< "knowledge.collections", "knowledge.collection_permissions",
                "knowledge.sources", "knowledge.source_versions", "knowledge.chunks",
                "social.brands", "auth.service_credentials" >>)
  \o << Do("file", "verity-demo-seed.json") >>

DevBuild ==
  << Do("organization", "admin") >> \o SeedCommand \o NewUser("member")
  \o Inserts(<< "social.brands" >>) \o << Do("update", EnabledConnector) >>
  \o Inserts(<< "auth.service_credentials" >>)
  \o << Do("file", "verity-dev-seed.json") >>

Build == IF profile = "demo" THEN DemoBuild ELSE DevBuild

\* What a script that finds a development tenant goes on with.
AfterSeedCommand == Len(SeedCommand) + 2

Addresses == {"director", "officer", "analyst", "admin", "member"}
First == IF profile = "demo" THEN "director" ELSE "admin"

\* The tables createOrganization and the statements of a build fill, and the
\* addresses they create.
Created == {Organizations, "auth.roles", "auth.role_permissions"}
Expected ==
  Created \cup {Build[i].what : i \in {j \in DOMAIN Build : Build[j].op \in {"insert", "update"}}}
People == {Build[i].what : i \in {j \in DOMAIN Build : Build[j].op \in {"organization", "user"}}}

-----------------------------------------------------------------------------
MembersOf(o) == {a \in Addresses : account[a] = o}

\* What is committed for o, its users and memberships included.
Stored(o) == rows[o] \cup (IF MembersOf(o) = {} THEN {} ELSE {UsersTable, Memberships})

\* What the open wipe of o still sees.
Left(o) ==
  (rows[o] \ gone)
  \cup (IF MembersOf(o) = {} \/ UsersTable \in gone THEN {} ELSE {UsersTable})
  \cup (IF MembersOf(o) \subseteq dropped THEN {} ELSE {Memberships})

Live(o) == Organizations \in rows[o]

Running == {s \in Scripts : pc[s] # "idle"}
Wiping == {s \in Scripts : pc[s] = "wipe"}

\* An insert waits for a row that the open wipe has deleted, and for the
\* tables it has altered.
Waits(o, t) ==
  \E s \in Wiping : \/ t \in AppendOnly \cup {FinalLink}
                    \/ target[s] = o /\ References[t] \cap gone # {}

\* The foreign keys of a row of t hold.
Holds(o, t) == References[t] \subseteq Stored(o)

\* What an open wipe has deleted, now that the table of o has a row again.
Returned(o, t) == IF \E s \in Wiping : target[s] = o THEN gone \ {t} ELSE gone

AddRow(o, t) ==
  /\ rows' = [rows EXCEPT ![o] = @ \cup {t}]
  /\ gone' = Returned(o, t)

End(s, how) ==
  /\ pc' = [pc EXCEPT ![s] = "idle"]
  /\ at' = [at EXCEPT ![s] = 1]
  /\ target' = IF how = "none" THEN [target EXCEPT ![s] = 0] ELSE target
  /\ result' = [result EXCEPT ![s] = how]
  /\ UNCHANGED runs

\* Variant for mutation runs: the transaction is left open.
LeaveOpen == UNCHANGED wipeVars

\* The end of the wipe's transaction.
NoWipe == gone' = {} /\ seen' = {} /\ dropped' = {}

Advance(s) == at' = [at EXCEPT ![s] = @ + 1] /\ UNCHANGED <<pc, target, result, runs>>

\* No tenant yet, or one demo tenant in full use.
Init ==
  /\ profile \in Profiles
  /\ \E full \in (IF profile = "demo" THEN BOOLEAN ELSE {FALSE}) :
       /\ rows = [o \in Orgs |-> IF full /\ o = 1 THEN Tables \ {UsersTable, Memberships}
                                 ELSE {}]
       /\ account = [a \in Addresses |-> IF full /\ a \in People THEN 1 ELSE NoUser]
       /\ drawn = IF full THEN 1 ELSE 0
       /\ seedFile = IF full THEN 1 ELSE 0
  /\ pc = [s \in Scripts |-> "idle"]
  /\ at = [s \in Scripts |-> 1]
  /\ target = [s \in Scripts |-> 0]
  /\ gone = {} /\ seen = {} /\ dropped = {}
  /\ request = [q \in Requests |-> 0]
  /\ result = [s \in Scripts |-> "none"]
  /\ runs = 0
  /\ inserted = 0
  /\ calm = {} /\ late = {} /\ mishap = FALSE

-----------------------------------------------------------------------------
(* A script starts *)

Strays == {a \in Addresses : account[a] = Stray}

Start(s, label, statement, o) ==
  /\ pc[s] = "idle"
  /\ runs < MaxRuns
  /\ runs' = runs + 1
  /\ pc' = [pc EXCEPT ![s] = label]
  /\ at' = [at EXCEPT ![s] = statement]
  /\ target' = [target EXCEPT ![s] = o]
  /\ result' = [result EXCEPT ![s] = "none"]
  /\ calm' = IF Running = {} /\ Strays = {} /\ (profile = "dev" => ~mishap) THEN {s} ELSE {}
  /\ mishap' = (mishap \/ Running # {})
  /\ UNCHANGED <<profile, tenantVars, seedFile, requestVars, late>>

\* SELECT id FROM auth.organizations WHERE name = ...; a tenant that exists is
\* wiped.  The triggers are disabled first, which waits for another wipe.
StartWipe(s, o) ==
  /\ profile = "demo"
  /\ Live(o)
  /\ Wiping = {}
  /\ Start(s, "wipe", 1, o)
  /\ UNCHANGED wipeVars

StartDemo(s) ==
  /\ profile = "demo"
  /\ \A o \in Orgs : ~Live(o)
  /\ Start(s, "build", 1, 0)
  /\ UNCHANGED wipeVars

\* The tenant of the admin's membership is taken as it is found.
StartDev(s) ==
  /\ profile = "dev"
  /\ IF account["admin"] \in Orgs
       THEN Start(s, "build", AfterSeedCommand, account["admin"])
       ELSE Start(s, "build", 1, 0)
  /\ UNCHANGED wipeVars

-----------------------------------------------------------------------------
(* wipeOrganization *)

Statement(s) == WipeStatements[at[s]]

Restricted(o, t) == Restricting(t) \cap Left(o) # {}

Delete(s) ==
  /\ pc[s] = "wipe" /\ at[s] \in DOMAIN WipeStatements
  /\ Statement(s) \in Tables
  /\ ~Restricted(target[s], Statement(s))
  /\ gone' = gone \cup {Statement(s)} \cup Cascaded(Statement(s))
  /\ dropped' = IF Statement(s) = Memberships THEN MembersOf(target[s]) ELSE dropped
  /\ Advance(s)
  /\ UNCHANGED <<profile, tenantVars, seen, seedFile, requestVars, historyVars>>

SelectMembers(s) ==
  /\ pc[s] = "wipe" /\ at[s] \in DOMAIN WipeStatements
  /\ Statement(s) = "select_members"
  /\ seen' = MembersOf(target[s])
  /\ Advance(s)
  /\ UNCHANGED <<profile, tenantVars, gone, dropped, seedFile, requestVars, historyVars>>

\* A foreign key rejects the DELETE: ROLLBACK, and the script ends.
WipeFails(s) ==
  /\ pc[s] = "wipe" /\ at[s] \in DOMAIN WipeStatements
  /\ Statement(s) \in Tables
  /\ Restricted(target[s], Statement(s))
  /\ End(s, "failed")
  /\ NoWipe
  /\ UNCHANGED <<profile, tenantVars, seedFile, requestVars, historyVars>>

\* COMMIT.  A user read among the members is deleted with the membership; one
\* whose membership came after the read stays without it.
CommitWipe(s) ==
  /\ pc[s] = "wipe" /\ at[s] = Len(WipeStatements) + 1
  /\ rows' = [rows EXCEPT ![target[s]] = @ \ gone]
  /\ account' = [a \in Addresses |->
                   IF a \in dropped THEN (IF a \in seen THEN NoUser ELSE Stray)
                   ELSE account[a]]
  /\ NoWipe
  /\ pc' = [pc EXCEPT ![s] = "build"]
  /\ at' = [at EXCEPT ![s] = 1]
  /\ UNCHANGED <<profile, drawn, target, result, runs, seedFile, requestVars, historyVars>>

-----------------------------------------------------------------------------
(* The build, one commit per statement *)

Step(s) == Build[at[s]]

Building(s, op) == pc[s] = "build" /\ Step(s).op = op

\* createOrganization, one transaction; the address must be unused.
CreateOrganization(s) ==
  /\ Building(s, "organization")
  /\ account[First] = NoUser
  /\ drawn' = drawn + 1
  /\ rows' = [rows EXCEPT ![drawn + 1] = Created]
  /\ account' = [account EXCEPT ![First] = drawn + 1]
  /\ target' = [target EXCEPT ![s] = drawn + 1]
  /\ at' = [at EXCEPT ![s] = @ + 1]
  /\ UNCHANGED <<profile, wipeVars, pc, result, runs, seedFile, requestVars, historyVars>>

\* The analyst's row is skipped when no research policy is found.
InsertRow(s) ==
  /\ Building(s, "insert")
  /\ ~Waits(target[s], Step(s).what)
  /\ Holds(target[s], Step(s).what)
  /\ AddRow(target[s], Step(s).what)
  /\ Advance(s)
  /\ UNCHANGED <<profile, account, drawn, seen, dropped, seedFile, requestVars, historyVars>>

\* An UPDATE that finds its row, or finds none.
UpdateRow(s) ==
  /\ Building(s, "update")
  /\ ~Waits(target[s], Step(s).what)
  /\ IF Holds(target[s], Step(s).what)
       THEN AddRow(target[s], Step(s).what)
       ELSE UNCHANGED <<rows, gone>>
  /\ Advance(s)
  /\ UNCHANGED <<profile, account, drawn, seen, dropped, seedFile, requestVars, historyVars>>

\* seed-dev creates its member only if nobody has the address.
SkipUser(s) ==
  /\ Building(s, "user")
  /\ profile = "dev" /\ account[Step(s).what] # NoUser
  /\ at' = [at EXCEPT ![s] = @ + 2]
  /\ UNCHANGED <<profile, tenantVars, wipeVars, pc, target, result, runs, seedFile,
                 requestVars, historyVars>>

\* createUser: the role is looked up, then two INSERTs commit on their own.
CreateUser(s) ==
  /\ Building(s, "user")
  /\ "auth.roles" \in rows[target[s]]
  /\ account[Step(s).what] = NoUser
  /\ account' = [account EXCEPT ![Step(s).what] = Stray]
  /\ Advance(s)
  /\ UNCHANGED <<profile, rows, drawn, wipeVars, seedFile, requestVars, historyVars>>

CreateMembership(s) ==
  /\ Building(s, "member")
  /\ ~Waits(target[s], Memberships)
  /\ {Organizations, "auth.roles"} \subseteq rows[target[s]]
  /\ account' = [account EXCEPT ![Step(s).what] = target[s]]
  /\ gone' = Returned(target[s], Memberships)
  /\ Advance(s)
  /\ UNCHANGED <<profile, rows, drawn, seen, dropped, seedFile, requestVars, historyVars>>

\* A statement that throws ends the script; what it built stays.
Rejected(s) ==
  \/ Building(s, "organization") /\ account[First] # NoUser
  \/ Building(s, "insert") /\ ~Waits(target[s], Step(s).what) /\ ~Holds(target[s], Step(s).what)
  \/ /\ Building(s, "user")
     /\ \/ "auth.roles" \notin rows[target[s]] /\ (profile = "dev" => account[Step(s).what] = NoUser)
        \/ profile = "demo" /\ account[Step(s).what] # NoUser
  \/ /\ Building(s, "member") /\ ~Waits(target[s], Memberships)
     /\ ~({Organizations, "auth.roles"} \subseteq rows[target[s]])

BuildFails(s) ==
  /\ Rejected(s)
  /\ End(s, "failed")
  /\ UNCHANGED <<profile, tenantVars, wipeVars, seedFile, requestVars, historyVars>>

WriteSeedFile(s) ==
  /\ Building(s, "file")
  /\ seedFile' = target[s]
  /\ End(s, "ok")
  /\ UNCHANGED <<profile, tenantVars, wipeVars, requestVars, historyVars>>

\* The process or its connection dies; an open wipe is rolled back.
Die(s) ==
  /\ Failures
  /\ pc[s] # "idle"
  /\ End(s, "none")
  /\ IF pc[s] = "wipe" THEN NoWipe ELSE UNCHANGED wipeVars
  /\ calm' = calm \ {s}
  /\ mishap' = TRUE
  /\ UNCHANGED <<profile, tenantVars, seedFile, requestVars, late>>

-----------------------------------------------------------------------------
(* Requests of the tenant's members, authenticated once at their start *)

BeginRequest(q, o) ==
  /\ request[q] = 0
  /\ inserted < MaxRows
  /\ MembersOf(o) # {}
  /\ request' = [request EXCEPT ![q] = o]
  /\ UNCHANGED <<profile, tenantVars, wipeVars, scriptVars, seedFile, inserted, historyVars>>

Wipes(s, o) == pc[s] = "wipe" /\ target[s] = o

\* (A request that inserts several rows is several requests here.)
InsertByRequest(q, t) ==
  /\ request[q] # 0
  /\ inserted < MaxRows
  /\ ~Waits(request[q], t)
  /\ Holds(request[q], t)
  /\ AddRow(request[q], t)
  /\ inserted' = inserted + 1
  /\ request' = [request EXCEPT ![q] = 0]
  /\ calm' = {s \in calm : ~Wipes(s, request[q])}
  /\ late' = IF ~Live(request[q]) \/ \E s \in Scripts : Wipes(s, request[q])
               THEN late \cup {request[q]} ELSE late
  /\ UNCHANGED <<profile, account, drawn, seen, dropped, scriptVars, seedFile, mishap>>

EndRequest(q) ==
  /\ request[q] # 0
  /\ request' = [request EXCEPT ![q] = 0]
  /\ UNCHANGED <<profile, tenantVars, wipeVars, scriptVars, seedFile, inserted, historyVars>>

-----------------------------------------------------------------------------
Next ==
  \/ \E s \in Scripts :
       \/ \E o \in Orgs : StartWipe(s, o)
       \/ StartDemo(s)
       \/ StartDev(s)
       \/ Delete(s)
       \/ SelectMembers(s)
       \/ WipeFails(s)
       \/ CommitWipe(s)
       \/ CreateOrganization(s)
       \/ InsertRow(s)
       \/ UpdateRow(s)
       \/ SkipUser(s)
       \/ CreateUser(s)
       \/ CreateMembership(s)
       \/ BuildFails(s)
       \/ WriteSeedFile(s)
       \/ Die(s)
  \/ \E q \in Requests :
       \/ \E o \in Orgs : BeginRequest(q, o)
       \/ \E t \in RowTables : InsertByRequest(q, t)
       \/ EndRequest(q)

Spec == Init /\ [][Next]_vars

-----------------------------------------------------------------------------
(* Properties *)

TypeOK ==
  /\ profile \in Profiles
  /\ rows \in [Orgs -> SUBSET (Tables \ {UsersTable, Memberships})]
  /\ account \in [Addresses -> Orgs \cup {NoUser, Stray}]
  /\ drawn \in 0..(MaxRuns + 1)
  /\ pc \in [Scripts -> {"idle", "wipe", "build"}]
  /\ at \in [Scripts -> 1..40]
  /\ target \in [Scripts -> Orgs \cup {0}]
  /\ gone \subseteq Tables
  /\ seen \subseteq Addresses /\ dropped \subseteq Addresses
  /\ seedFile \in Orgs \cup {0}
  /\ request \in [Requests -> Orgs \cup {0}]
  /\ result \in [Scripts -> {"none", "ok", "failed"}]
  /\ Wiping = {} => gone = {} /\ dropped = {}

\* A tenant is destroyed as a unit (docs/operations/retention-and-rotation.md,
\* line 16), whatever requests insert while the wipe runs and wherever it
\* fails: no row ever refers to a row that is not there; of an organization
\* that is gone no member is left and no row, except audit rows that a request
\* inserted while the wipe ran or after it; and an address without a membership
\* is left only by a script that died or ran beside another.
TenantIsWholeOrGone ==
  /\ \A o \in Orgs : \A t \in Stored(o) : References[t] \subseteq Stored(o)
  /\ \A o \in Orgs : ~Live(o) =>
       /\ MembersOf(o) = {}
       /\ rows[o] \subseteq Untied
       /\ rows[o] # {} => o \in late
  /\ Running = {} /\ Strays # {} => mishap

Complete(o) == Expected \subseteq rows[o] /\ People \subseteq MembersOf(o)

\* A reset that nothing disturbs ends with the whole demo and a seed file that
\* names it, from whatever an earlier run, a death half way or a request left
\* behind, so long as no address is held by a user without a membership.  A
\* development seed that nothing disturbs does the same if no run died.
CalmRunRebuilds ==
  \A s \in calm : result[s] # "none" =>
    /\ result[s] = "ok"
    /\ seedFile = target[s]
    /\ Live(seedFile) /\ Complete(seedFile)
=============================================================================
