------------------------------- MODULE Access -------------------------------
(***************************************************************************)
(* Tenants, users, sessions and what they may do: createOrganization,       *)
(* createUser and the sessions of packages/identity, the seed of a tenant   *)
(* (seedDefaultCommand), the demo reset (demo-wipe.ts), the routes that     *)
(* log in, add users, register and route models and ask for a policy        *)
(* decision (server.ts), and the limiters of the login (rate-limit.ts).     *)
(*                                                                         *)
(* Each worker serves a request or runs a seed script; its pc names the     *)
(* statement it will run next, and everybody else may commit in between.    *)
(* Ids are numbers that are never used again.  The rows of a tenant's seed  *)
(* are counted, see Policy.  A process may die between two statements.      *)
(***************************************************************************)
EXTENDS Integers, FiniteSets, Sequences, Policy

CONSTANTS
  Orgs, Users, Sessions,  \* bounds on ids: initial segments of 1, 2, ..
  Emails,                 \* addresses
  Catalog,                \* models an administrator may register
  Asks,                   \* actions asked about on the evaluate route
  Requests,               \* requests to the model router
  Workers,                \* requests and scripts in progress at once
  LoginMax, FailMax,      \* logins, and failed logins of an address, in a ..
  Window,                 \* .. window of this many ticks
  Operations,             \* what workers do
  MaxCalls, MaxFaults, MaxTime, \* bounds on calls, deaths and the clock
  Null, Director          \* no value; the address of the first user

ASSUME IdsAssumption ==
  /\ Orgs \subseteq Nat \ {0} /\ Users \subseteq Nat \ {0} /\ Sessions \subseteq Nat \ {0}
  /\ 1 \in Orgs \cap Users
ASSUME NullAssumption == Null \notin [org : Orgs, role : {"admin", "member"}]
ASSUME LimitsAssumption ==
  LoginMax \in Nat \ {0} /\ FailMax \in Nat \ {0} /\ Window \in Nat \ {0}
ASSUME AddressesAssumption ==
  Director \in Emails /\ {Null, "unused", "deleted", "login"} \cap Emails = {}

\* CHECK constraints of command.models, and the types of the requests.
ASSUME CatalogAssumption ==
  \A m \in Catalog : m.key \in Nat /\ m.deployment \in DOMAIN DeployRank /\ m.risk \in DOMAIN RiskRank
ASSUME RequestsAssumption == \A q \in Requests : q.class \in Classes /\ q.risk \in DOMAIN RiskRank
ASSUME AsksAssumption ==
  \A a \in Asks : a.type \in {"data.leave_device", "model.process", "knowledge.read", "skill.use"}

VARIABLES
  tenant,   \* auth.organizations: "unused", "live" or "wiped"
  seeded,   \* how many rows of the tenant's seed exist
  models,   \* command.models registered beside the seed
  email,    \* auth.users: the address, or "unused" or "deleted"
  member,   \* auth.memberships of a user: [org, role]
  session,  \* auth.sessions: [state, user, org], state "unused", "open", "closed"
  clock,    \* Date.now(), in ticks
  hits,     \* MemoryRateLimiter.hits of each key: calls, as their places in tried
  pc,       \* the next statement of each worker
  call,     \* its request
  mem,      \* its locals
  calls,    \* requests so far
  faults,   \* deaths so far
  tried,    \* the calls the limiters were asked to allow: [key, at, allowed]
  decided,  \* history: decisions given
  routed    \* history: models chosen

rows == <<tenant, seeded, models, email, member, session>>
limiter == <<clock, hits, tried>>
history == <<decided, routed>>
vars == <<rows, limiter, pc, call, mem, calls, faults, history>>

NoCall == [op |-> "none"]
Session(state, u, o) == [state |-> state, user |-> u, org |-> o]
NoMem == [user |-> 0, org |-> 0, role |-> Null, found |-> FALSE,
          listed |-> {}, todo |-> {}, eligible |-> {}, local |-> FALSE]

\* The keys of limiters.login (one client address) and limiters.loginFail.
Keys == {"login"} \cup Emails

\* PERMISSIONS, as far as the modelled routes ask for them, by role.
MEMBER_PERMISSIONS == {"models.read", "policies.read"}
ADMIN_PERMISSIONS == MEMBER_PERMISSIONS \cup {"users.manage", "models.manage"}
PermissionsOf(role) == IF role = "admin" THEN ADMIN_PERMISSIONS ELSE MEMBER_PERMISSIONS

Permission == [create_user |-> "users.manage", register |-> "models.manage",
               route |-> "models.read", evaluate |-> "policies.read"]

UnusedUser == {u \in Users : email[u] = "unused"}
UnusedSession == {s \in Sessions : session[s].state = "unused"}
UnusedOrg == {o \in Orgs : tenant[o] = "unused"}
Next1(ids) == CHOOSE i \in ids : \A j \in ids : i <= j

IsOpen(s) == session[s].state = "open"
Live(o) == o \in Orgs /\ tenant[o] = "live"

\* Variant for mutation runs: an address is taken by a member only.
EmailOfMember(x) == \E u \in Users : email[u] = x /\ member[u] # Null

\* UNIQUE (email)
EmailTaken(x) == \E u \in Users : email[u] = x

\* The rows of tenant o, and its models in the order of listModels.
Rows(o) == RowsAfter(seeded[o])
ModelsOf(o) == models[o] \cup (IF <<"model">> \in Rows(o) THEN {MockLocal} ELSE {})

\* One tenant, seeded, whose administrator, the director, is logged in.
Init ==
  /\ tenant = [o \in Orgs |-> IF o = 1 THEN "live" ELSE "unused"]
  /\ seeded = [o \in Orgs |-> IF o = 1 THEN Len(SeedRows) ELSE 0]
  /\ models = [o \in Orgs |-> {}]
  /\ email = [u \in Users |-> IF u = 1 THEN Director ELSE "unused"]
  /\ member = [u \in Users |-> IF u = 1 THEN [org |-> 1, role |-> "admin"] ELSE Null]
  /\ session = [s \in Sessions |-> IF s = 1 THEN Session("open", 1, 1)
                                            ELSE Session("unused", 0, 0)]
  /\ clock = 0
  /\ hits = [k \in Keys |-> {}]
  /\ pc = [w \in Workers |-> "idle"]
  /\ call = [w \in Workers |-> NoCall]
  /\ mem = [w \in Workers |-> NoMem]
  /\ calls = 0 /\ faults = 0
  /\ tried = <<>> /\ decided = {} /\ routed = {}

-----------------------------------------------------------------------------
Begin(w, c, label, locals) ==
  /\ pc[w] = "idle" /\ calls < MaxCalls /\ c.op \in Operations
  /\ calls' = calls + 1
  /\ pc' = [pc EXCEPT ![w] = label]
  /\ call' = [call EXCEPT ![w] = c]
  /\ mem' = [mem EXCEPT ![w] = locals]
  /\ UNCHANGED faults

\* The worker goes on at label with these locals.
Continue(w, label, locals) ==
  /\ pc' = [pc EXCEPT ![w] = label]
  /\ mem' = [mem EXCEPT ![w] = locals]
  /\ UNCHANGED <<call, calls, faults>>

\* The answer is sent, be it a result or an error.
Answer(w) ==
  /\ pc' = [pc EXCEPT ![w] = "idle"]
  /\ call' = [call EXCEPT ![w] = NoCall]
  /\ mem' = [mem EXCEPT ![w] = NoMem]
  /\ UNCHANGED <<calls, faults>>

At(w, op, label) == pc[w] = label /\ call[w].op = op

-----------------------------------------------------------------------------
(* MemoryRateLimiter.allow *)

\* Variant for mutation runs: a call stays in the window a tick too long.
RecentToo(k) == {i \in hits[k] : clock - tried[i].at <= Window}

\* The calls that are still in the window.
Recent(k) == {i \in hits[k] : clock - tried[i].at < Window}
MaxOf(k) == IF k = "login" THEN LoginMax ELSE FailMax
Full(k) == Cardinality(Recent(k)) >= MaxOf(k)

\* The limiter forgets what left the window and records a call it allows.
AskLimiter(k) ==
  /\ hits' = [hits EXCEPT ![k] = IF Full(k) THEN Recent(k) ELSE Recent(k) \cup {Len(tried) + 1}]
  /\ tried' = Append(tried, [key |-> k, at |-> clock, allowed |-> ~Full(k)])

\* Time matters only to a limiter that has been asked.
Tick ==
  /\ clock < MaxTime /\ tried # <<>>
  /\ clock' = clock + 1
  /\ UNCHANGED <<rows, hits, tried, pc, call, mem, calls, faults, history>>

-----------------------------------------------------------------------------
(* Provisioning *)

\* createOrganization: one transaction for the organization, its roles and
\* its first administrator.  It fails as a whole if the address is taken.
CreateOrganization(w) ==
  \E x \in Emails :
    /\ UnusedOrg # {} /\ UnusedUser # {} /\ ~EmailTaken(x)
    /\ LET o == Next1(UnusedOrg)
           u == Next1(UnusedUser)
       IN  /\ Begin(w, [op |-> "create_tenant", org |-> o], "seed", NoMem)
           /\ tenant' = [tenant EXCEPT ![o] = "live"]
           /\ email' = [email EXCEPT ![u] = x]
           /\ member' = [member EXCEPT ![u] = [org |-> o, role |-> "admin"]]
    /\ UNCHANGED <<seeded, models, session, limiter, history>>

\* An administrator was faster and registered a model with the key of the
\* seed's.
Preempted(o) == \E m \in models[o] : m.key = MockLocal.key

\* seedDefaultCommand: one insert after another.  A tenant that was wiped
\* meanwhile makes the next one fail on its foreign key, a model that was
\* registered meanwhile the insert of the seed's on UNIQUE (organization_id,
\* model_key); nobody makes the inserts that are left.
Seed(w) ==
  /\ At(w, "create_tenant", "seed")
  /\ LET o == call[w].org IN
     IF Live(o) /\ ~(SeedRows[seeded[o] + 1] = <<"model">> /\ Preempted(o))
       THEN /\ seeded' = [seeded EXCEPT ![o] = @ + 1]
            /\ IF seeded[o] + 1 < Len(SeedRows) THEN Continue(w, "seed", NoMem) ELSE Answer(w)
       ELSE Answer(w) /\ UNCHANGED seeded
  /\ UNCHANGED <<tenant, models, email, member, session, limiter, history>>

\* createUser, past the permission: the role, the user, the membership.
CheckRole(w) ==
  /\ At(w, "create_user", "perform")
  /\ IF Live(mem[w].org) THEN Continue(w, "insert_user", mem[w]) ELSE Answer(w)
  /\ UNCHANGED <<rows, limiter, history>>

InsertUser(w) ==
  /\ At(w, "create_user", "insert_user")
  /\ LET x == call[w].email
         u == Next1(UnusedUser)
     IN  IF EmailTaken(x) \/ UnusedUser = {}
           THEN Answer(w) /\ UNCHANGED email
           ELSE /\ email' = [email EXCEPT ![u] = x]
                /\ Continue(w, "insert_membership", [mem[w] EXCEPT !.user = u])
  /\ UNCHANGED <<tenant, seeded, models, member, session, limiter, history>>

InsertMembership(w) ==
  /\ At(w, "create_user", "insert_membership")
  /\ IF Live(mem[w].org)
       THEN member' = [member EXCEPT ![mem[w].user] = [org |-> mem[w].org, role |-> call[w].role]]
       ELSE UNCHANGED member
  /\ Answer(w)
  /\ UNCHANGED <<tenant, seeded, models, email, session, limiter, history>>

\* The demo reset deletes a tenant with all that refers to it, and the users
\* who belong to no other, in one transaction.
WipeOrganization(o) ==
  LET users == {u \in Users : member[u] # Null /\ member[u].org = o} IN
  /\ "wipe" \in Operations /\ tenant[o] = "live"
  /\ tenant' = [tenant EXCEPT ![o] = "wiped"]
  /\ seeded' = [seeded EXCEPT ![o] = 0]
  /\ models' = [models EXCEPT ![o] = {}]
  /\ session' = [s \in Sessions |-> IF IsOpen(s) /\ session[s].org = o THEN Session("closed", 0, 0)
                                                                ELSE session[s]]
  /\ member' = [u \in Users |-> IF u \in users THEN Null ELSE member[u]]
  /\ email' = [u \in Users |-> IF u \in users THEN "deleted" ELSE email[u]]
  /\ UNCHANGED <<limiter, pc, call, mem, calls, faults, history>>

-----------------------------------------------------------------------------
(* Sessions *)

\* POST /v1/auth/login: the limiter is asked before anything else.
Login(w) ==
  /\ \E x \in Emails, right \in BOOLEAN :
       Begin(w, [op |-> "login", email |-> x, right |-> right],
             IF Full("login") THEN "refuse" ELSE "find_user", NoMem)
  /\ AskLimiter("login")
  /\ UNCHANGED <<rows, clock, decided, routed>>

Refuse(w) ==
  /\ pc[w] = "refuse"
  /\ Answer(w)
  /\ UNCHANGED <<rows, limiter, history>>

\* createSession reads the user; an unknown address or a wrong password is
\* counted, and answered with 401 or, when there were too many, 429.
FindUser(w) ==
  /\ At(w, "login", "find_user")
  /\ LET found == {u \in Users : email[u] = call[w].email} IN
     IF call[w].right /\ found # {}
       THEN /\ Continue(w, "find_membership", [mem[w] EXCEPT !.user = Next1(found)])
            /\ UNCHANGED <<hits, tried>>
       ELSE Answer(w) /\ AskLimiter(call[w].email)
  /\ UNCHANGED <<rows, clock, decided, routed>>

FindMembership(w) ==
  /\ At(w, "login", "find_membership")
  /\ LET m == member[mem[w].user] IN
     IF m = Null THEN Answer(w)
     ELSE Continue(w, "insert_session", [mem[w] EXCEPT !.org = m.org])
  /\ UNCHANGED <<rows, limiter, history>>

\* The session refers to the membership: sessions_membership_org_user_fk.
InsertSession(w) ==
  /\ At(w, "login", "insert_session")
  /\ LET m == member[mem[w].user]
         s == Next1(UnusedSession)
     IN  IF m # Null /\ m.org = mem[w].org /\ UnusedSession # {}
           THEN session' = [session EXCEPT ![s] = Session("open", mem[w].user, m.org)]
           ELSE UNCHANGED session
  /\ Answer(w)
  /\ UNCHANGED <<tenant, seeded, models, email, member, limiter, history>>

\* Logging out deletes the row.  A session that expired keeps it, but like
\* a deleted one it never resolves again, so it is closed here too.
Logout(s) ==
  /\ "logout" \in Operations /\ IsOpen(s)
  /\ session' = [session EXCEPT ![s] = Session("closed", 0, 0)]
  /\ UNCHANGED <<tenant, seeded, models, email, member, limiter, pc, call, mem, calls, faults, history>>

\* What a request of a session asks for, route by route.
CreateUserCalls == [op : {"create_user"}, s : Sessions, email : Emails, role : {"admin", "member"}]
EvaluateCalls == [op : {"evaluate"}, s : Sessions, ask : Asks]
RegisterCalls == [op : {"register"}, s : Sessions, model : Catalog]
RouteCalls == [op : {"route"}, s : Sessions, q : Requests]

SessionCalls == CreateUserCalls \cup EvaluateCalls \cup RegisterCalls \cup RouteCalls

\* A request begins with the cookie of a session that was given out.
SessionRequest(w) ==
  \E c \in SessionCalls :
    /\ session[c.s].state # "unused"
    /\ Begin(w, c, "resolve", NoMem)
    /\ UNCHANGED <<rows, limiter, history>>

\* resolveSession joins the session with its user, membership and role.
Resolved(s) ==
  /\ IsOpen(s)
  /\ LET m == member[session[s].user] IN m # Null /\ m.org = session[s].org

ResolveSession(w) ==
  /\ pc[w] = "resolve"
  /\ LET s == call[w].s IN
     IF Resolved(s)
       THEN Continue(w, "permit", [NoMem EXCEPT !.user = session[s].user, !.org = session[s].org,
                                                !.role = member[session[s].user].role])
       ELSE Answer(w)
  /\ UNCHANGED <<rows, limiter, history>>

\* loadPermissions reads role_permissions, which go with the tenant, and
\* requirePermission compares.
RequirePermission(w) ==
  /\ pc[w] = "permit"
  /\ IF Live(mem[w].org) /\ Permission[call[w].op] \in PermissionsOf(mem[w].role)
       THEN Continue(w, "perform", mem[w])
       ELSE Answer(w)
  /\ UNCHANGED <<rows, limiter, history>>

\* POST /internal/v1/models/route: a service names a user and a tenant, and
\* the user's membership takes the place of a session.  (Only services with
\* the scope models.read; others change nothing.)
ServiceRequest(w) ==
  \E u \in Users, o \in Orgs, q \in Requests :
    /\ Begin(w, [op |-> "route", actor |-> u, q |-> q], "member",
             [NoMem EXCEPT !.user = u, !.org = o])
    /\ UNCHANGED <<rows, limiter, history>>

ReadMembership(w) ==
  /\ pc[w] = "member"
  /\ LET m == member[mem[w].user] IN
     IF m # Null /\ m.org = mem[w].org
       THEN Continue(w, "perform", [mem[w] EXCEPT !.role = m.role])
       ELSE Answer(w)
  /\ UNCHANGED <<rows, limiter, history>>

-----------------------------------------------------------------------------
(* Command and the model router.  The execution that surrounds a routing   *)
(* request is in Execution; it decides nothing here.                       *)

\* registerModel: the key is unique in the tenant.
KeyTaken(o, m) == \E n \in ModelsOf(o) : n.key = m.key
RegisterModel(w) ==
  /\ At(w, "register", "perform")
  /\ LET o == mem[w].org
         m == call[w].model
     IN  models' = [models EXCEPT ![o] = IF Live(o) /\ ~KeyTaken(o, m) THEN @ \cup {m} ELSE @]
  /\ Answer(w)
  /\ UNCHANGED <<tenant, seeded, email, member, session, limiter, history>>

\* evaluatePolicy reads the policy in force, then the rows of the skill.
ReadPolicy(w) ==
  /\ pc[w] = "perform" /\ call[w].op \in {"evaluate", "route"}
  /\ Continue(w, "decide", [mem[w] EXCEPT !.found = PolicyFound(Rows(mem[w].org))])
  /\ UNCHANGED <<rows, limiter, history>>

Record(w, ask, decision) ==
  decided' = decided \cup {[org |-> mem[w].org, role |-> mem[w].role, ask |-> ask,
                            decision |-> decision.decision]}

Evaluate(w) ==
  /\ At(w, "evaluate", "decide")
  /\ Record(w, call[w].ask, Decision(mem[w].found, Rows(mem[w].org), mem[w].role, call[w].ask))
  /\ Answer(w)
  /\ UNCHANGED <<rows, limiter, routed>>

\* routeModel: may the role have models routed?
MayRoute(w) ==
  /\ At(w, "route", "decide")
  /\ LET d == Decision(mem[w].found, Rows(mem[w].org), mem[w].role, RouteAsk(call[w].q))
     IN  /\ Record(w, RouteAsk(call[w].q), d)
         /\ IF d.decision = "deny" THEN Answer(w) ELSE Continue(w, "list", mem[w])
  /\ UNCHANGED <<rows, limiter, routed>>

ListModels(w) ==
  /\ At(w, "route", "list")
  /\ LET listed == {m \in ModelsOf(mem[w].org) : m.enabled}
     IN  Continue(w, "leave", [mem[w] EXCEPT !.listed = listed])
  /\ UNCHANGED <<rows, limiter, history>>

\* May the data leave the device?  Then the models that need no question.
AskLeave(w) ==
  /\ At(w, "route", "leave")
  /\ LET q == call[w].q
         o == mem[w].org
         leave == Decision(PolicyFound(Rows(o)), Rows(o), mem[w].role, LeaveAsk(q))
         local == LocalRequired(leave, q)
         suited == {m \in mem[w].listed : Suits(m, q, local)}
         cloud == {m \in suited : m.deployment = "cloud"}
     IN  Continue(w, "cloud",
           [mem[w] EXCEPT !.local = local, !.todo = cloud, !.eligible = suited \ cloud])
  /\ UNCHANGED <<rows, limiter, history>>

\* Command is asked about each cloud model, in the order of their keys.
AskCloud(w) ==
  /\ At(w, "route", "cloud") /\ mem[w].todo # {}
  /\ LET o == mem[w].org
         m == FirstModel(mem[w].todo)
         d == Decision(PolicyFound(Rows(o)), Rows(o), mem[w].role, CloudAsk(call[w].q, m))
     IN  Continue(w, "cloud", [mem[w] EXCEPT
           !.todo = @ \ {m},
           !.eligible = IF d.decision = "deny" THEN @ ELSE @ \cup {m}])
  /\ UNCHANGED <<rows, limiter, history>>

Choose(w) ==
  /\ At(w, "route", "cloud") /\ mem[w].todo = {}
  /\ LET q == call[w].q
         e == mem[w].eligible
         r == IF e = {}
                THEN [model |-> Null, reason |-> NoModelReason(mem[w].listed, q)]
                ELSE [model |-> Choice(e, q, mem[w].local),
                      reason |-> SelectionReason(e, q, mem[w].local)]
     IN  routed' = routed \cup {[q |-> q, listed |-> mem[w].listed, model |-> r.model,
                                 reason |-> r.reason]}
  /\ Answer(w)
  /\ UNCHANGED <<rows, limiter, decided>>

\* The process dies; another takes its place, with empty limiters.
Die ==
  /\ faults < MaxFaults
  /\ \E w \in Workers : pc[w] # "idle"
  /\ faults' = faults + 1
  /\ pc' = [w \in Workers |-> "idle"]
  /\ call' = [w \in Workers |-> NoCall]
  /\ mem' = [w \in Workers |-> NoMem]
  /\ hits' = [k \in Keys |-> {}] /\ tried' = <<>>
  /\ UNCHANGED <<rows, clock, calls, decided, routed>>

Next ==
  \/ Tick \/ Die
  \/ \E o \in Orgs : WipeOrganization(o)
  \/ \E s \in Sessions : Logout(s)
  \/ \E w \in Workers :
       \/ CreateOrganization(w) \/ Seed(w)
       \/ CheckRole(w) \/ InsertUser(w) \/ InsertMembership(w)
       \/ Login(w) \/ Refuse(w) \/ FindUser(w) \/ FindMembership(w) \/ InsertSession(w)
       \/ ServiceRequest(w) \/ ReadMembership(w)
       \/ SessionRequest(w) \/ ResolveSession(w) \/ RequirePermission(w)
       \/ RegisterModel(w) \/ ReadPolicy(w) \/ Evaluate(w)
       \/ MayRoute(w) \/ ListModels(w) \/ AskLeave(w) \/ AskCloud(w) \/ Choose(w)

Spec == Init /\ [][Next]_vars

-----------------------------------------------------------------------------
(* Properties *)

\* Rows are of their kinds and refer to rows, whatever a reset, a death or a
\* request under way leaves behind: members and sessions belong to tenants
\* that exist, an address and a model key are used once, a user without a
\* membership or a tenant without its whole seed is being made or was left
\* so by a death, a reset or, the seed, by an administrator who registered
\* its model first, and nothing of a wiped tenant remains.
TypeOK ==
  /\ \A u \in Users : member[u] # Null =>
       Live(member[u].org) /\ email[u] \in Emails /\ member[u].role \in {"admin", "member"}
  /\ \A u, v \in Users : email[u] = email[v] /\ email[u] \in Emails => u = v
  /\ \A u \in Users : email[u] \in Emails /\ member[u] = Null =>
       \/ faults > 0 \/ \E o \in Orgs : tenant[o] = "wiped"
       \/ \E w \in Workers : pc[w] = "insert_membership" /\ mem[w].user = u
  /\ \A s \in Sessions : IsOpen(s) =>
       LET m == member[session[s].user] IN m # Null /\ m.org = session[s].org
  /\ \A o \in Orgs :
       /\ ~Live(o) => seeded[o] = 0 /\ models[o] = {}
       /\ seeded[o] < Len(SeedRows) /\ Live(o) /\ faults = 0 =>
            Preempted(o) \/ \E w \in Workers : pc[w] = "seed" /\ call[w].org = o
       /\ \A m, n \in ModelsOf(o) : m.key = n.key => m = n
  /\ \A k \in Keys : Cardinality(hits[k]) <= MaxOf(k)

\* Deny by default (docs/architecture/command.md, line 5): whatever part of
\* its seed a tenant has, and whatever changes between the reads of a
\* decision, Command denies or says what the whole seed says; in particular
\* a decision never loses the approval it requires.
SeedFailsClosed ==
  \A d \in decided :
    \/ d.decision = "deny"
    \/ d.decision = Decision(TRUE, RowsAfter(Len(SeedRows)), d.role, d.ask).decision

\* The model chosen for a request was registered for it: it is enabled and
\* takes the class, the risk and the capabilities; data that may not leave
\* the device goes to a local model, and to a cloud model only what cloud
\* models may process (packages/command/test/rules.test.ts, line 5).  And
\* data stays local when a local model will do, preferred or not, whatever
\* is registered, seeded or wiped between the router's reads.
RouteIsLawful ==
  \A r \in routed : r.model # Null =>
    LET m == r.model
        lawful(n) == /\ n.enabled /\ r.q.class \in n.classes /\ r.q.caps \subseteq n.caps
                     /\ RiskRank[r.q.risk] <= RiskRank[n.risk]
    IN  /\ m \in r.listed /\ lawful(m)
        /\ r.q.class \in {"confidential", "restricted"} => m.deployment = "local"
        /\ r.q.class \notin LeaveDevice => m.deployment = "local"
        /\ m.deployment = "cloud" => r.q.class \in CloudModels
        /\ (\E n \in r.listed : lawful(n) /\ n.deployment = "local") => m.deployment = "local"

\* A limiter allows a call exactly if it allowed fewer than its maximum in
\* the window that ends with the call: no burst across the edge of a window
\* gets through, and refused calls do not prolong the wait.
WindowHolds ==
  \A i \in DOMAIN tried :
    LET allowed == {j \in 1..(i - 1) : /\ tried[j].key = tried[i].key /\ tried[j].allowed
                                       /\ tried[i].at - tried[j].at < Window}
    IN  tried[i].allowed <=> Cardinality(allowed) < MaxOf(tried[i].key)
=============================================================================
