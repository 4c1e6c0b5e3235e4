---------------------------- MODULE AccessProofs ----------------------------
(***************************************************************************)
(* Proofs about Access, for any number of tenants, users, sessions, workers *)
(* and calls, any catalog of models and any limits, and, in the last part, *)
(* about ConnectionPool, for any number of requests, executions and        *)
(* connections.                                                            *)
(***************************************************************************)
EXTENDS Access, ConnectionPool, FiniteSetTheorems, SequenceTheorems, WellFoundedInduction,
  TLAPS

-----------------------------------------------------------------------------
(* Least ids, and the router's choice *)

\* A set of numbers that is not empty has a least one, which Next1 returns.
LEMMA LeastNumber ==
  ASSUME NEW S, S \subseteq Nat, S # {}
  PROVE  Next1(S) \in S /\ \A j \in S : Next1(S) <= j
<1>1. PICK x \in S : \A y \in S : <<y, x>> \notin OpToRel(<, Nat)
  BY NatLessThanWellFounded, WFMin, Zenon
<1>2. \A y \in S : ~(y < x)
  BY <1>1, Zenon DEF OpToRel
<1>3. \A y \in S : x <= y
  BY <1>2
<1> QED
  BY <1>3 DEF Next1

\* The models a tenant may have.
Models == Catalog \cup {MockLocal}

\* The columns of command.models hold what their CHECK constraints allow.
LEMMA ModelTypes ==
  ASSUME NEW m \in Models
  PROVE  /\ m.key \in Nat /\ m.deployment \in {"local", "private", "cloud"}
         /\ m.risk \in {"low", "medium", "high"}
         /\ DeployRank[m.deployment] \in 0..2 /\ RiskRank[m.risk] \in 0..2
         /\ DeployRank[m.deployment] = 0 <=> m.deployment = "local"
BY CatalogAssumption DEF Models, MockLocal, DeployRank, RiskRank

\* Keys tell the models of S apart.
Keyed(S) == S \subseteq Models /\ \A m, n \in S : m.key = n.key => m = n

\* routeModel sorts candidates by deployment and key: one of them is first.
LEMMA FirstExists ==
  ASSUME NEW S, Keyed(S), S # {}
  PROVE  /\ FirstModel(S) \in S
         /\ \A n \in S \ {FirstModel(S)} : Before(FirstModel(S), n)
<1> DEFINE R == {DeployRank[m.deployment] : m \in S}
           r == Next1(R)
           K == {m.key : m \in {n \in S : DeployRank[n.deployment] = r}}
           k == Next1(K)
<1>1. \A m \in S : m.key \in Nat /\ DeployRank[m.deployment] \in Nat
  BY ModelTypes DEF Keyed
<1>2. R \subseteq Nat /\ R # {}
  BY <1>1
<1>3. r \in R /\ \A j \in R : r <= j
  BY <1>2, LeastNumber
<1>4. K \subseteq Nat /\ K # {}
  BY <1>1, <1>3
<1>5. k \in K /\ \A j \in K : k <= j
  <2> HIDE DEF K
  <2> QED BY <1>4, LeastNumber
<1>6. PICK m \in S : DeployRank[m.deployment] = r /\ m.key = k
  BY <1>5
<1>7. ASSUME NEW n \in S \ {m} PROVE Before(m, n)
  <2>1. r <= DeployRank[n.deployment] /\ DeployRank[n.deployment] \in Nat /\ r \in Nat
    BY <1>1, <1>2, <1>3
  <2>2. CASE DeployRank[n.deployment] = r
    <3>1. k <= n.key /\ n.key # k /\ n.key \in Nat /\ k \in Nat
      BY <1>1, <1>4, <1>5, <1>6, <2>2 DEF Keyed
    <3> QED BY <3>1, <2>2, <1>6 DEF Before
  <2> QED BY <2>1, <2>2, <1>6 DEF Before
<1> QED
  BY <1>6, <1>7 DEF FirstModel

\* The choice is one of the candidates, and a local one if there is any.
LEMMA ChoiceIsNearest ==
  ASSUME NEW S, Keyed(S), S # {}, NEW q, NEW local
  PROVE  /\ Choice(S, q, local) \in S
         /\ Locals(S) # {} => Choice(S, q, local).deployment = "local"
<1>1. Keyed(Locals(S)) /\ Locals(S) \subseteq S /\ \A m \in Locals(S) : m.deployment = "local"
  BY DEF Keyed, Locals
<1>2. Locals(S) # {} => FirstModel(Locals(S)) \in Locals(S)
  BY <1>1, FirstExists
<1>3. FirstModel(S) \in S /\ \A n \in S \ {FirstModel(S)} : Before(FirstModel(S), n)
  BY FirstExists
<1>4. ASSUME NEW n \in Locals(S) PROVE FirstModel(S).deployment = "local"
  <2>1. CASE n = FirstModel(S)
    BY <2>1, <1>1
  <2>2. CASE n # FirstModel(S)
    <3>1. Before(FirstModel(S), n) /\ FirstModel(S) \in Models /\ n \in Models /\ n.deployment = "local"
      BY <1>1, <1>3, <2>2 DEF Keyed
    <3>2. DeployRank[n.deployment] = 0 /\ DeployRank[FirstModel(S).deployment] \in 0..2
      BY <3>1, ModelTypes
    <3>3. DeployRank[FirstModel(S).deployment] = 0
      BY <3>1, <3>2 DEF Before
    <3> QED BY <3>1, <3>3, ModelTypes
  <2> QED BY <2>1, <2>2
<1> QED
  BY <1>1, <1>2, <1>3, <1>4 DEF Choice

-----------------------------------------------------------------------------
(* The seed of a tenant *)

\* The rows of command.* that seedDefaultCommand inserts, by their kinds.
SeedRow == {<<"policy">>, <<"binding">>, <<"model">>, <<"connector">>, <<"skill_connector">>}
           \cup {<<"skill", d.id>> : d \in {DefaultSkills[i] : i \in 1..9}}
           \cup {<<"role", d.id, r>> : d \in {DefaultSkills[i] : i \in 1..9}, r \in {"admin", "member"}}

\* The rows of a skill: its own and those of its roles.
LEMMA SkillRowsAre ==
  ASSUME NEW i \in 1..9
  PROVE  SkillRows(DefaultSkills[i]) \in Seq(SeedRow)
<1>1. DefaultSkills[i].roles \in {<<"admin", "member">>, <<"admin">>}
  BY DEF DefaultSkills, Skill, Both
<1> DEFINE rs == DefaultSkills[i].roles
           tail == [j \in DOMAIN rs |-> <<"role", DefaultSkills[i].id, rs[j]>>]
<1>2. tail \in Seq(SeedRow)
  <2>1. CASE rs = <<"admin", "member">>
    <3>1. DOMAIN rs = 1..2 /\ \A j \in 1..2 : rs[j] \in {"admin", "member"}
      BY <2>1
    <3>2. \A j \in 1..2 : <<"role", DefaultSkills[i].id, rs[j]>> \in SeedRow
      BY <3>1 DEF SeedRow
    <3> QED BY <3>1, <3>2
  <2>2. CASE rs = <<"admin">>
    <3>1. DOMAIN rs = 1..1 /\ \A j \in 1..1 : rs[j] \in {"admin", "member"}
      BY <2>2
    <3>2. \A j \in 1..1 : <<"role", DefaultSkills[i].id, rs[j]>> \in SeedRow
      BY <3>1 DEF SeedRow
    <3> QED BY <3>1, <3>2
  <2> QED BY <1>1, <2>1, <2>2
<1>3. <<<<"skill", DefaultSkills[i].id>>>> \in Seq(SeedRow)
  BY DEF SeedRow
<1>4. SkillRows(DefaultSkills[i]) = <<<<"skill", DefaultSkills[i].id>>>> \o tail
  BY DEF SkillRows
<1> HIDE DEF tail
<1> QED BY <1>2, <1>3, <1>4

\* A tenant's seed has a number of rows.
LEMMA SeedLength == Len(SeedRows) \in Nat \ {0}
<1> DEFINE head == <<<<"policy">>, <<"binding">>>>
           last == <<<<"model">>, <<"connector">>, <<"skill_connector">>>>
           sk(i) == SkillRows(DefaultSkills[i])
           s4 == head \o sk(1) \o sk(2) \o sk(3) \o sk(4)
           s9 == s4 \o sk(5) \o sk(6) \o sk(7) \o sk(8) \o sk(9)
<1>1. head \in Seq(SeedRow) /\ last \in Seq(SeedRow) /\ Len(last) = 3
  BY DEF SeedRow
<1>2. \A i \in 1..9 : sk(i) \in Seq(SeedRow)
  BY SkillRowsAre
<1>3. SeedRows = s9 \o last
  BY DEF SeedRows
<1> HIDE DEF head, last, sk
<1>4. s4 \in Seq(SeedRow)
  BY <1>1, <1>2
<1> HIDE DEF s4
<1>5. s9 \in Seq(SeedRow)
  BY <1>2, <1>4
<1> HIDE DEF s9
<1>6. \A s, t \in Seq(SeedRow) : Len(s \o t) = Len(s) + Len(t) /\ Len(s) \in Nat
  OBVIOUS
<1>7. Len(s9 \o last) = Len(s9) + Len(last) /\ Len(s9) \in Nat
  BY <1>1, <1>5, <1>6
<1> QED BY <1>1, <1>3, <1>7

\* One more insert is one more row.
LEMMA RowsAfterNext ==
  ASSUME NEW n \in Nat
  PROVE  RowsAfter(n + 1) = RowsAfter(n) \cup {SeedRows[n + 1]}
BY DEF RowsAfter

\* What a part of the seed has, the whole seed has.
LEMMA RowsAfterGrow ==
  ASSUME NEW n \in 0..Len(SeedRows)
  PROVE  RowsAfter(n) \subseteq RowsAfter(Len(SeedRows))
BY SeedLength DEF RowsAfter

-----------------------------------------------------------------------------
(* The invariant of the rows *)

Labels ==
  {"idle", "seed", "perform", "insert_user", "insert_membership", "refuse", "find_user",
   "find_membership", "insert_session", "resolve", "permit", "member", "decide", "list",
   "leave", "cloud"}

Membership == [org : Orgs, role : {"admin", "member"}]
LocalVars == [user : Nat, org : Nat, role : {Null, "admin", "member"}, found : BOOLEAN,
              listed : SUBSET Models, todo : SUBSET Models, eligible : SUBSET Models,
              local : BOOLEAN]

TenantCalls == [op : {"create_tenant"}, org : Orgs]
LoginCalls == [op : {"login"}, email : Emails, right : BOOLEAN]
ServiceCalls == [op : {"route"}, actor : Users, q : Requests]
Calls == {NoCall} \cup TenantCalls \cup LoginCalls \cup SessionCalls \cup ServiceCalls

\* A worker is at a statement of its request, with what this needs.
AtItsStep(w) ==
  /\ pc[w] = "seed" => call[w] \in TenantCalls
  /\ pc[w] \in {"insert_user", "insert_membership"} =>
       call[w] \in CreateUserCalls /\ mem[w].org \in Orgs
  /\ pc[w] \in {"find_user", "find_membership", "insert_session"} => call[w] \in LoginCalls
  /\ pc[w] \in {"find_membership", "insert_session", "member"} => mem[w].user \in Users
  /\ pc[w] \in {"resolve", "permit"} => call[w] \in SessionCalls
  /\ pc[w] = "member" => call[w] \in ServiceCalls
  /\ pc[w] = "perform" => call[w] \in SessionCalls \cup ServiceCalls /\ mem[w].org \in Orgs
  /\ pc[w] = "decide" =>
       call[w] \in EvaluateCalls \cup RouteCalls \cup ServiceCalls /\ mem[w].org \in Orgs
  /\ pc[w] \in {"list", "leave", "cloud"} =>
       call[w] \in RouteCalls \cup ServiceCalls /\ mem[w].org \in Orgs
  /\ pc[w] \in {"leave", "cloud"} => Keyed(mem[w].listed)
  /\ pc[w] = "cloud" => mem[w].todo \subseteq mem[w].listed /\ mem[w].eligible \subseteq mem[w].listed

Typed ==
  /\ tenant \in [Orgs -> {"unused", "live", "wiped"}]
  /\ seeded \in [Orgs -> 0..Len(SeedRows)]
  /\ models \in [Orgs -> SUBSET Catalog]
  /\ email \in [Users -> Emails \cup {"unused", "deleted"}]
  /\ member \in [Users -> Membership \cup {Null}]
  /\ session \in [Sessions -> [state : {"unused", "open", "closed"}, user : Nat, org : Nat]]
  /\ pc \in [Workers -> Labels]
  /\ call \in [Workers -> Calls]
  /\ mem \in [Workers -> LocalVars]
  /\ faults \in Nat
  /\ \A w \in Workers : AtItsStep(w)

\* Members belong to tenants and have an address; an address and a key are used
\* once; sessions belong to members; a tenant that is not there has no rows.
MembersOK == \A u \in Users : member[u] # Null => Live(member[u].org) /\ email[u] \in Emails
EmailsOK == \A u, v \in Users : email[u] = email[v] /\ email[u] \in Emails => u = v
SessionsOK ==
  \A s \in Sessions : IsOpen(s) =>
    /\ session[s].user \in Users
    /\ member[session[s].user] # Null /\ member[session[s].user].org = session[s].org
OrgsOK ==
  \A o \in Orgs : /\ ~Live(o) => seeded[o] = 0 /\ models[o] = {}
                  /\ Keyed(ModelsOf(o))

\* A script that seeds is the only one for its tenant, and not done.
SeederKnows(w) ==
  pc[w] = "seed" =>
    /\ tenant[call[w].org] # "unused"
    /\ Live(call[w].org) => seeded[call[w].org] < Len(SeedRows)
    /\ \A v \in Workers : pc[v] = "seed" /\ call[v].org = call[w].org => v = w

\* A request that adds a user saw the tenant, and between its two inserts it is
\* the only one that knows the user.
AdderKnows(w) ==
  /\ pc[w] \in {"insert_user", "insert_membership"} => tenant[mem[w].org] # "unused"
  /\ pc[w] = "insert_membership" =>
       /\ mem[w].user \in Users /\ member[mem[w].user] = Null /\ email[mem[w].user] \in Emails
       /\ \A v \in Workers : pc[v] = "insert_membership" /\ mem[v].user = mem[w].user => v = w

\* What is half made is being made, or there is a reason.
StraysOK ==
  \A u \in Users : email[u] \in Emails /\ member[u] = Null =>
    \/ faults > 0 \/ \E o \in Orgs : tenant[o] = "wiped"
    \/ \E w \in Workers : pc[w] = "insert_membership" /\ mem[w].user = u
SeedsOK ==
  \A o \in Orgs : seeded[o] < Len(SeedRows) /\ Live(o) /\ faults = 0 =>
    Preempted(o) \/ \E w \in Workers : pc[w] = "seed" /\ call[w].org = o

RowsInv ==
  /\ Typed
  /\ MembersOK /\ EmailsOK /\ SessionsOK /\ OrgsOK
  /\ \A w \in Workers : SeederKnows(w) /\ AdderKnows(w)
  /\ StraysOK /\ SeedsOK

\* Worker w goes to label with request c and locals m.
Takes(w, label, c, m) ==
  /\ pc' = [pc EXCEPT ![w] = label]
  /\ call' = [call EXCEPT ![w] = c]
  /\ mem' = [mem EXCEPT ![w] = m]
  /\ faults' = faults

\* It goes there, and the others stay where they are.
LEMMA TakesOne ==
  ASSUME Typed, NEW w \in Workers, NEW label, NEW c, NEW m, Takes(w, label, c, m)
  PROVE  /\ pc'[w] = label /\ call'[w] = c /\ mem'[w] = m
         /\ \A v \in Workers \ {w} : pc'[v] = pc[v] /\ call'[v] = call[v] /\ mem'[v] = mem[v]
BY DEF Takes, Typed

\* Begin, Continue and Answer are such steps.
LEMMA ContinueTakes ==
  ASSUME Typed, NEW w \in Workers, NEW label, NEW m, Continue(w, label, m)
  PROVE  Takes(w, label, call[w], m)
BY DEF Continue, Takes, Typed

\* So is the answer of a request.
LEMMA AnswerTakes ==
  ASSUME NEW w \in Workers, Answer(w)
  PROVE  Takes(w, "idle", NoCall, NoMem)
BY DEF Answer, Takes

\* And its beginning, of a worker that was idle.
LEMMA BeginTakes ==
  ASSUME NEW w \in Workers, NEW c, NEW label, NEW m, Begin(w, c, label, m)
  PROVE  Takes(w, label, c, m) /\ pc[w] = "idle"
BY DEF Begin, Takes

\* A request begins and ends with locals of their types.
LEMMA NoMemType == NoMem \in LocalVars
BY DEF NoMem, LocalVars

\* What a step of one worker has to show for the types of the workers.
LEMMA WorkersTyped ==
  ASSUME Typed, NEW w \in Workers, NEW label \in Labels, NEW c \in Calls, NEW m \in LocalVars,
         Takes(w, label, c, m), AtItsStep(w)'
  PROVE  /\ pc' \in [Workers -> Labels] /\ call' \in [Workers -> Calls]
         /\ mem' \in [Workers -> LocalVars] /\ faults' \in Nat
         /\ \A v \in Workers : AtItsStep(v)'
<1>1. \A v \in Workers \ {w} : pc'[v] = pc[v] /\ call'[v] = call[v] /\ mem'[v] = mem[v]
  BY TakesOne
<1>2. ASSUME NEW v \in Workers \ {w} PROVE AtItsStep(v)'
  <2>1. AtItsStep(v)
    BY DEF Typed
  <2> QED BY <1>1, <2>1 DEF AtItsStep
<1> QED
  BY <1>2 DEF Takes, Typed

\* A statement that only reads keeps the invariant, if the worker does not
\* start to make something, and leaves nothing half made but for a reason.
LEMMA ReadKeeps ==
  ASSUME RowsInv, NEW w \in Workers, NEW label \in Labels \ {"seed", "insert_membership"},
         NEW c \in Calls, NEW m \in LocalVars, Takes(w, label, c, m),
         UNCHANGED rows,
         pc[w] = "seed" => ~Live(call[w].org) \/ Preempted(call[w].org),
         pc[w] = "insert_membership" => \E o \in Orgs : tenant[o] = "wiped",
         label = "insert_user" => tenant[m.org] # "unused",
         AtItsStep(w)'
  PROVE  RowsInv'
<1>1. Typed /\ faults' = faults
  BY DEF RowsInv, Takes
<1>2. /\ pc'[w] = label /\ call'[w] = c /\ mem'[w] = m
      /\ \A v \in Workers \ {w} : pc'[v] = pc[v] /\ call'[v] = call[v] /\ mem'[v] = mem[v]
  BY <1>1, TakesOne
<1>3. /\ tenant' = tenant /\ seeded' = seeded /\ models' = models /\ email' = email
      /\ member' = member /\ session' = session
  BY DEF rows
<1>4. Typed'
  BY <1>1, <1>3, WorkersTyped DEF Typed
<1>5. MembersOK' /\ EmailsOK' /\ SessionsOK'
  BY <1>3 DEF RowsInv, MembersOK, EmailsOK, SessionsOK, Live, IsOpen
<1>6. OrgsOK'
  BY <1>3 DEF RowsInv, OrgsOK, Live, ModelsOf, Rows, Keyed
<1>7. ASSUME NEW v \in Workers PROVE SeederKnows(v)'
  <2>1. SeederKnows(v)
    BY DEF RowsInv
  <2> QED BY <1>2, <1>3, <2>1 DEF SeederKnows, Live
<1>8. ASSUME NEW v \in Workers PROVE AdderKnows(v)'
  <2>1. AdderKnows(v)
    BY DEF RowsInv
  <2> QED BY <1>2, <1>3, <2>1 DEF AdderKnows
<1>9. StraysOK'
  <2>1. \A v \in Workers : pc[v] = "insert_membership" =>
          (pc'[v] = pc[v] /\ mem'[v] = mem[v]) \/ \E o \in Orgs : tenant[o] = "wiped"
    BY <1>2
  <2> QED BY <1>1, <1>3, <2>1 DEF RowsInv, StraysOK
<1>10. SeedsOK'
  <2>1. \A v \in Workers : pc[v] = "seed" =>
          \/ pc'[v] = pc[v] /\ call'[v] = call[v]
          \/ ~Live(call[v].org) \/ Preempted(call[v].org)
    BY <1>2
  <2> SUFFICES ASSUME NEW o \in Orgs, seeded'[o] < Len(SeedRows), Live(o)', faults' = 0
               PROVE  Preempted(o)' \/ \E v \in Workers : pc'[v] = "seed" /\ call'[v].org = o
    BY DEF SeedsOK
  <2>2. Live(o) /\ (Preempted(o) \/ \E v \in Workers : pc[v] = "seed" /\ call[v].org = o)
    BY <1>1, <1>3 DEF RowsInv, SeedsOK, Live
  <2>3. CASE Preempted(o)
    BY <2>3, <1>3 DEF Preempted
  <2>4. CASE ~Preempted(o)
    BY <2>1, <2>2, <2>4
  <2> QED BY <2>3, <2>4
<1> QED
  BY <1>4, <1>5, <1>6, <1>7, <1>8, <1>9, <1>10 DEF RowsInv

\* The operation of a request tells what else it carries.
LEMMA CallsByOp ==
  ASSUME NEW c \in SessionCalls \cup ServiceCalls
  PROVE  /\ c.op = "create_user" => c \in CreateUserCalls
         /\ c.op = "evaluate" => c \in EvaluateCalls
         /\ c.op = "register" => c \in RegisterCalls
         /\ c.op = "route" => c \in RouteCalls \cup ServiceCalls /\ c.q \in Requests
         /\ c \in Calls
BY DEF SessionCalls, CreateUserCalls, EvaluateCalls, RegisterCalls, RouteCalls, ServiceCalls, Calls

\* An answered request keeps nothing.
LEMMA AnswerKeeps ==
  ASSUME RowsInv, NEW w \in Workers, Answer(w), UNCHANGED rows,
         pc[w] = "seed" => ~Live(call[w].org) \/ Preempted(call[w].org),
         pc[w] = "insert_membership" => \E o \in Orgs : tenant[o] = "wiped"
  PROVE  RowsInv'
<1>1. Takes(w, "idle", NoCall, NoMem) /\ Typed
  BY AnswerTakes DEF RowsInv
<1>2. pc'[w] = "idle"
  BY <1>1, TakesOne
<1>3. AtItsStep(w)'
  BY <1>2 DEF AtItsStep
<1> QED
  BY <1>1, <1>3, NoMemType, ReadKeeps DEF Labels, Calls

\* What a worker at work has.
LEMMA WorkerTypes ==
  ASSUME RowsInv, NEW w \in Workers
  PROVE  /\ Typed /\ pc[w] \in Labels /\ call[w] \in Calls /\ mem[w] \in LocalVars
         /\ AtItsStep(w)
BY DEF RowsInv, Typed

\* The requests that create users and that log in, up to their inserts.
LEMMA LoginReads ==
  ASSUME RowsInv, NEW w \in Workers,
         CheckRole(w) \/ Login(w) \/ Refuse(w) \/ FindUser(w) \/ FindMembership(w)
  PROVE  RowsInv'
<1>0. /\ Typed /\ pc[w] \in Labels /\ call[w] \in Calls /\ mem[w] \in LocalVars
      /\ AtItsStep(w)
  BY WorkerTypes
<1>1. CASE CheckRole(w)
  <2>1. pc[w] = "perform" /\ call[w].op = "create_user" /\ UNCHANGED rows
    BY <1>1 DEF CheckRole, At
  <2>2. call[w] \in CreateUserCalls /\ mem[w].org \in Orgs
    BY <1>0, <2>1, CallsByOp DEF AtItsStep
  <2>3. CASE Live(mem[w].org) /\ Continue(w, "insert_user", mem[w])
    <3>1. Takes(w, "insert_user", call[w], mem[w])
      BY <1>0, <2>3, ContinueTakes
    <3>2. pc'[w] = "insert_user" /\ call'[w] = call[w] /\ mem'[w] = mem[w]
      BY <1>0, <3>1, TakesOne
    <3>3. AtItsStep(w)'
      BY <3>2, <2>2 DEF AtItsStep
    <3>4. tenant[mem[w].org] # "unused"
      BY <2>3 DEF Live
    <3> QED BY <1>0, <2>1, <3>1, <3>3, <3>4, ReadKeeps DEF Labels
  <2>4. CASE Answer(w)
    BY <2>1, <2>4, AnswerKeeps
  <2> QED BY <1>1, <2>3, <2>4 DEF CheckRole
<1>2. CASE Login(w)
  <2>1. PICK x \in Emails, right \in BOOLEAN, label \in {"refuse", "find_user"} :
          Begin(w, [op |-> "login", email |-> x, right |-> right], label, NoMem)
    BY <1>2 DEF Login
  <2> DEFINE c == [op |-> "login", email |-> x, right |-> right]
  <2>2. Takes(w, label, c, NoMem) /\ pc[w] = "idle"
    BY <2>1, BeginTakes
  <2>3. c \in LoginCalls /\ c \in Calls
    BY DEF LoginCalls, Calls
  <2>4. pc'[w] = label /\ call'[w] = c
    BY <1>0, <2>2, TakesOne
  <2>5. AtItsStep(w)'
    BY <2>3, <2>4 DEF AtItsStep
  <2>6. UNCHANGED rows
    BY <1>2 DEF Login
  <2> HIDE DEF c
  <2> QED BY <2>2, <2>3, <2>5, <2>6, NoMemType, ReadKeeps DEF Labels
<1>3. CASE Refuse(w)
  <2>1. pc[w] = "refuse" /\ Answer(w) /\ UNCHANGED rows
    BY <1>3 DEF Refuse
  <2> QED BY <2>1, AnswerKeeps
<1>4. CASE FindUser(w)
  <2> DEFINE found == {u \in Users : email[u] = call[w].email}
             u == Next1(found)
             m == [mem[w] EXCEPT !.user = u]
  <2>1. pc[w] = "find_user" /\ UNCHANGED rows
    BY <1>4 DEF FindUser, At
  <2>2. CASE found # {} /\ Continue(w, "find_membership", m)
    <3>1. u \in Users /\ u \in Nat
      BY <2>2, LeastNumber, IdsAssumption
    <3>2. Takes(w, "find_membership", call[w], m)
      BY <1>0, <2>2, ContinueTakes
    <3>3. m \in LocalVars /\ m.user = u
      BY <1>0, <3>1 DEF LocalVars
    <3>4. pc'[w] = "find_membership" /\ call'[w] = call[w] /\ mem'[w] = m
      BY <1>0, <3>2, TakesOne
    <3>5. AtItsStep(w)'
      BY <1>0, <2>1, <3>1, <3>3, <3>4 DEF AtItsStep
    <3> HIDE DEF m
    <3> QED BY <1>0, <2>1, <3>2, <3>3, <3>5, ReadKeeps DEF Labels
  <2>3. CASE Answer(w)
    BY <2>1, <2>3, AnswerKeeps
  <2> QED BY <1>4, <2>2, <2>3 DEF FindUser
<1>5. CASE FindMembership(w)
  <2> DEFINE o == member[mem[w].user].org
             m == [mem[w] EXCEPT !.org = o]
  <2>1. pc[w] = "find_membership" /\ UNCHANGED rows
    BY <1>5 DEF FindMembership, At
  <2>2. CASE member[mem[w].user] # Null /\ Continue(w, "insert_session", m)
    <3>1. o \in Orgs /\ o \in Nat
      BY <1>0, <2>1, <2>2, IdsAssumption DEF AtItsStep, Typed, Membership
    <3>2. Takes(w, "insert_session", call[w], m)
      BY <1>0, <2>2, ContinueTakes
    <3>3. m \in LocalVars /\ m.user = mem[w].user
      BY <1>0, <3>1 DEF LocalVars
    <3>4. pc'[w] = "insert_session" /\ call'[w] = call[w] /\ mem'[w] = m
      BY <1>0, <3>2, TakesOne
    <3>5. AtItsStep(w)'
      BY <1>0, <2>1, <3>3, <3>4 DEF AtItsStep
    <3> HIDE DEF m
    <3> QED BY <1>0, <2>1, <3>2, <3>3, <3>5, ReadKeeps DEF Labels
  <2>3. CASE Answer(w)
    BY <2>1, <2>3, AnswerKeeps
  <2> QED BY <1>5, <2>2, <2>3 DEF FindMembership
<1> QED
  BY <1>1, <1>2, <1>3, <1>4, <1>5

\* How requests of sessions and services begin, and are permitted.
LEMMA PermitReads ==
  ASSUME RowsInv, NEW w \in Workers,
         \/ SessionRequest(w) \/ ServiceRequest(w)
         \/ ResolveSession(w) \/ RequirePermission(w) \/ ReadMembership(w)
  PROVE  RowsInv'
<1>0. /\ Typed /\ pc[w] \in Labels /\ call[w] \in Calls /\ mem[w] \in LocalVars
      /\ AtItsStep(w)
  BY WorkerTypes
<1>1. CASE SessionRequest(w)
  <2>1. PICK c \in SessionCalls : Begin(w, c, "resolve", NoMem) /\ UNCHANGED rows
    BY <1>1 DEF SessionRequest
  <2>2. Takes(w, "resolve", c, NoMem) /\ pc[w] = "idle"
    BY <2>1, BeginTakes
  <2>3. pc'[w] = "resolve" /\ call'[w] = c
    BY <1>0, <2>2, TakesOne
  <2>4. AtItsStep(w)'
    BY <2>3 DEF AtItsStep
  <2> QED BY <2>1, <2>2, <2>4, NoMemType, ReadKeeps DEF Labels, Calls
<1>2. CASE ServiceRequest(w)
  <2>1. PICK u \in Users, o \in Orgs, q \in Requests :
          /\ Begin(w, [op |-> "route", actor |-> u, q |-> q], "member",
                   [NoMem EXCEPT !.user = u, !.org = o])
          /\ UNCHANGED rows
    BY <1>2 DEF ServiceRequest
  <2> DEFINE c == [op |-> "route", actor |-> u, q |-> q]
             m == [NoMem EXCEPT !.user = u, !.org = o]
  <2>2. Takes(w, "member", c, m) /\ pc[w] = "idle"
    BY <2>1, BeginTakes
  <2>3. c \in ServiceCalls /\ c \in Calls /\ m \in LocalVars /\ m.user = u
    BY IdsAssumption DEF ServiceCalls, Calls, LocalVars, NoMem
  <2>4. pc'[w] = "member" /\ call'[w] = c /\ mem'[w] = m
    BY <1>0, <2>2, TakesOne
  <2>5. AtItsStep(w)'
    BY <2>3, <2>4 DEF AtItsStep
  <2> HIDE DEF c, m
  <2> QED BY <2>1, <2>2, <2>3, <2>5, ReadKeeps DEF Labels
<1>3. CASE ResolveSession(w)
  <2> DEFINE s == call[w].s
             r == member[session[s].user].role
             m == [NoMem EXCEPT !.user = session[s].user, !.org = session[s].org, !.role = r]
  <2>1. pc[w] = "resolve" /\ UNCHANGED rows
    BY <1>3 DEF ResolveSession
  <2>2. CASE Resolved(s) /\ Continue(w, "permit", m)
    <3>1. call[w] \in SessionCalls
      BY <1>0, <2>1 DEF AtItsStep
    <3>2. s \in Sessions
      BY <3>1 DEF SessionCalls, CreateUserCalls, EvaluateCalls, RegisterCalls, RouteCalls
    <3>3. session[s].user \in Users /\ session[s].user \in Nat /\ session[s].org \in Nat
      BY <1>0, <2>2, <3>2 DEF RowsInv, SessionsOK, Resolved, Typed
    <3>4. r \in {"admin", "member"}
      BY <1>0, <2>2, <3>3 DEF Resolved, Typed, Membership
    <3>5. m \in LocalVars
      BY <3>3, <3>4 DEF LocalVars, NoMem
    <3>6. Takes(w, "permit", call[w], m)
      BY <1>0, <2>2, ContinueTakes
    <3>7. pc'[w] = "permit" /\ call'[w] = call[w]
      BY <1>0, <3>6, TakesOne
    <3>8. AtItsStep(w)'
      BY <3>1, <3>7 DEF AtItsStep
    <3> HIDE DEF m
    <3> QED BY <1>0, <2>1, <3>5, <3>6, <3>8, ReadKeeps DEF Labels
  <2>3. CASE Answer(w)
    BY <2>1, <2>3, AnswerKeeps
  <2> QED BY <1>3, <2>2, <2>3 DEF ResolveSession
<1>4. CASE RequirePermission(w)
  <2>1. pc[w] = "permit" /\ UNCHANGED rows
    BY <1>4 DEF RequirePermission
  <2>2. CASE Live(mem[w].org) /\ Continue(w, "perform", mem[w])
    <3>1. Takes(w, "perform", call[w], mem[w])
      BY <1>0, <2>2, ContinueTakes
    <3>2. pc'[w] = "perform" /\ call'[w] = call[w] /\ mem'[w] = mem[w]
      BY <1>0, <3>1, TakesOne
    <3>3. AtItsStep(w)'
      BY <1>0, <2>1, <2>2, <3>2 DEF AtItsStep, Live
    <3> QED BY <1>0, <2>1, <3>1, <3>3, ReadKeeps DEF Labels
  <2>3. CASE Answer(w)
    BY <2>1, <2>3, AnswerKeeps
  <2> QED BY <1>4, <2>2, <2>3 DEF RequirePermission
<1>5. CASE ReadMembership(w)
  <2> DEFINE r == member[mem[w].user].role
             m == [mem[w] EXCEPT !.role = r]
  <2>1. pc[w] = "member" /\ UNCHANGED rows
    BY <1>5 DEF ReadMembership
  <2>2. CASE /\ member[mem[w].user] # Null /\ member[mem[w].user].org = mem[w].org
             /\ Continue(w, "perform", m)
    <3>1. call[w] \in ServiceCalls /\ mem[w].user \in Users
      BY <1>0, <2>1 DEF AtItsStep
    <3>2. r \in {"admin", "member"} /\ mem[w].org \in Orgs
      BY <1>0, <2>2, <3>1 DEF Typed, Membership
    <3>3. m \in LocalVars /\ m.org = mem[w].org
      BY <1>0, <3>2 DEF LocalVars
    <3>4. Takes(w, "perform", call[w], m)
      BY <1>0, <2>2, ContinueTakes
    <3>5. pc'[w] = "perform" /\ call'[w] = call[w] /\ mem'[w] = m
      BY <1>0, <3>4, TakesOne
    <3>6. AtItsStep(w)'
      BY <3>1, <3>2, <3>3, <3>5 DEF AtItsStep
    <3> HIDE DEF m
    <3> QED BY <1>0, <2>1, <3>3, <3>4, <3>6, ReadKeeps DEF Labels
  <2>3. CASE Answer(w)
    BY <2>1, <2>3, AnswerKeeps
  <2> QED BY <1>5, <2>2, <2>3 DEF ReadMembership
<1> QED
  BY <1>1, <1>2, <1>3, <1>4, <1>5

\* The decisions and the router's reads.
LEMMA RouterReads ==
  ASSUME RowsInv, NEW w \in Workers,
         \/ ReadPolicy(w) \/ Evaluate(w) \/ MayRoute(w) \/ ListModels(w)
         \/ AskLeave(w) \/ AskCloud(w) \/ Choose(w)
  PROVE  RowsInv'
<1>0. /\ Typed /\ pc[w] \in Labels /\ call[w] \in Calls /\ mem[w] \in LocalVars
      /\ AtItsStep(w)
  BY WorkerTypes
\* A worker on its way to a choice stays there.
<1>1. ASSUME NEW label \in {"list", "leave", "cloud"}, NEW m \in LocalVars, m.org = mem[w].org,
             Continue(w, label, m), UNCHANGED rows,
             pc[w] \in {"decide", "list", "leave", "cloud"}, call[w].op = "route",
             label # "list" => Keyed(m.listed),
             label = "cloud" => m.todo \subseteq m.listed /\ m.eligible \subseteq m.listed
      PROVE  RowsInv'
  <2>1. Takes(w, label, call[w], m)
    BY <1>0, <1>1, ContinueTakes
  <2>2. pc'[w] = label /\ call'[w] = call[w] /\ mem'[w] = m
    BY <1>0, <2>1, TakesOne
  <2>3. call[w] \in RouteCalls \cup ServiceCalls /\ mem[w].org \in Orgs
    BY <1>0, <1>1, CallsByOp DEF AtItsStep, SessionCalls
  <2>4. AtItsStep(w)'
    BY <1>1, <2>2, <2>3 DEF AtItsStep
  <2> QED BY <1>0, <1>1, <2>1, <2>4, ReadKeeps DEF Labels
<1>2. CASE ReadPolicy(w)
  <2> DEFINE m == [mem[w] EXCEPT !.found = PolicyFound(Rows(mem[w].org))]
  <2>1. /\ pc[w] = "perform" /\ call[w].op \in {"evaluate", "route"}
        /\ Continue(w, "decide", m) /\ UNCHANGED rows
    BY <1>2 DEF ReadPolicy
  <2>2. m \in LocalVars /\ m.org = mem[w].org
    BY <1>0 DEF LocalVars, PolicyFound
  <2>3. Takes(w, "decide", call[w], m)
    BY <1>0, <2>1, ContinueTakes
  <2>4. pc'[w] = "decide" /\ call'[w] = call[w] /\ mem'[w] = m
    BY <1>0, <2>3, TakesOne
  <2>5. call[w] \in EvaluateCalls \cup RouteCalls \cup ServiceCalls /\ mem[w].org \in Orgs
    BY <1>0, <2>1, CallsByOp DEF AtItsStep
  <2> HIDE DEF m
  <2>6. AtItsStep(w)'
    BY <2>2, <2>4, <2>5 DEF AtItsStep
  <2> QED BY <1>0, <2>1, <2>2, <2>3, <2>6, ReadKeeps DEF Labels
<1>3. CASE Evaluate(w)
  <2>1. pc[w] = "decide" /\ Answer(w) /\ UNCHANGED rows
    BY <1>3 DEF Evaluate, At
  <2> QED BY <2>1, AnswerKeeps
<1>4. CASE MayRoute(w)
  <2>1. /\ pc[w] = "decide" /\ call[w].op = "route" /\ UNCHANGED rows
        /\ Answer(w) \/ Continue(w, "list", mem[w])
    BY <1>4 DEF MayRoute, At
  <2> QED BY <1>0, <1>1, <2>1, AnswerKeeps
<1>5. CASE ListModels(w)
  <2> DEFINE m == [mem[w] EXCEPT !.listed = {n \in ModelsOf(mem[w].org) : n.enabled}]
  <2>1. pc[w] = "list" /\ call[w].op = "route" /\ Continue(w, "leave", m) /\ UNCHANGED rows
    BY <1>5 DEF ListModels, At
  <2>2. Keyed(ModelsOf(mem[w].org))
    BY <1>0, <2>1 DEF AtItsStep, RowsInv, OrgsOK
  <2>3. m \in LocalVars /\ m.org = mem[w].org /\ Keyed(m.listed)
    BY <1>0, <2>2 DEF LocalVars, Keyed
  <2> HIDE DEF m
  <2> QED BY <1>1, <2>1, <2>3
<1>6. CASE AskLeave(w)
  <2>1. ASSUME NEW local \in BOOLEAN, NEW todo \in SUBSET mem[w].listed,
               NEW eligible \in SUBSET mem[w].listed, pc[w] = "leave", call[w].op = "route",
               UNCHANGED rows,
               Continue(w, "cloud",
                 [mem[w] EXCEPT !.local = local, !.todo = todo, !.eligible = eligible])
        PROVE  RowsInv'
    <3> DEFINE m == [mem[w] EXCEPT !.local = local, !.todo = todo, !.eligible = eligible]
    <3>1. Keyed(mem[w].listed)
      BY <1>0, <2>1 DEF AtItsStep
    <3>2. /\ m \in LocalVars /\ m.org = mem[w].org /\ m.listed = mem[w].listed
          /\ m.todo = todo /\ m.eligible = eligible
      BY <1>0, <2>1 DEF LocalVars
    <3>3. Continue(w, "cloud", m)
      BY <2>1
    <3> HIDE DEF m
    <3> QED BY <1>1, <2>1, <3>1, <3>2, <3>3
  <2> DEFINE q == call[w].q
             o == mem[w].org
             leave == Decision(PolicyFound(Rows(o)), Rows(o), mem[w].role, LeaveAsk(q))
             local == LocalRequired(leave, q)
             suited == {m \in mem[w].listed : Suits(m, q, local)}
             cloud == {m \in suited : m.deployment = "cloud"}
             near == suited \ cloud
  <2>2. /\ pc[w] = "leave" /\ call[w].op = "route" /\ UNCHANGED rows
        /\ Continue(w, "cloud", [mem[w] EXCEPT !.local = local, !.todo = cloud, !.eligible = near])
    BY <1>6 DEF AskLeave, At
  <2>3. local \in BOOLEAN
    BY DEF LocalRequired
  <2>4. cloud \in SUBSET mem[w].listed /\ near \in SUBSET mem[w].listed
    OBVIOUS
  <2> HIDE DEF local, cloud, near
  <2> QED BY <2>1, <2>2, <2>3, <2>4
<1>7. CASE AskCloud(w)
  <2> DEFINE n == FirstModel(mem[w].todo)
  <2>1. PICK eligible :
          /\ eligible \in {mem[w].eligible, mem[w].eligible \cup {n}} /\ mem[w].todo # {}
          /\ pc[w] = "cloud" /\ call[w].op = "route" /\ UNCHANGED rows
          /\ Continue(w, "cloud", [mem[w] EXCEPT !.todo = @ \ {n}, !.eligible = eligible])
    <3> DEFINE d == Decision(PolicyFound(Rows(mem[w].org)), Rows(mem[w].org), mem[w].role,
                             CloudAsk(call[w].q, n))
               e == IF d.decision = "deny" THEN mem[w].eligible ELSE mem[w].eligible \cup {n}
    <3>1. /\ pc[w] = "cloud" /\ call[w].op = "route" /\ UNCHANGED rows /\ mem[w].todo # {}
          /\ Continue(w, "cloud", [mem[w] EXCEPT !.todo = @ \ {n},
               !.eligible = IF d.decision = "deny" THEN @ ELSE @ \cup {n}])
      BY <1>7 DEF AskCloud, At
    <3>2. Continue(w, "cloud", [mem[w] EXCEPT !.todo = @ \ {n}, !.eligible = e])
      BY <3>1
    <3>3. e \in {mem[w].eligible, mem[w].eligible \cup {n}}
      OBVIOUS
    <3> HIDE DEF e, n
    <3> QED BY <3>1, <3>2, <3>3
  <2> DEFINE m == [mem[w] EXCEPT !.todo = @ \ {n}, !.eligible = eligible]
  <2>2. /\ Keyed(mem[w].listed) /\ mem[w].todo \subseteq mem[w].listed
        /\ mem[w].eligible \subseteq mem[w].listed
    BY <1>0, <2>1 DEF AtItsStep
  <2>3. n \in mem[w].todo
    <3>1. Keyed(mem[w].todo)
      BY <2>2 DEF Keyed
    <3> QED BY <2>1, <3>1, FirstExists
  <2>4. eligible \subseteq mem[w].listed /\ mem[w].listed \subseteq Models
    BY <2>1, <2>2, <2>3 DEF Keyed
  <2> HIDE DEF n
  <2>5. /\ m \in LocalVars /\ m.org = mem[w].org /\ m.listed = mem[w].listed
        /\ m.todo \subseteq mem[w].listed /\ m.eligible = eligible
    BY <1>0, <2>2, <2>4 DEF LocalVars
  <2>6. Continue(w, "cloud", m)
    BY <2>1
  <2> HIDE DEF m
  <2> QED BY <1>1, <2>1, <2>2, <2>4, <2>5, <2>6
<1>8. CASE Choose(w)
  <2>1. pc[w] = "cloud" /\ Answer(w) /\ UNCHANGED rows
    BY <1>8 DEF Choose, At
  <2> QED BY <2>1, AnswerKeeps
<1> QED
  BY <1>2, <1>3, <1>4, <1>5, <1>6, <1>7, <1>8

\* What the invariant says of each worker.
LEMMA WorkerKnows ==
  ASSUME RowsInv, NEW w \in Workers
  PROVE  SeederKnows(w) /\ AdderKnows(w)
BY DEF RowsInv

\* createOrganization: the new tenant is nobody else's, and its first rows are
\* complete; its seed is the script's to insert.
LEMMA CreateOrganizationKeeps ==
  ASSUME RowsInv, NEW w \in Workers, CreateOrganization(w)
  PROVE  RowsInv'
<1> DEFINE o == Next1(UnusedOrg)
           u == Next1(UnusedUser)
           c == [op |-> "create_tenant", org |-> o]
<1>0. Typed
  BY DEF RowsInv
<1>1. PICK x \in Emails :
        /\ UnusedOrg # {} /\ UnusedUser # {} /\ ~EmailTaken(x)
        /\ Begin(w, c, "seed", NoMem)
        /\ tenant' = [tenant EXCEPT ![o] = "live"]
        /\ email' = [email EXCEPT ![u] = x]
        /\ member' = [member EXCEPT ![u] = [org |-> o, role |-> "admin"]]
        /\ UNCHANGED <<seeded, models, session>>
  BY DEF CreateOrganization
<1>2. o \in Orgs /\ tenant[o] = "unused" /\ u \in Users /\ email[u] = "unused"
  <2>1. o \in UnusedOrg /\ u \in UnusedUser
    BY <1>1, LeastNumber, IdsAssumption DEF UnusedOrg, UnusedUser
  <2> QED BY <2>1 DEF UnusedOrg, UnusedUser
<1>3. Takes(w, "seed", c, NoMem) /\ pc[w] = "idle"
  BY <1>1, BeginTakes
<1>4. c \in TenantCalls /\ c.org = o
  BY <1>2 DEF TenantCalls
<1> HIDE DEF o, u, c
<1>5. /\ pc'[w] = "seed" /\ call'[w] = c /\ faults' = faults
      /\ \A v \in Workers \ {w} : pc'[v] = pc[v] /\ call'[v] = call[v] /\ mem'[v] = mem[v]
  BY <1>0, <1>3, TakesOne DEF Takes
<1>6. /\ tenant'[o] = "live" /\ email'[u] = x /\ member'[u] = [org |-> o, role |-> "admin"]
      /\ \A p \in Orgs \ {o} : tenant'[p] = tenant[p]
      /\ \A y \in Users \ {u} : email'[y] = email[y] /\ member'[y] = member[y]
      /\ seeded' = seeded /\ models' = models /\ session' = session
  BY <1>0, <1>1, <1>2 DEF Typed
<1>7. member[u] = Null /\ \A y \in Users : email[y] # x
  BY <1>1, <1>2, AddressesAssumption DEF RowsInv, MembersOK, EmailTaken
<1>8. [org |-> o, role |-> "admin"] \in Membership /\ [org |-> o, role |-> "admin"] # Null
  BY <1>2, NullAssumption DEF Membership
<1>9. Typed'
  <2>1. AtItsStep(w)'
    BY <1>4, <1>5 DEF AtItsStep
  <2>2. c \in Calls
    BY <1>4 DEF Calls
  <2>3. /\ pc' \in [Workers -> Labels] /\ call' \in [Workers -> Calls]
        /\ mem' \in [Workers -> LocalVars] /\ faults' \in Nat
        /\ \A v \in Workers : AtItsStep(v)'
    BY <1>0, <1>3, <2>1, <2>2, NoMemType, WorkersTyped DEF Labels
  <2>4. /\ tenant' \in [Orgs -> {"unused", "live", "wiped"}]
        /\ email' \in [Users -> Emails \cup {"unused", "deleted"}]
        /\ member' \in [Users -> Membership \cup {Null}]
    BY <1>0, <1>1, <1>2, <1>8 DEF Typed
  <2> QED BY <1>0, <1>6, <2>3, <2>4 DEF Typed
<1>10. MembersOK'
  <2> SUFFICES ASSUME NEW y \in Users, member'[y] # Null
               PROVE  /\ member'[y].org \in Orgs /\ tenant'[member'[y].org] = "live"
                      /\ email'[y] \in Emails
    BY DEF MembersOK, Live
  <2>1. CASE y = u
    BY <2>1, <1>2, <1>6
  <2>2. CASE y # u
    <3>1. member'[y] = member[y] /\ email'[y] = email[y] /\ Live(member[y].org) /\ email[y] \in Emails
      BY <2>2, <1>6 DEF RowsInv, MembersOK
    <3> QED BY <3>1, <1>2, <1>6 DEF Live
  <2> QED BY <2>1, <2>2
<1>11. EmailsOK'
  BY <1>6, <1>7 DEF RowsInv, EmailsOK
<1>12. SessionsOK'
  <2> SUFFICES ASSUME NEW s \in Sessions, IsOpen(s)'
               PROVE  /\ session'[s].user \in Users /\ member'[session'[s].user] # Null
                      /\ member'[session'[s].user].org = session'[s].org
    BY DEF SessionsOK
  <2>1. /\ session[s].user \in Users /\ member[session[s].user] # Null
        /\ member[session[s].user].org = session[s].org
    BY <1>6 DEF RowsInv, SessionsOK, IsOpen
  <2> QED BY <2>1, <1>6, <1>7
<1>13. OrgsOK'
  BY <1>2, <1>6 DEF RowsInv, OrgsOK, Live, ModelsOf, Rows, Keyed
<1>14. ASSUME NEW v \in Workers PROVE SeederKnows(v)'
  <2>1. SeederKnows(v) /\ AtItsStep(v)
    BY <1>0, WorkerKnows DEF Typed
  <2>2. seeded[o] = 0 /\ 0 < Len(SeedRows)
    BY <1>2, SeedLength DEF RowsInv, OrgsOK, Live
  <2>3. pc[v] = "seed" => call[v].org \in Orgs /\ call[v].org # o
    BY <2>1, <1>2 DEF SeederKnows, AtItsStep, TenantCalls
  <2>4. CASE v = w
    <3>1. \A y \in Workers \ {w} : pc[y] = "seed" => call[y].org # o
      BY <1>2, WorkerKnows DEF SeederKnows
    <3> QED BY <2>4, <2>2, <3>1, <1>4, <1>5, <1>6 DEF SeederKnows
  <2>5. CASE v # w
    BY <2>5, <2>1, <2>3, <1>4, <1>5, <1>6 DEF SeederKnows, Live
  <2> QED BY <2>4, <2>5
<1>15. ASSUME NEW v \in Workers PROVE AdderKnows(v)'
  <2>1. AdderKnows(v) /\ AtItsStep(v)
    BY <1>0, WorkerKnows DEF Typed
  <2>2. CASE v = w
    BY <2>2, <1>5 DEF AdderKnows
  <2>3. CASE v # w
    <3>1. pc[v] = "insert_membership" => mem[v].user # u
      BY <2>1, <1>2, AddressesAssumption DEF AdderKnows
    <3>2. pc[v] \in {"insert_user", "insert_membership"} => tenant'[mem[v].org] # "unused"
      BY <2>1, <1>6 DEF AdderKnows, AtItsStep
    <3> QED BY <2>1, <2>3, <3>1, <3>2, <1>5, <1>6 DEF AdderKnows
  <2> QED BY <2>2, <2>3
<1>16. StraysOK'
  <2> SUFFICES ASSUME NEW y \in Users, email'[y] \in Emails, member'[y] = Null
               PROVE  \/ faults' > 0 \/ \E p \in Orgs : tenant'[p] = "wiped"
                      \/ \E v \in Workers : pc'[v] = "insert_membership" /\ mem'[v].user = y
    BY DEF StraysOK
  <2>1. y # u
    BY <1>6, <1>8
  <2>2. \/ faults > 0 \/ \E p \in Orgs : tenant[p] = "wiped"
        \/ \E v \in Workers : pc[v] = "insert_membership" /\ mem[v].user = y
    BY <2>1, <1>6 DEF RowsInv, StraysOK
  <2>3. \A p \in Orgs : tenant[p] = "wiped" => tenant'[p] = "wiped"
    BY <1>2, <1>6
  <2>4. \A v \in Workers : pc[v] = "insert_membership" =>
          pc'[v] = "insert_membership" /\ mem'[v] = mem[v]
    BY <1>3, <1>5
  <2> QED BY <2>2, <2>3, <2>4, <1>5
<1>17. SeedsOK'
  <2> SUFFICES ASSUME NEW p \in Orgs, seeded'[p] < Len(SeedRows), Live(p)', faults' = 0
               PROVE  Preempted(p)' \/ \E v \in Workers : pc'[v] = "seed" /\ call'[v].org = p
    BY DEF SeedsOK
  <2>1. CASE p = o
    BY <2>1, <1>4, <1>5
  <2>2. CASE p # o
    <3>1. Preempted(p) \/ \E v \in Workers : pc[v] = "seed" /\ call[v].org = p
      BY <2>2, <1>5, <1>6 DEF RowsInv, SeedsOK, Live
    <3>2. \A v \in Workers : pc[v] = "seed" => pc'[v] = "seed" /\ call'[v] = call[v]
      BY <1>3, <1>5
    <3> QED BY <3>1, <3>2, <1>6 DEF Preempted
  <2> QED BY <2>1, <2>2
<1> QED
  BY <1>9, <1>10, <1>11, <1>12, <1>13, <1>14, <1>15, <1>16, <1>17 DEF RowsInv

-----------------------------------------------------------------------------
(* Statements that write *)

\* Nobody but the seeding scripts needs to know how far a seed has come.
LEMMA SeedersKeep ==
  ASSUME RowsInv, UNCHANGED <<tenant, seeded>>,
         \A v \in Workers : pc'[v] = "seed" => pc[v] = "seed" /\ call'[v] = call[v]
  PROVE  \A v \in Workers : SeederKnows(v)'
<1> SUFFICES ASSUME NEW v \in Workers PROVE SeederKnows(v)'
  OBVIOUS
<1>1. SeederKnows(v)
  BY WorkerKnows
<1> QED BY <1>1 DEF SeederKnows, Live

\* Nobody but the requests that add users needs to know users without a
\* membership.
LEMMA AddersKeep ==
  ASSUME RowsInv, UNCHANGED <<tenant, email, member>>,
         \A v \in Workers : pc'[v] \in {"insert_user", "insert_membership"} =>
           pc[v] = pc'[v] /\ mem'[v] = mem[v]
  PROVE  \A v \in Workers : AdderKnows(v)'
<1> SUFFICES ASSUME NEW v \in Workers PROVE AdderKnows(v)'
  OBVIOUS
<1>1. AdderKnows(v)
  BY WorkerKnows
<1> QED BY <1>1 DEF AdderKnows

\* Half a seed stays explained while its script runs and no model is lost.
LEMMA SeedsKeep ==
  ASSUME RowsInv, UNCHANGED <<tenant, seeded, faults>>,
         \A o \in Orgs : models[o] \subseteq models'[o],
         \A v \in Workers : pc[v] = "seed" => pc'[v] = "seed" /\ call'[v] = call[v]
  PROVE  SeedsOK'
<1> SUFFICES ASSUME NEW o \in Orgs, seeded'[o] < Len(SeedRows), Live(o)', faults' = 0
             PROVE  Preempted(o)' \/ \E v \in Workers : pc'[v] = "seed" /\ call'[v].org = o
  BY DEF SeedsOK
<1>1. Preempted(o) \/ \E v \in Workers : pc[v] = "seed" /\ call[v].org = o
  BY DEF RowsInv, SeedsOK, Live
<1>2. CASE Preempted(o)
  BY <1>2 DEF Preempted
<1>3. CASE \E v \in Workers : pc[v] = "seed" /\ call[v].org = o
  BY <1>3
<1> QED BY <1>1, <1>2, <1>3

\* A user without a membership stays explained while its request runs.
LEMMA StraysKeep ==
  ASSUME RowsInv, UNCHANGED <<tenant, email, member, faults>>,
         \A v \in Workers : pc[v] = "insert_membership" =>
           pc'[v] = "insert_membership" /\ mem'[v] = mem[v]
  PROVE  StraysOK'
BY DEF RowsInv, StraysOK

\* What an answer changes of the workers.
LEMMA AnswerFrees ==
  ASSUME Typed, NEW w \in Workers, Answer(w)
  PROVE  /\ pc' \in [Workers -> Labels] /\ call' \in [Workers -> Calls]
         /\ mem' \in [Workers -> LocalVars] /\ faults' \in Nat /\ faults' = faults
         /\ \A v \in Workers : AtItsStep(v)'
         /\ pc'[w] = "idle"
         /\ \A v \in Workers \ {w} : pc'[v] = pc[v] /\ call'[v] = call[v] /\ mem'[v] = mem[v]
<1>1. Takes(w, "idle", NoCall, NoMem)
  BY AnswerTakes
<1>2. /\ pc'[w] = "idle"
      /\ \A v \in Workers \ {w} : pc'[v] = pc[v] /\ call'[v] = call[v] /\ mem'[v] = mem[v]
  BY <1>1, TakesOne
<1>3. AtItsStep(w)'
  BY <1>2 DEF AtItsStep
<1>4. /\ pc' \in [Workers -> Labels] /\ call' \in [Workers -> Calls]
      /\ mem' \in [Workers -> LocalVars] /\ faults' \in Nat
      /\ \A v \in Workers : AtItsStep(v)'
  BY <1>1, <1>3, NoMemType, WorkersTyped DEF Labels, Calls
<1> QED BY <1>1, <1>2, <1>4 DEF Takes

\* createSession's insert: the foreign key of the session holds as it is made.
LEMMA InsertSessionKeeps ==
  ASSUME RowsInv, NEW w \in Workers, InsertSession(w)
  PROVE  RowsInv'
<1> DEFINE m == member[mem[w].user]
           s == Next1(UnusedSession)
<1>0. Typed /\ AtItsStep(w) /\ mem[w] \in LocalVars
  BY WorkerTypes
<1>1. /\ pc[w] = "insert_session" /\ Answer(w)
      /\ UNCHANGED <<tenant, seeded, models, email, member>>
  BY DEF InsertSession, At
<1>2. CASE UNCHANGED session
  BY <1>1, <1>2, AnswerKeeps DEF rows
<1>3. CASE /\ m # Null /\ m.org = mem[w].org /\ UnusedSession # {}
           /\ session' = [session EXCEPT ![s] = Session("open", mem[w].user, m.org)]
  <2>1. /\ pc' \in [Workers -> Labels] /\ call' \in [Workers -> Calls]
        /\ mem' \in [Workers -> LocalVars] /\ faults' \in Nat /\ faults' = faults
        /\ \A v \in Workers : AtItsStep(v)'
        /\ pc'[w] = "idle"
        /\ \A v \in Workers \ {w} : pc'[v] = pc[v] /\ call'[v] = call[v] /\ mem'[v] = mem[v]
    BY <1>0, <1>1, AnswerFrees
  <2>2. s \in Sessions
    <3>1. s \in UnusedSession
      BY <1>3, LeastNumber, IdsAssumption DEF UnusedSession
    <3> QED BY <3>1 DEF UnusedSession
  <2>3. mem[w].user \in Users /\ m.org \in Orgs /\ mem[w].user \in Nat /\ m.org \in Nat
    BY <1>0, <1>1, <1>3, IdsAssumption DEF AtItsStep, Typed, Membership
  <2> HIDE DEF s
  <2>4. session' \in [Sessions -> [state : {"unused", "open", "closed"}, user : Nat, org : Nat]]
    BY <1>0, <1>3, <2>2, <2>3 DEF Typed, Session
  <2>5. Typed'
    BY <1>0, <1>1, <2>1, <2>4 DEF Typed
  <2>6. SessionsOK'
    <3> SUFFICES ASSUME NEW t \in Sessions, IsOpen(t)'
                 PROVE  /\ session'[t].user \in Users /\ member[session'[t].user] # Null
                        /\ member[session'[t].user].org = session'[t].org
      BY <1>1 DEF SessionsOK
    <3>1. CASE t = s
      <4>1. session'[t] = Session("open", mem[w].user, m.org)
        BY <1>0, <1>3, <2>2, <3>1 DEF Typed
      <4> QED BY <4>1, <1>3, <2>3 DEF Session
    <3>2. CASE t # s
      <4>1. session'[t] = session[t]
        BY <1>0, <1>3, <2>2, <3>2 DEF Typed
      <4> QED BY <4>1 DEF RowsInv, SessionsOK, IsOpen
    <3> QED BY <3>1, <3>2
  <2>7. MembersOK' /\ EmailsOK'
    BY <1>1 DEF RowsInv, MembersOK, EmailsOK, Live
  <2>8. OrgsOK'
    BY <1>1 DEF RowsInv, OrgsOK, Live, ModelsOf, Rows, Keyed
  <2>9. \A v \in Workers : SeederKnows(v)'
    BY <1>1, <2>1, SeedersKeep
  <2>10. \A v \in Workers : AdderKnows(v)'
    BY <1>1, <2>1, AddersKeep
  <2>11. SeedsOK'
    BY <1>1, <2>1, SeedsKeep
  <2>12. StraysOK'
    BY <1>1, <2>1, StraysKeep
  <2> QED BY <2>5, <2>6, <2>7, <2>8, <2>9, <2>10, <2>11, <2>12 DEF RowsInv
<1> QED
  BY <1>2, <1>3 DEF InsertSession

\* Logging out closes a session and nothing else.
LEMMA LogoutKeeps ==
  ASSUME RowsInv, NEW s \in Sessions, Logout(s)
  PROVE  RowsInv'
<1>0. Typed
  BY DEF RowsInv
<1>1. /\ session' = [session EXCEPT ![s] = Session("closed", 0, 0)]
      /\ UNCHANGED <<tenant, seeded, models, email, member, pc, call, mem, faults>>
  BY DEF Logout
<1>2. session' \in [Sessions -> [state : {"unused", "open", "closed"}, user : Nat, org : Nat]]
  BY <1>0, <1>1 DEF Typed, Session
<1>3. \A v \in Workers : AtItsStep(v)'
  BY <1>0, <1>1 DEF Typed, AtItsStep
<1>4. Typed'
  BY <1>0, <1>1, <1>2, <1>3 DEF Typed
<1>5. SessionsOK'
  <2> SUFFICES ASSUME NEW t \in Sessions, IsOpen(t)'
               PROVE  /\ session'[t].user \in Users /\ member[session'[t].user] # Null
                      /\ member[session'[t].user].org = session'[t].org
    BY <1>1 DEF SessionsOK
  <2>1. session'[t] = session[t]
    BY <1>0, <1>1 DEF Typed, IsOpen, Session
  <2> QED BY <2>1 DEF RowsInv, SessionsOK, IsOpen
<1>6. MembersOK' /\ EmailsOK'
  BY <1>1 DEF RowsInv, MembersOK, EmailsOK, Live
<1>7. OrgsOK'
  BY <1>1 DEF RowsInv, OrgsOK, Live, ModelsOf, Rows, Keyed
<1>8. \A v \in Workers : SeederKnows(v)' /\ AdderKnows(v)'
  BY <1>1, SeedersKeep, AddersKeep
<1>9. SeedsOK' /\ StraysOK'
  BY <1>1, SeedsKeep, StraysKeep
<1> QED
  BY <1>4, <1>5, <1>6, <1>7, <1>8, <1>9 DEF RowsInv

\* registerModel: the key is new in the tenant.
LEMMA RegisterModelKeeps ==
  ASSUME RowsInv, NEW w \in Workers, RegisterModel(w)
  PROVE  RowsInv'
<1> DEFINE o == mem[w].org
           m == call[w].model
<1>0. Typed /\ AtItsStep(w) /\ mem[w] \in LocalVars
  BY WorkerTypes
<1>1. /\ pc[w] = "perform" /\ call[w].op = "register" /\ Answer(w)
      /\ UNCHANGED <<tenant, seeded, email, member, session>>
      /\ models' = [models EXCEPT ![o] = IF Live(o) /\ ~KeyTaken(o, m) THEN @ \cup {m} ELSE @]
  BY DEF RegisterModel, At
<1>2. /\ pc' \in [Workers -> Labels] /\ call' \in [Workers -> Calls]
      /\ mem' \in [Workers -> LocalVars] /\ faults' \in Nat /\ faults' = faults
      /\ \A v \in Workers : AtItsStep(v)'
      /\ pc'[w] = "idle"
      /\ \A v \in Workers \ {w} : pc'[v] = pc[v] /\ call'[v] = call[v] /\ mem'[v] = mem[v]
  BY <1>0, <1>1, AnswerFrees
<1>3. m \in Catalog /\ o \in Orgs
  <2>1. call[w] \in RegisterCalls
    BY <1>0, <1>1, CallsByOp DEF AtItsStep
  <2> QED BY <1>0, <1>1, <2>1 DEF RegisterCalls, AtItsStep
<1> HIDE DEF o, m
<1>4. models' \in [Orgs -> SUBSET Catalog]
  BY <1>0, <1>1, <1>3 DEF Typed
<1>5. Typed'
  BY <1>0, <1>1, <1>2, <1>4 DEF Typed
<1>6. /\ \A p \in Orgs \ {o} : models'[p] = models[p]
      /\ \/ models'[o] = models[o]
         \/ Live(o) /\ ~KeyTaken(o, m) /\ models'[o] = models[o] \cup {m}
  BY <1>0, <1>1, <1>3 DEF Typed
<1>7. OrgsOK'
  <2> SUFFICES ASSUME NEW p \in Orgs
               PROVE  /\ ~Live(p) => seeded[p] = 0 /\ models'[p] = {}
                      /\ Keyed(ModelsOf(p))'
    BY <1>1 DEF OrgsOK, Live
  <2>1. (~Live(p) => seeded[p] = 0 /\ models[p] = {}) /\ Keyed(ModelsOf(p))
    BY DEF RowsInv, OrgsOK
  <2>2. CASE models'[p] = models[p]
    <3>1. ModelsOf(p)' = ModelsOf(p)
      BY <1>1, <2>2 DEF ModelsOf, Rows
    <3> QED BY <2>1, <2>2, <3>1 DEF Keyed
  <2>3. CASE p = o /\ Live(o) /\ ~KeyTaken(o, m) /\ models'[o] = models[o] \cup {m}
    <3>1. ModelsOf(p)' = ModelsOf(p) \cup {m}
      BY <1>1, <2>3 DEF ModelsOf, Rows
    <3>2. m \in Models /\ \A n \in ModelsOf(p) : n.key # m.key
      BY <1>3, <2>3 DEF KeyTaken, Models
    <3>3. Keyed(ModelsOf(p) \cup {m})
      BY <2>1, <3>2 DEF Keyed
    <3> QED BY <2>3, <3>1, <3>3
  <2> QED BY <1>6, <2>2, <2>3
<1>8. MembersOK' /\ EmailsOK' /\ SessionsOK'
  BY <1>1 DEF RowsInv, MembersOK, EmailsOK, SessionsOK, Live, IsOpen
<1>9. \A v \in Workers : SeederKnows(v)'
  BY <1>1, <1>2, SeedersKeep
<1>10. \A v \in Workers : AdderKnows(v)'
  BY <1>1, <1>2, AddersKeep
<1>11. SeedsOK'
  <2>1. \A p \in Orgs : models[p] \subseteq models'[p]
    BY <1>6
  <2> QED BY <1>1, <1>2, <2>1, SeedsKeep
<1>12. StraysOK'
  BY <1>1, <1>2, StraysKeep
<1> QED
  BY <1>5, <1>7, <1>8, <1>9, <1>10, <1>11, <1>12 DEF RowsInv

\* seedDefaultCommand's inserts: the rows stay rows of the seed, and the model's
\* key stays the only one of its value.
LEMMA SeedKeeps ==
  ASSUME RowsInv, NEW w \in Workers, Seed(w)
  PROVE  RowsInv'
<1> DEFINE o == call[w].org
           n == seeded[o]
<1>0. Typed /\ AtItsStep(w) /\ call[w] \in Calls
  BY WorkerTypes
<1>1. pc[w] = "seed" /\ UNCHANGED <<tenant, models, email, member, session>>
  BY DEF Seed, At
<1>2. o \in Orgs /\ call[w] \in TenantCalls /\ n \in Nat /\ Len(SeedRows) \in Nat
  BY <1>0, <1>1, SeedLength DEF AtItsStep, TenantCalls, Typed
<1>3. /\ tenant[o] # "unused" /\ (Live(o) => n < Len(SeedRows))
      /\ \A v \in Workers : pc[v] = "seed" /\ call[v].org = o => v = w
  BY <1>1, WorkerKnows DEF SeederKnows
<1>4. CASE /\ ~(Live(o) /\ ~(SeedRows[n + 1] = <<"model">> /\ Preempted(o)))
           /\ Answer(w) /\ UNCHANGED seeded
  BY <1>1, <1>4, AnswerKeeps DEF rows
<1>5. CASE /\ Live(o) /\ ~(SeedRows[n + 1] = <<"model">> /\ Preempted(o))
           /\ seeded' = [seeded EXCEPT ![o] = @ + 1]
           /\ \/ n + 1 < Len(SeedRows) /\ Continue(w, "seed", NoMem)
              \/ ~(n + 1 < Len(SeedRows)) /\ Answer(w)
  <2> HIDE DEF o
  <2>1. seeded'[o] = n + 1 /\ \A p \in Orgs \ {o} : seeded'[p] = seeded[p]
    BY <1>0, <1>2, <1>5 DEF Typed
  <2>2. seeded' \in [Orgs -> 0..Len(SeedRows)]
    <3>1. n + 1 \in 0..Len(SeedRows)
      BY <1>2, <1>3, <1>5
    <3> QED BY <3>1, <1>0, <1>2, <1>5 DEF Typed
  <2>3. /\ pc' \in [Workers -> Labels] /\ call' \in [Workers -> Calls]
        /\ mem' \in [Workers -> LocalVars] /\ faults' \in Nat /\ faults' = faults
        /\ \A v \in Workers : AtItsStep(v)'
        /\ \A v \in Workers \ {w} : pc'[v] = pc[v] /\ call'[v] = call[v] /\ mem'[v] = mem[v]
        /\ \/ pc'[w] = "seed" /\ call'[w] = call[w] /\ n + 1 < Len(SeedRows)
           \/ pc'[w] = "idle" /\ n + 1 = Len(SeedRows)
    <3>1. CASE n + 1 < Len(SeedRows) /\ Continue(w, "seed", NoMem)
      <4>1. Takes(w, "seed", call[w], NoMem)
        BY <1>0, <3>1, ContinueTakes
      <4>2. /\ pc'[w] = "seed" /\ call'[w] = call[w]
            /\ \A v \in Workers \ {w} : pc'[v] = pc[v] /\ call'[v] = call[v] /\ mem'[v] = mem[v]
        BY <1>0, <4>1, TakesOne
      <4>3. AtItsStep(w)'
        BY <1>2, <4>2 DEF AtItsStep
      <4>4. /\ pc' \in [Workers -> Labels] /\ call' \in [Workers -> Calls]
            /\ mem' \in [Workers -> LocalVars] /\ faults' \in Nat
            /\ \A v \in Workers : AtItsStep(v)'
        BY <1>0, <4>1, <4>3, NoMemType, WorkersTyped DEF Labels
      <4> QED BY <3>1, <4>1, <4>2, <4>4 DEF Takes
    <3>2. CASE ~(n + 1 < Len(SeedRows)) /\ Answer(w)
      <4>1. n + 1 = Len(SeedRows)
        BY <1>2, <1>3, <1>5, <3>2
      <4> QED BY <1>0, <3>2, <4>1, AnswerFrees
    <3> QED BY <1>5, <3>1, <3>2
  <2>4. Typed'
    BY <1>0, <1>1, <2>2, <2>3 DEF Typed
  <2>5. MembersOK' /\ EmailsOK' /\ SessionsOK'
    BY <1>1 DEF RowsInv, MembersOK, EmailsOK, SessionsOK, Live, IsOpen
  <2>6. OrgsOK'
    <3> SUFFICES ASSUME NEW p \in Orgs
                 PROVE  /\ ~Live(p) => seeded'[p] = 0 /\ models[p] = {}
                        /\ Keyed(ModelsOf(p))'
      BY <1>1 DEF OrgsOK, Live
    <3>1. (~Live(p) => seeded[p] = 0 /\ models[p] = {}) /\ Keyed(ModelsOf(p))
      BY DEF RowsInv, OrgsOK
    <3>2. CASE p # o
      <4>1. ModelsOf(p)' = ModelsOf(p)
        BY <1>1, <2>1, <3>2 DEF ModelsOf, Rows
      <4> QED BY <2>1, <3>1, <3>2, <4>1 DEF Keyed
    <3>3. CASE p = o
      <4>1. RowsAfter(n + 1) = RowsAfter(n) \cup {SeedRows[n + 1]}
        BY <1>2, RowsAfterNext
      <4>2. CASE SeedRows[n + 1] = <<"model">>
        <5>1. \A m \in models[p] : m.key # MockLocal.key
          BY <1>5, <3>3, <4>2 DEF Preempted
        <5>2. models[p] \subseteq ModelsOf(p) /\ ModelsOf(p)' \subseteq models[p] \cup {MockLocal}
          BY <1>1 DEF ModelsOf
        <5>3. MockLocal \in Models /\ Keyed(models[p])
          BY <3>1, <5>2 DEF Keyed, Models
        <5>4. Keyed(models[p] \cup {MockLocal})
          BY <5>1, <5>3 DEF Keyed
        <5>5. Keyed(ModelsOf(p))'
          BY <5>2, <5>4 DEF Keyed
        <5> QED BY <1>5, <3>3, <5>5
      <4>3. CASE SeedRows[n + 1] # <<"model">>
        <5>1. ModelsOf(p)' = ModelsOf(p)
          BY <1>1, <2>1, <3>3, <4>1, <4>3 DEF ModelsOf, Rows
        <5> QED BY <1>5, <3>1, <3>3, <5>1 DEF Keyed
      <4> QED BY <4>2, <4>3
    <3> QED BY <3>2, <3>3
  <2>7. ASSUME NEW v \in Workers PROVE SeederKnows(v)'
    <3>1. SeederKnows(v) /\ AtItsStep(v)
      BY <1>0, WorkerKnows DEF Typed
    <3>2. CASE v = w
      BY <3>1, <3>2, <1>1, <1>2, <1>3, <2>1, <2>3 DEF SeederKnows, Live, o
    <3>3. CASE v # w
      <4>1. pc[v] = "seed" => call[v].org \in Orgs \ {o}
        BY <3>1, <3>3, <1>3 DEF AtItsStep, TenantCalls
      <4> QED BY <3>1, <3>3, <4>1, <1>1, <2>1, <2>3 DEF SeederKnows, Live, o
    <3> QED BY <3>2, <3>3
  <2>8. \A v \in Workers : AdderKnows(v)'
    BY <1>1, <2>3, AddersKeep
  <2>9. StraysOK'
    BY <1>1, <2>3, StraysKeep
  <2>10. SeedsOK'
    <3> SUFFICES ASSUME NEW p \in Orgs, seeded'[p] < Len(SeedRows), Live(p)', faults' = 0
                 PROVE  Preempted(p)' \/ \E v \in Workers : pc'[v] = "seed" /\ call'[v].org = p
      BY DEF SeedsOK
    <3>1. CASE p = o
      BY <3>1, <1>2, <2>1, <2>3 DEF o
    <3>2. CASE p # o
      <4>1. Preempted(p) \/ \E v \in Workers \ {w} : pc[v] = "seed" /\ call[v].org = p
        BY <3>2, <1>1, <2>1, <2>3 DEF RowsInv, SeedsOK, Live, o
      <4>2. CASE Preempted(p)
        BY <4>2, <1>1 DEF Preempted
      <4>3. CASE \E v \in Workers \ {w} : pc[v] = "seed" /\ call[v].org = p
        BY <4>3, <2>3
      <4> QED BY <4>1, <4>2, <4>3
    <3> QED BY <3>1, <3>2
  <2> QED BY <2>4, <2>5, <2>6, <2>7, <2>8, <2>9, <2>10 DEF RowsInv
<1> QED
  BY <1>4, <1>5 DEF Seed

\* createUser's first insert: the address is new, and the user is the
\* request's own.
LEMMA InsertUserKeeps ==
  ASSUME RowsInv, NEW w \in Workers, InsertUser(w)
  PROVE  RowsInv'
<1> DEFINE x == call[w].email
           u == Next1(UnusedUser)
           m == [mem[w] EXCEPT !.user = u]
<1>0. Typed /\ AtItsStep(w) /\ mem[w] \in LocalVars /\ call[w] \in Calls
  BY WorkerTypes
<1>1. pc[w] = "insert_user" /\ UNCHANGED <<tenant, seeded, models, member, session>>
  BY DEF InsertUser, At
<1>2. call[w] \in CreateUserCalls /\ x \in Emails /\ mem[w].org \in Orgs
  BY <1>0, <1>1 DEF AtItsStep, CreateUserCalls
<1>3. CASE Answer(w) /\ UNCHANGED email
  BY <1>1, <1>3, AnswerKeeps DEF rows
<1>4. CASE /\ ~EmailTaken(x) /\ UnusedUser # {}
           /\ email' = [email EXCEPT ![u] = x]
           /\ Continue(w, "insert_membership", m)
  <2>1. u \in Users /\ email[u] = "unused" /\ u \in Nat
    <3>1. u \in UnusedUser
      BY <1>4, LeastNumber, IdsAssumption DEF UnusedUser
    <3> QED BY <3>1, IdsAssumption DEF UnusedUser
  <2>2. m \in LocalVars /\ m.user = u /\ m.org = mem[w].org
    BY <1>0, <2>1 DEF LocalVars
  <2>3. Takes(w, "insert_membership", call[w], m)
    BY <1>0, <1>4, ContinueTakes
  <2>4. /\ pc'[w] = "insert_membership" /\ call'[w] = call[w] /\ mem'[w] = m /\ faults' = faults
        /\ \A v \in Workers \ {w} : pc'[v] = pc[v] /\ call'[v] = call[v] /\ mem'[v] = mem[v]
    <3>1. faults' = faults
      BY <2>3 DEF Takes
    <3> QED BY <1>0, <2>3, <3>1, TakesOne
  <2> HIDE DEF m, u, x
  <2>5. /\ email'[u] = x /\ \A y \in Users \ {u} : email'[y] = email[y]
        /\ email' \in [Users -> Emails \cup {"unused", "deleted"}]
    BY <1>0, <1>2, <1>4, <2>1 DEF Typed
  <2>6. member[u] = Null /\ \A y \in Users : email[y] # x
    BY <1>4, <2>1, AddressesAssumption DEF RowsInv, MembersOK, EmailTaken
  <2>7. AtItsStep(w)'
    BY <1>2, <2>2, <2>4 DEF AtItsStep
  <2>8. /\ pc' \in [Workers -> Labels] /\ call' \in [Workers -> Calls]
        /\ mem' \in [Workers -> LocalVars] /\ faults' \in Nat
        /\ \A v \in Workers : AtItsStep(v)'
    BY <1>0, <2>2, <2>3, <2>7, WorkersTyped DEF Labels
  <2>9. Typed'
    BY <1>0, <1>1, <2>5, <2>8 DEF Typed
  <2>10. MembersOK'
    BY <1>1, <1>2, <2>5 DEF RowsInv, MembersOK, Live
  <2>11. EmailsOK'
    BY <2>5, <2>6 DEF RowsInv, EmailsOK
  <2>12. SessionsOK' /\ OrgsOK'
    BY <1>1 DEF RowsInv, SessionsOK, IsOpen, OrgsOK, Live, ModelsOf, Rows, Keyed
  <2>13. \A v \in Workers : SeederKnows(v)'
    BY <1>1, <2>4, SeedersKeep
  <2>14. ASSUME NEW v \in Workers PROVE AdderKnows(v)'
    <3>1. AdderKnows(v) /\ AdderKnows(w) /\ AtItsStep(v)
      BY <1>0, WorkerKnows DEF Typed
    <3>2. \A y \in Workers : pc[y] = "insert_membership" => mem[y].user # u
      BY <2>1, AddressesAssumption, WorkerKnows DEF AdderKnows
    <3>3. CASE v = w
      <4>1. tenant[mem[w].org] # "unused"
        BY <1>1, <3>1 DEF AdderKnows
      <4>2. \A y \in Workers \ {w} : pc'[y] = "insert_membership" => mem'[y].user # u
        BY <2>4, <3>2
      <4> QED BY <3>3, <4>1, <4>2, <1>1, <1>2, <2>1, <2>2, <2>4, <2>5, <2>6 DEF AdderKnows
    <3>4. CASE v # w
      <4>1. pc'[v] = pc[v] /\ call'[v] = call[v] /\ mem'[v] = mem[v]
        BY <2>4, <3>4
      <4>2. pc[v] = "insert_membership" =>
              /\ mem[v].user \in Users \ {u}
              /\ \A y \in Workers : pc'[y] = "insert_membership" /\ mem'[y].user = mem[v].user => y = v
        BY <2>2, <2>4, <3>1, <3>2 DEF AdderKnows
      <4> QED BY <3>1, <4>1, <4>2, <1>1, <2>5 DEF AdderKnows
    <3> QED BY <3>3, <3>4
  <2>15. StraysOK'
    <3> SUFFICES ASSUME NEW y \in Users, email'[y] \in Emails, member[y] = Null
                 PROVE  \/ faults' > 0 \/ \E p \in Orgs : tenant'[p] = "wiped"
                        \/ \E v \in Workers : pc'[v] = "insert_membership" /\ mem'[v].user = y
      BY <1>1 DEF StraysOK
    <3>1. CASE y = u
      BY <3>1, <2>2, <2>4
    <3>2. CASE y # u
      <4>1. \/ faults > 0 \/ \E p \in Orgs : tenant[p] = "wiped"
            \/ \E v \in Workers : pc[v] = "insert_membership" /\ mem[v].user = y
        BY <3>2, <2>5 DEF RowsInv, StraysOK
      <4>2. \A v \in Workers : pc[v] = "insert_membership" =>
              pc'[v] = "insert_membership" /\ mem'[v] = mem[v]
        BY <1>1, <2>4
      <4> QED BY <4>1, <4>2, <1>1, <2>4
    <3> QED BY <3>1, <3>2
  <2>16. SeedsOK'
    BY <1>1, <2>4, SeedsKeep
  <2> QED BY <2>9, <2>10, <2>11, <2>12, <2>13, <2>14, <2>15, <2>16 DEF RowsInv
<1> QED
  BY <1>3, <1>4 DEF InsertUser

\* createUser's second insert, or its failure on a tenant that was wiped.
LEMMA InsertMembershipKeeps ==
  ASSUME RowsInv, NEW w \in Workers, InsertMembership(w)
  PROVE  RowsInv'
<1> DEFINE u == mem[w].user
           o == mem[w].org
           r == [org |-> o, role |-> call[w].role]
<1>0. Typed /\ AtItsStep(w) /\ mem[w] \in LocalVars /\ call[w] \in Calls
  BY WorkerTypes
<1>1. pc[w] = "insert_membership" /\ Answer(w) /\ UNCHANGED <<tenant, seeded, models, email, session>>
  BY DEF InsertMembership, At
<1>2. o \in Orgs /\ call[w].role \in {"admin", "member"}
  BY <1>0, <1>1 DEF AtItsStep, CreateUserCalls
<1>3. /\ tenant[o] # "unused" /\ u \in Users /\ member[u] = Null /\ email[u] \in Emails
      /\ \A v \in Workers : pc[v] = "insert_membership" /\ mem[v].user = u => v = w
  BY <1>1, WorkerKnows DEF AdderKnows
<1>4. CASE ~Live(o) /\ UNCHANGED member
  <2>1. tenant[o] = "wiped"
    BY <1>0, <1>2, <1>3, <1>4 DEF Typed, Live
  <2> QED BY <1>1, <1>2, <1>4, <2>1, AnswerKeeps DEF rows
<1>5. CASE Live(o) /\ member' = [member EXCEPT ![u] = r]
  <2>1. /\ pc' \in [Workers -> Labels] /\ call' \in [Workers -> Calls]
        /\ mem' \in [Workers -> LocalVars] /\ faults' \in Nat /\ faults' = faults
        /\ \A v \in Workers : AtItsStep(v)'
        /\ pc'[w] = "idle"
        /\ \A v \in Workers \ {w} : pc'[v] = pc[v] /\ call'[v] = call[v] /\ mem'[v] = mem[v]
    BY <1>0, <1>1, AnswerFrees
  <2>2. r \in Membership /\ r # Null /\ r.org = o
    BY <1>2, NullAssumption DEF Membership
  <2> HIDE DEF r
  <2>3. /\ member' \in [Users -> Membership \cup {Null}]
        /\ member'[u] = r /\ \A y \in Users \ {u} : member'[y] = member[y]
    BY <1>0, <1>3, <1>5, <2>2 DEF Typed
  <2>4. Typed'
    BY <1>0, <1>1, <2>1, <2>3 DEF Typed
  <2>5. MembersOK'
    <3> SUFFICES ASSUME NEW y \in Users, member'[y] # Null
                 PROVE  /\ member'[y].org \in Orgs /\ tenant[member'[y].org] = "live"
                        /\ email[y] \in Emails
      BY <1>1 DEF MembersOK, Live
    <3>1. CASE y = u
      BY <3>1, <1>2, <1>3, <1>5, <2>2, <2>3 DEF Live
    <3>2. CASE y # u
      BY <3>2, <2>3 DEF RowsInv, MembersOK, Live
    <3> QED BY <3>1, <3>2
  <2>6. EmailsOK' /\ OrgsOK'
    BY <1>1 DEF RowsInv, EmailsOK, OrgsOK, Live, ModelsOf, Rows, Keyed
  <2>7. SessionsOK'
    <3> SUFFICES ASSUME NEW t \in Sessions, IsOpen(t)
                 PROVE  /\ session[t].user \in Users /\ member'[session[t].user] # Null
                        /\ member'[session[t].user].org = session[t].org
      BY <1>1 DEF SessionsOK, IsOpen
    <3>1. /\ session[t].user \in Users /\ member[session[t].user] # Null
          /\ member[session[t].user].org = session[t].org
      BY DEF RowsInv, SessionsOK
    <3>2. session[t].user # u
      BY <1>3, <3>1
    <3> QED BY <2>3, <3>1, <3>2
  <2>8. \A v \in Workers : SeederKnows(v)'
    BY <1>1, <2>1, SeedersKeep
  <2>9. ASSUME NEW v \in Workers PROVE AdderKnows(v)'
    <3>1. AdderKnows(v)
      BY WorkerKnows
    <3>2. CASE v = w
      BY <3>2, <2>1 DEF AdderKnows
    <3>3. CASE v # w
      <4>1. pc'[v] = pc[v] /\ mem'[v] = mem[v]
        BY <2>1, <3>3
      <4>2. pc[v] = "insert_membership" =>
              /\ mem[v].user \in Users \ {u}
              /\ \A y \in Workers : pc'[y] = "insert_membership" /\ mem'[y].user = mem[v].user => y = v
        BY <1>3, <2>1, <3>1, <3>3 DEF AdderKnows
      <4> QED BY <3>1, <4>1, <4>2, <1>1, <2>3 DEF AdderKnows
    <3> QED BY <3>2, <3>3
  <2>10. StraysOK'
    <3> SUFFICES ASSUME NEW y \in Users, email[y] \in Emails, member'[y] = Null
                 PROVE  \/ faults' > 0 \/ \E p \in Orgs : tenant[p] = "wiped"
                        \/ \E v \in Workers : pc'[v] = "insert_membership" /\ mem'[v].user = y
      BY <1>1 DEF StraysOK
    <3>1. y # u
      BY <2>2, <2>3
    <3>2. \/ faults > 0 \/ \E p \in Orgs : tenant[p] = "wiped"
          \/ \E v \in Workers \ {w} : pc[v] = "insert_membership" /\ mem[v].user = y
      BY <3>1, <2>3 DEF RowsInv, StraysOK
    <3>3. CASE \E v \in Workers \ {w} : pc[v] = "insert_membership" /\ mem[v].user = y
      BY <3>3, <2>1
    <3> QED BY <3>2, <3>3, <2>1
  <2>11. SeedsOK'
    BY <1>1, <2>1, SeedsKeep
  <2> QED BY <2>4, <2>5, <2>6, <2>7, <2>8, <2>9, <2>10, <2>11 DEF RowsInv
<1> QED
  BY <1>4, <1>5 DEF InsertMembership

\* The demo reset: what is left refers to what is left.
LEMMA WipeKeeps ==
  ASSUME RowsInv, NEW o \in Orgs, WipeOrganization(o)
  PROVE  RowsInv'
<1> DEFINE gone == {u \in Users : member[u] # Null /\ member[u].org = o}
<1>0. Typed
  BY DEF RowsInv
<1>1. /\ tenant[o] = "live" /\ tenant' = [tenant EXCEPT ![o] = "wiped"]
      /\ seeded' = [seeded EXCEPT ![o] = 0] /\ models' = [models EXCEPT ![o] = {}]
      /\ session' = [s \in Sessions |-> IF IsOpen(s) /\ session[s].org = o THEN Session("closed", 0, 0)
                                                                   ELSE session[s]]
      /\ member' = [u \in Users |-> IF u \in gone THEN Null ELSE member[u]]
      /\ email' = [u \in Users |-> IF u \in gone THEN "deleted" ELSE email[u]]
      /\ UNCHANGED <<pc, call, mem, faults>>
  BY DEF WipeOrganization
<1>2. /\ tenant'[o] = "wiped" /\ seeded'[o] = 0 /\ models'[o] = {}
      /\ \A p \in Orgs \ {o} : /\ tenant'[p] = tenant[p] /\ seeded'[p] = seeded[p]
                               /\ models'[p] = models[p]
  BY <1>0, <1>1 DEF Typed
<1>3. /\ \A y \in gone : member'[y] = Null /\ email'[y] = "deleted"
      /\ \A y \in Users \ gone : member'[y] = member[y] /\ email'[y] = email[y]
  BY <1>1
<1>4. \A y \in Users \ gone : member[y] = Null \/ member[y].org # o
  OBVIOUS
<1> HIDE DEF gone
<1>5. Typed'
  <2>1. /\ tenant' \in [Orgs -> {"unused", "live", "wiped"}]
        /\ seeded' \in [Orgs -> 0..Len(SeedRows)] /\ models' \in [Orgs -> SUBSET Catalog]
    BY <1>0, <1>1, SeedLength DEF Typed
  <2>2. /\ member' \in [Users -> Membership \cup {Null}]
        /\ email' \in [Users -> Emails \cup {"unused", "deleted"}]
    BY <1>0, <1>1 DEF Typed
  <2>3. session' \in [Sessions -> [state : {"unused", "open", "closed"}, user : Nat, org : Nat]]
    BY <1>0, <1>1 DEF Typed, Session
  <2>4. \A v \in Workers : AtItsStep(v)'
    BY <1>0, <1>1 DEF Typed, AtItsStep
  <2> QED BY <1>0, <1>1, <2>1, <2>2, <2>3, <2>4 DEF Typed
<1>6. MembersOK'
  <2> SUFFICES ASSUME NEW y \in Users, member'[y] # Null
               PROVE  /\ member'[y].org \in Orgs /\ tenant'[member'[y].org] = "live"
                      /\ email'[y] \in Emails
    BY DEF MembersOK, Live
  <2>1. y \in Users \ gone
    BY <1>3
  <2> QED BY <2>1, <1>2, <1>3, <1>4 DEF RowsInv, MembersOK, Live
<1>7. EmailsOK'
  <2> SUFFICES ASSUME NEW y \in Users, NEW z \in Users, email'[y] = email'[z], email'[y] \in Emails
               PROVE  y = z
    BY DEF EmailsOK
  <2>1. y \in Users \ gone /\ z \in Users \ gone
    BY <1>3, AddressesAssumption
  <2> QED BY <2>1, <1>3 DEF RowsInv, EmailsOK
<1>8. SessionsOK'
  <2> SUFFICES ASSUME NEW t \in Sessions, IsOpen(t)'
               PROVE  /\ session'[t].user \in Users /\ member'[session'[t].user] # Null
                      /\ member'[session'[t].user].org = session'[t].org
    BY DEF SessionsOK
  <2>1. session'[t] = session[t] /\ IsOpen(t) /\ session[t].org # o
    BY <1>0, <1>1 DEF IsOpen, Session
  <2>2. /\ session[t].user \in Users /\ member[session[t].user] # Null
        /\ member[session[t].user].org = session[t].org
    BY <2>1 DEF RowsInv, SessionsOK
  <2>3. session[t].user \notin gone
    BY <2>1, <2>2 DEF gone
  <2> QED BY <2>1, <2>2, <2>3, <1>3
<1>9. OrgsOK'
  <2> SUFFICES ASSUME NEW p \in Orgs
               PROVE  /\ ~Live(p)' => seeded'[p] = 0 /\ models'[p] = {}
                      /\ Keyed(ModelsOf(p))'
    BY DEF OrgsOK
  <2>1. CASE p = o
    <3>1. RowsAfter(0) = {}
      BY DEF RowsAfter
    <3>2. ModelsOf(p)' = {}
      BY <2>1, <1>2, <3>1 DEF ModelsOf, Rows
    <3> QED BY <2>1, <1>2, <3>2 DEF Keyed
  <2>2. CASE p # o
    <3>1. (~Live(p) => seeded[p] = 0 /\ models[p] = {}) /\ Keyed(ModelsOf(p))
      BY DEF RowsInv, OrgsOK
    <3>2. ModelsOf(p)' = ModelsOf(p)
      BY <2>2, <1>2 DEF ModelsOf, Rows
    <3> QED BY <2>2, <1>2, <3>1, <3>2 DEF Keyed, Live
  <2> QED BY <2>1, <2>2
<1>10. ASSUME NEW v \in Workers PROVE SeederKnows(v)'
  <2>1. SeederKnows(v) /\ AtItsStep(v)
    BY <1>0, WorkerKnows DEF Typed
  <2>2. pc[v] = "seed" => call[v].org \in Orgs
    BY <2>1 DEF AtItsStep, TenantCalls
  <2> QED BY <2>1, <2>2, <1>1, <1>2 DEF SeederKnows, Live
<1>11. ASSUME NEW v \in Workers PROVE AdderKnows(v)'
  <2>1. AdderKnows(v) /\ AtItsStep(v)
    BY <1>0, WorkerKnows DEF Typed
  <2>2. pc[v] \in {"insert_user", "insert_membership"} => mem[v].org \in Orgs
    BY <2>1 DEF AtItsStep
  <2>3. pc[v] = "insert_membership" => mem[v].user \in Users \ gone
    BY <2>1 DEF AdderKnows, gone
  <2> QED BY <2>1, <2>2, <2>3, <1>1, <1>2, <1>3 DEF AdderKnows
<1>12. StraysOK'
  BY <1>2 DEF StraysOK
<1>13. SeedsOK'
  <2> SUFFICES ASSUME NEW p \in Orgs, seeded'[p] < Len(SeedRows), Live(p)', faults' = 0
               PROVE  Preempted(p)' \/ \E v \in Workers : pc'[v] = "seed" /\ call'[v].org = p
    BY DEF SeedsOK
  <2>1. p # o
    BY <1>2 DEF Live
  <2>2. Preempted(p) \/ \E v \in Workers : pc[v] = "seed" /\ call[v].org = p
    BY <2>1, <1>1, <1>2 DEF RowsInv, SeedsOK, Live
  <2> QED BY <2>1, <2>2, <1>1, <1>2 DEF Preempted
<1> QED
  BY <1>5, <1>6, <1>7, <1>8, <1>9, <1>10, <1>11, <1>12, <1>13 DEF RowsInv

\* A death is an excuse for what was half made.
LEMMA DieKeeps ==
  ASSUME RowsInv, Die
  PROVE  RowsInv'
<1>0. Typed
  BY DEF RowsInv
<1>1. /\ faults' = faults + 1 /\ pc' = [w \in Workers |-> "idle"]
      /\ call' = [w \in Workers |-> NoCall] /\ mem' = [w \in Workers |-> NoMem]
      /\ UNCHANGED <<tenant, seeded, models, email, member, session>>
  BY DEF Die, rows
<1>2. faults' \in Nat /\ faults' > 0
  BY <1>0, <1>1 DEF Typed
<1>3. \A v \in Workers : AtItsStep(v)' /\ SeederKnows(v)' /\ AdderKnows(v)'
  BY <1>1 DEF AtItsStep, SeederKnows, AdderKnows
<1>4. /\ pc' \in [Workers -> Labels] /\ call' \in [Workers -> Calls]
      /\ mem' \in [Workers -> LocalVars]
  BY <1>1, NoMemType DEF Labels, Calls
<1>5. Typed'
  BY <1>0, <1>1, <1>2, <1>3, <1>4 DEF Typed
<1>6. MembersOK' /\ EmailsOK' /\ SessionsOK'
  BY <1>1 DEF RowsInv, MembersOK, EmailsOK, SessionsOK, Live, IsOpen
<1>7. OrgsOK'
  BY <1>1 DEF RowsInv, OrgsOK, Live, ModelsOf, Rows, Keyed
<1>8. StraysOK' /\ SeedsOK'
  BY <1>2 DEF StraysOK, SeedsOK
<1> QED
  BY <1>3, <1>5, <1>6, <1>7, <1>8 DEF RowsInv

\* Nothing that the invariant is about changes.
LEMMA StutterKeeps ==
  ASSUME RowsInv, UNCHANGED <<rows, pc, call, mem, faults>>
  PROVE  RowsInv'
<1>0. /\ tenant' = tenant /\ seeded' = seeded /\ models' = models /\ email' = email
      /\ member' = member /\ session' = session /\ pc' = pc /\ call' = call /\ mem' = mem
      /\ faults' = faults /\ Typed
  BY DEF rows, RowsInv
<1>1. \A v \in Workers : AtItsStep(v)'
  BY <1>0 DEF Typed, AtItsStep
<1>2. Typed'
  BY <1>0, <1>1 DEF Typed
<1>3. MembersOK' /\ EmailsOK' /\ SessionsOK' /\ OrgsOK'
  BY <1>0 DEF RowsInv, MembersOK, EmailsOK, SessionsOK, OrgsOK, Live, IsOpen, ModelsOf, Rows, Keyed
<1>4. \A v \in Workers : SeederKnows(v)' /\ AdderKnows(v)'
  BY <1>0, SeedersKeep, AddersKeep
<1>5. StraysOK' /\ SeedsOK'
  BY <1>0, StraysKeep, SeedsKeep
<1> QED
  BY <1>2, <1>3, <1>4, <1>5 DEF RowsInv

\* The first tenant, its seed and its administrator are complete.
LEMMA RowsStart ==
  ASSUME Init
  PROVE  RowsInv
<1>1. /\ pc = [w \in Workers |-> "idle"] /\ call = [w \in Workers |-> NoCall]
      /\ mem = [w \in Workers |-> NoMem] /\ faults = 0
      /\ tenant = [o \in Orgs |-> IF o = 1 THEN "live" ELSE "unused"]
      /\ seeded = [o \in Orgs |-> IF o = 1 THEN Len(SeedRows) ELSE 0]
      /\ models = [o \in Orgs |-> {}]
  BY DEF Init
<1>2. /\ email = [u \in Users |-> IF u = 1 THEN Director ELSE "unused"]
      /\ member = [u \in Users |-> IF u = 1 THEN [org |-> 1, role |-> "admin"] ELSE Null]
      /\ session = [s \in Sessions |-> IF s = 1 THEN Session("open", 1, 1)
                                               ELSE Session("unused", 0, 0)]
  BY DEF Init
<1>3. \A w \in Workers : AtItsStep(w) /\ SeederKnows(w) /\ AdderKnows(w)
  BY <1>1 DEF AtItsStep, SeederKnows, AdderKnows
<1>4. [org |-> 1, role |-> "admin"] \in Membership
  BY IdsAssumption DEF Membership
<1>5. Typed
  <2>1. /\ pc \in [Workers -> Labels] /\ call \in [Workers -> Calls]
        /\ mem \in [Workers -> LocalVars] /\ faults \in Nat
    BY <1>1, NoMemType DEF Labels, Calls
  <2>2. /\ tenant \in [Orgs -> {"unused", "live", "wiped"}]
        /\ seeded \in [Orgs -> 0..Len(SeedRows)] /\ models \in [Orgs -> SUBSET Catalog]
    BY <1>1, SeedLength
  <2>3. /\ email \in [Users -> Emails \cup {"unused", "deleted"}]
        /\ member \in [Users -> Membership \cup {Null}]
    BY <1>2, <1>4, AddressesAssumption
  <2>4. session \in [Sessions -> [state : {"unused", "open", "closed"}, user : Nat, org : Nat]]
    BY <1>2 DEF Session
  <2> QED BY <1>3, <2>1, <2>2, <2>3, <2>4 DEF Typed
<1>6. MembersOK
  BY <1>1, <1>2, IdsAssumption, AddressesAssumption DEF MembersOK, Live
<1>7. EmailsOK
  BY <1>2, AddressesAssumption DEF EmailsOK
<1>8. SessionsOK
  <2>1. member[1] = [org |-> 1, role |-> "admin"] /\ member[1] # Null
    BY <1>2, <1>4, IdsAssumption, NullAssumption DEF Membership
  <2>2. \A s \in Sessions : IsOpen(s) => session[s] = Session("open", 1, 1)
    BY <1>2 DEF IsOpen, Session
  <2> QED BY <2>1, <2>2, IdsAssumption DEF SessionsOK, Session
<1>9. OrgsOK
  <2> SUFFICES ASSUME NEW o \in Orgs
               PROVE  (~Live(o) => seeded[o] = 0 /\ models[o] = {}) /\ Keyed(ModelsOf(o))
    BY DEF OrgsOK
  <2>1. ModelsOf(o) \subseteq {MockLocal}
    BY <1>1 DEF ModelsOf
  <2> QED BY <1>1, <2>1 DEF Keyed, Live, Models
<1>10. StraysOK
  BY <1>2, <1>4, NullAssumption, AddressesAssumption DEF StraysOK, Membership
<1>11. SeedsOK
  <2>1. \A o \in Orgs : Live(o) => seeded[o] = Len(SeedRows)
    BY <1>1 DEF Live
  <2> QED BY <2>1, SeedLength DEF SeedsOK
<1> QED
  BY <1>3, <1>5, <1>6, <1>7, <1>8, <1>9, <1>10, <1>11 DEF RowsInv

\* Every step of the program keeps the rows in order.
LEMMA RowsStep == RowsInv /\ [Next]_vars => RowsInv'
<1> SUFFICES ASSUME RowsInv, [Next]_vars PROVE RowsInv'
  OBVIOUS
<1>1. CASE UNCHANGED vars
  BY <1>1, StutterKeeps DEF vars
<1>2. CASE Tick
  BY <1>2, StutterKeeps DEF Tick
<1>3. CASE Die
  BY <1>3, DieKeeps
<1>4. CASE \E o \in Orgs : WipeOrganization(o)
  BY <1>4, WipeKeeps
<1>5. CASE \E s \in Sessions : Logout(s)
  BY <1>5, LogoutKeeps
<1>6. ASSUME NEW w \in Workers,
             \/ CreateOrganization(w) \/ Seed(w)
             \/ InsertUser(w) \/ InsertMembership(w) \/ InsertSession(w) \/ RegisterModel(w)
      PROVE  RowsInv'
  BY <1>6, CreateOrganizationKeeps, SeedKeeps, InsertUserKeeps, InsertMembershipKeeps,
     InsertSessionKeeps, RegisterModelKeeps
<1>7. ASSUME NEW w \in Workers,
             CheckRole(w) \/ Login(w) \/ Refuse(w) \/ FindUser(w) \/ FindMembership(w)
      PROVE  RowsInv'
  BY <1>7, LoginReads
<1>8. ASSUME NEW w \in Workers,
             \/ ServiceRequest(w) \/ ReadMembership(w)
             \/ SessionRequest(w) \/ ResolveSession(w) \/ RequirePermission(w)
      PROVE  RowsInv'
  BY <1>8, PermitReads
<1>9. ASSUME NEW w \in Workers,
             \/ ReadPolicy(w) \/ Evaluate(w) \/ MayRoute(w) \/ ListModels(w)
             \/ AskLeave(w) \/ AskCloud(w) \/ Choose(w)
      PROVE  RowsInv'
  BY <1>9, RouterReads
<1> QED
  BY <1>1, <1>2, <1>3, <1>4, <1>5, <1>6, <1>7, <1>8, <1>9 DEF Next

\* The rows are of their kinds and refer to rows, always.
THEOREM RowsAlways == Spec => []RowsInv
BY RowsStart, RowsStep, PTL DEF Spec

-----------------------------------------------------------------------------
(* The limiters *)

Try == [key : Keys, at : Nat, allowed : BOOLEAN]

\* The calls of key k that the limiter allowed.
Allowed(k) == {i \in 1..Len(tried) : tried[i].key = k /\ tried[i].allowed}

\* The limiter remembers calls it allowed, and all of those that still count;
\* there are never more than its maximum.
Remembers(k) ==
  /\ hits[k] \subseteq Allowed(k)
  /\ \A i \in Allowed(k) : clock - tried[i].at < Window => i \in hits[k]
  /\ Cardinality(hits[k]) <= MaxOf(k)

LimiterTyped ==
  /\ clock \in Nat /\ tried \in Seq(Try) /\ DOMAIN hits = Keys
  /\ \A i \in 1..Len(tried) : tried[i].at <= clock

LimiterInv == LimiterTyped /\ (\A k \in Keys : Remembers(k)) /\ WindowHolds

\* What a limiter was asked has its time.
LEMMA TryTypes ==
  ASSUME LimiterInv, NEW i \in 1..Len(tried)
  PROVE  tried[i].at \in Nat /\ tried[i].at <= clock
<1>1. tried \in Seq(Try) /\ tried[i].at <= clock
  BY DEF LimiterInv, LimiterTyped
<1>2. tried[i] \in Try
  BY <1>1
<1> QED BY <1>1, <1>2 DEF Try

\* So what it counts are the calls of the key that it allowed in the window.
LEMMA RecentIsAllowed ==
  ASSUME LimiterInv, NEW k \in Keys
  PROVE  /\ Recent(k) = {i \in Allowed(k) : clock - tried[i].at < Window}
         /\ Recent(k) \subseteq hits[k] /\ hits[k] \subseteq 1..Len(tried)
         /\ IsFiniteSet(Recent(k)) /\ IsFiniteSet(hits[k])
         /\ Cardinality(Recent(k)) \in Nat /\ Cardinality(Recent(k)) <= MaxOf(k)
<1>1. Remembers(k) /\ Len(tried) \in Nat
  BY DEF LimiterInv, LimiterTyped
<1>2. /\ Recent(k) = {i \in Allowed(k) : clock - tried[i].at < Window}
      /\ Recent(k) \subseteq hits[k] /\ hits[k] \subseteq 1..Len(tried)
  BY <1>1 DEF Remembers, Recent, Allowed
<1>3. IsFiniteSet(1..Len(tried))
  BY <1>1, FS_Interval
<1>4. IsFiniteSet(hits[k]) /\ IsFiniteSet(Recent(k))
  BY <1>2, <1>3, FS_Subset
<1>5. /\ Cardinality(Recent(k)) \in Nat /\ Cardinality(hits[k]) \in Nat
      /\ Cardinality(Recent(k)) <= Cardinality(hits[k])
  BY <1>2, <1>4, FS_Subset, FS_CardinalityType
<1>6. MaxOf(k) \in Nat
  BY LimitsAssumption DEF MaxOf
<1> QED
  BY <1>1, <1>2, <1>4, <1>5, <1>6 DEF Remembers

\* MemoryRateLimiter.allow keeps all this.
LEMMA AskLimiterKeeps ==
  ASSUME LimiterInv, NEW k \in Keys, AskLimiter(k), UNCHANGED clock
  PROVE  LimiterInv'
<1> DEFINE n == Len(tried)
           new == [key |-> k, at |-> clock, allowed |-> ~Full(k)]
<1>1. /\ clock \in Nat /\ tried \in Seq(Try) /\ DOMAIN hits = Keys
      /\ \A i \in 1..n : tried[i].at <= clock
      /\ \A j \in Keys : Remembers(j)
      /\ WindowHolds
  BY DEF LimiterInv, LimiterTyped
<1>2. new \in Try
  BY <1>1 DEF Try, Full
<1>3. new.key = k /\ new.at = clock /\ (new.allowed <=> ~Full(k))
  OBVIOUS
<1>4. /\ tried' = Append(tried, new)
      /\ hits' = [hits EXCEPT ![k] = IF Full(k) THEN Recent(k) ELSE Recent(k) \cup {n + 1}]
  BY DEF AskLimiter
<1> HIDE DEF new
<1>5. /\ n \in Nat /\ Len(tried') = n + 1 /\ tried' \in Seq(Try)
      /\ tried'[n + 1] = new /\ \A i \in 1..n : tried'[i] = tried[i]
  BY <1>1, <1>2, <1>4
<1>6. /\ Recent(k) = {i \in Allowed(k) : clock - tried[i].at < Window}
      /\ Recent(k) \subseteq hits[k] /\ hits[k] \subseteq 1..n
      /\ IsFiniteSet(Recent(k)) /\ IsFiniteSet(hits[k])
      /\ Cardinality(Recent(k)) \in Nat /\ Cardinality(Recent(k)) <= MaxOf(k)
  BY RecentIsAllowed
<1>7. MaxOf(k) \in Nat
  BY LimitsAssumption DEF MaxOf
<1> HIDE DEF n
<1>8. LimiterTyped'
  <2>1. \A i \in 1..(n + 1) : tried'[i].at <= clock
    BY <1>1, <1>3, <1>5
  <2>2. DOMAIN hits' = Keys
    BY <1>1, <1>4
  <2> QED BY <1>1, <1>5, <2>1, <2>2 DEF LimiterTyped
<1>9. ASSUME NEW j \in Keys PROVE Remembers(j)'
  <2>1. CASE j # k
    <3>1. Allowed(j)' = Allowed(j)
      BY <1>3, <1>5, <2>1 DEF Allowed, n
    <3>2. hits'[j] = hits[j]
      BY <1>1, <1>4, <2>1
    <3>3. \A i \in Allowed(j) : tried'[i] = tried[i]
      BY <1>5 DEF Allowed, n
    <3>4. MaxOf(j)' = MaxOf(j)
      BY DEF MaxOf
    <3> QED BY <1>1, <3>1, <3>2, <3>3, <3>4 DEF Remembers
  <2>2. CASE j = k /\ Full(k)
    <3>1. Allowed(j)' = Allowed(j)
      BY <1>3, <1>5, <2>2 DEF Allowed, n
    <3>2. hits'[j] = Recent(j)
      BY <1>1, <1>4, <2>2
    <3>3. \A i \in Allowed(j) : tried'[i] = tried[i]
      BY <1>5 DEF Allowed, n
    <3>4. MaxOf(j)' = MaxOf(j)
      BY DEF MaxOf
    <3> QED BY <1>6, <2>2, <3>1, <3>2, <3>3, <3>4 DEF Remembers
  <2>3. CASE j = k /\ ~Full(k)
    <3>1. Allowed(j)' = Allowed(j) \cup {n + 1}
      BY <1>3, <1>5, <2>3 DEF Allowed, n
    <3>2. hits'[j] = Recent(j) \cup {n + 1}
      BY <1>1, <1>4, <2>3
    <3>3. \A i \in Allowed(j) : tried'[i] = tried[i]
      BY <1>5 DEF Allowed, n
    <3>4. n + 1 \notin Recent(k)
      BY <1>5, <1>6
    <3>5. Cardinality(Recent(k) \cup {n + 1}) = Cardinality(Recent(k)) + 1
      BY <1>6, <3>4, FS_AddElement
    <3>6. Cardinality(Recent(k) \cup {n + 1}) <= MaxOf(k)
      BY <1>6, <1>7, <2>3, <3>5 DEF Full
    <3>7. Cardinality(hits'[j]) <= MaxOf(j)'
      BY <2>3, <3>2, <3>6 DEF MaxOf
    <3>8. hits'[j] \subseteq Allowed(j)'
      BY <1>6, <2>3, <3>1, <3>2
    <3>9. \A i \in Allowed(j)' : clock - tried'[i].at < Window => i \in hits'[j]
      BY <1>6, <2>3, <3>1, <3>2, <3>3
    <3> QED BY <3>7, <3>8, <3>9 DEF Remembers
  <2> QED BY <2>1, <2>2, <2>3
<1>10. WindowHolds'
  <2> SUFFICES ASSUME NEW i \in 1..(n + 1)
               PROVE  tried'[i].allowed <=>
                        Cardinality({j \in 1..(i - 1) : /\ tried'[j].key = tried'[i].key
                                                        /\ tried'[j].allowed
                                                        /\ tried'[i].at - tried'[j].at < Window})
                          < MaxOf(tried'[i].key)
    <3>1. DOMAIN tried' = 1..(n + 1)
      BY <1>5
    <3> QED BY <3>1 DEF WindowHolds, MaxOf
  <2>1. \A j \in 1..(i - 1) : j \in 1..n /\ tried'[j] = tried[j]
    BY <1>5
  <2>2. CASE i \in 1..n
    <3> DEFINE old == {j \in 1..(i - 1) : /\ tried[j].key = tried[i].key /\ tried[j].allowed
                                          /\ tried[i].at - tried[j].at < Window}
    <3>1. tried[i].allowed <=> Cardinality(old) < MaxOf(tried[i].key)
      BY <1>1, <2>2 DEF WindowHolds, n
    <3>2. tried'[i] = tried[i]
      BY <1>5, <2>2
    <3>3. old = {j \in 1..(i - 1) : /\ tried'[j].key = tried'[i].key /\ tried'[j].allowed
                                    /\ tried'[i].at - tried'[j].at < Window}
      BY <2>1, <3>2
    <3> HIDE DEF old
    <3> QED BY <3>1, <3>2, <3>3
  <2>3. CASE i = n + 1
    <3>1. Recent(k) = {j \in 1..(i - 1) : /\ tried'[j].key = tried'[i].key /\ tried'[j].allowed
                                          /\ tried'[i].at - tried'[j].at < Window}
      <4>1. i - 1 = n /\ tried'[i] = new
        BY <1>5, <2>3
      <4> QED BY <1>3, <1>6, <2>1, <4>1 DEF Allowed, n
    <3>2. new.allowed <=> Cardinality(Recent(k)) < MaxOf(k)
      BY <1>3, <1>6, <1>7 DEF Full
    <3> QED BY <1>3, <1>5, <2>3, <3>1, <3>2
  <2> QED BY <1>5, <2>2, <2>3
<1> QED
  BY <1>8, <1>9, <1>10 DEF LimiterInv

\* A process starts with empty limiters.
LEMMA LimiterStart ==
  ASSUME Init
  PROVE  LimiterInv
<1>1. clock = 0 /\ tried = <<>> /\ hits = [k \in Keys |-> {}]
  BY DEF Init
<1>2. Len(tried) = 0 /\ DOMAIN tried = {} /\ tried \in Seq(Try)
  BY <1>1
<1>3. LimiterTyped /\ WindowHolds
  BY <1>1, <1>2 DEF LimiterTyped, WindowHolds
<1>4. \A k \in Keys : Remembers(k)
  BY <1>1, <1>2, FS_EmptySet, LimitsAssumption DEF Remembers, Allowed, MaxOf
<1> QED BY <1>3, <1>4 DEF LimiterInv

\* Only the login asks the limiters; a restart empties them.
LEMMA LimiterStep == RowsInv /\ LimiterInv /\ [Next]_vars => LimiterInv'
<1> SUFFICES ASSUME RowsInv, LimiterInv, [Next]_vars PROVE LimiterInv'
  OBVIOUS
<1>1. CASE UNCHANGED limiter
  <2>1. clock' = clock /\ hits' = hits /\ tried' = tried
    BY <1>1 DEF limiter
  <2> QED BY <2>1 DEF LimiterInv, LimiterTyped, Remembers, Allowed, MaxOf, WindowHolds
<1>2. CASE Tick
  <2>1. clock' = clock + 1 /\ hits' = hits /\ tried' = tried
    BY <1>2 DEF Tick
  <2>2. LimiterTyped' /\ WindowHolds'
    <3>1. \A i \in 1..Len(tried) : tried[i].at \in Nat /\ tried[i].at <= clock + 1
      BY TryTypes DEF LimiterInv, LimiterTyped
    <3> QED BY <2>1, <3>1 DEF LimiterInv, LimiterTyped, MaxOf, WindowHolds
  <2>3. ASSUME NEW k \in Keys PROVE Remembers(k)'
    <3>1. Remembers(k) /\ clock \in Nat /\ Window \in Nat
      BY LimitsAssumption DEF LimiterInv, LimiterTyped
    <3>2. \A i \in Allowed(k) : tried[i].at \in Nat
      BY TryTypes DEF Allowed
    <3>3. Allowed(k)' = Allowed(k) /\ MaxOf(k)' = MaxOf(k)
      BY <2>1 DEF Allowed, MaxOf
    <3>4. \A i \in Allowed(k) : clock' - tried'[i].at < Window => clock - tried[i].at < Window
      BY <2>1, <3>1, <3>2
    <3> QED BY <2>1, <3>1, <3>3, <3>4 DEF Remembers
  <2> QED BY <2>2, <2>3 DEF LimiterInv
<1>3. CASE Die
  <2>1. clock' = clock /\ tried' = <<>> /\ hits' = [k \in Keys |-> {}]
    BY <1>3 DEF Die
  <2>2. Len(tried') = 0 /\ DOMAIN tried' = {} /\ tried' \in Seq(Try)
    BY <2>1
  <2>3. LimiterTyped' /\ WindowHolds'
    BY <2>1, <2>2 DEF LimiterInv, LimiterTyped, WindowHolds
  <2>4. \A k \in Keys : Remembers(k)'
    BY <2>1, <2>2, FS_EmptySet, LimitsAssumption DEF Remembers, Allowed, MaxOf
  <2> QED BY <2>3, <2>4 DEF LimiterInv
<1>4. ASSUME NEW w \in Workers, Login(w) PROVE LimiterInv'
  BY <1>4, AskLimiterKeeps DEF Login, Keys
<1>5. ASSUME NEW w \in Workers, FindUser(w) PROVE LimiterInv'
  <2>1. call[w].email \in Keys
    <3>1. AtItsStep(w)
      BY WorkerTypes
    <3> QED BY <1>5, <3>1 DEF FindUser, At, AtItsStep, LoginCalls, Keys
  <2>2. clock' = clock /\ (UNCHANGED <<hits, tried>> \/ AskLimiter(call[w].email))
    BY <1>5 DEF FindUser
  <2>3. CASE UNCHANGED <<hits, tried>>
    BY <1>1, <2>2, <2>3 DEF limiter
  <2> QED BY <2>1, <2>2, <2>3, AskLimiterKeeps
<1>6. ASSUME NEW w \in Workers,
             \/ CreateOrganization(w) \/ Seed(w) \/ CheckRole(w) \/ InsertUser(w)
             \/ InsertMembership(w) \/ Refuse(w) \/ FindMembership(w) \/ InsertSession(w)
      PROVE  UNCHANGED limiter
  BY <1>6 DEF CreateOrganization, Seed, CheckRole, InsertUser, InsertMembership, Refuse,
              FindMembership, InsertSession
<1>7. ASSUME NEW w \in Workers,
             \/ ServiceRequest(w) \/ ReadMembership(w) \/ SessionRequest(w) \/ ResolveSession(w)
             \/ RequirePermission(w) \/ RegisterModel(w) \/ ReadPolicy(w) \/ Evaluate(w)
             \/ MayRoute(w) \/ ListModels(w) \/ AskLeave(w) \/ AskCloud(w) \/ Choose(w)
      PROVE  UNCHANGED limiter
  BY <1>7 DEF ServiceRequest, ReadMembership, SessionRequest, ResolveSession, RequirePermission,
              RegisterModel, ReadPolicy, Evaluate, MayRoute, ListModels, AskLeave, AskCloud, Choose
<1>8. ASSUME (\E o \in Orgs : WipeOrganization(o)) \/ (\E s \in Sessions : Logout(s))
      PROVE  UNCHANGED limiter
  BY <1>8 DEF WipeOrganization, Logout
<1>9. CASE UNCHANGED vars
  BY <1>1, <1>9 DEF vars
<1> QED
  BY <1>1, <1>2, <1>3, <1>4, <1>5, <1>6, <1>7, <1>8, <1>9 DEF Next

\* MemoryRateLimiter.allow lets a call through exactly if it let fewer than its
\* maximum through in the window that ends with the call, at any limit, any
\* window and any number of calls.
THEOREM LimiterIsExact == Spec => []WindowHolds
<1>1. Spec => []LimiterInv
  BY RowsStart, RowsStep, LimiterStart, LimiterStep, PTL DEF Spec
<1>2. LimiterInv => WindowHolds
  BY DEF LimiterInv
<1> QED BY <1>1, <1>2, PTL

\* Tenants, users, sessions, models and limiters are of their kinds and refer
\* to rows: whatever a reset, a death or requests under way leave behind.
THEOREM AccessTypes == Spec => []TypeOK
<1>1. Spec => [](RowsInv /\ LimiterInv)
  BY RowsStart, RowsStep, LimiterStart, LimiterStep, PTL DEF Spec
<1>2. RowsInv /\ LimiterInv => TypeOK
  <2> SUFFICES ASSUME RowsInv, LimiterInv PROVE TypeOK
    OBVIOUS
  <2>1. \A u \in Users : member[u] # Null =>
          Live(member[u].org) /\ email[u] \in Emails /\ member[u].role \in {"admin", "member"}
    BY DEF RowsInv, MembersOK, Typed, Membership
  <2>2. \A u, v \in Users : email[u] = email[v] /\ email[u] \in Emails => u = v
    BY DEF RowsInv, EmailsOK
  <2>3. \A u \in Users : email[u] \in Emails /\ member[u] = Null =>
          \/ faults > 0 \/ \E o \in Orgs : tenant[o] = "wiped"
          \/ \E w \in Workers : pc[w] = "insert_membership" /\ mem[w].user = u
    BY DEF RowsInv, StraysOK
  <2>4. \A s \in Sessions : IsOpen(s) =>
          member[session[s].user] # Null /\ member[session[s].user].org = session[s].org
    BY DEF RowsInv, SessionsOK
  <2>5. \A o \in Orgs :
          /\ ~Live(o) => seeded[o] = 0 /\ models[o] = {}
          /\ seeded[o] < Len(SeedRows) /\ Live(o) /\ faults = 0 =>
               Preempted(o) \/ \E w \in Workers : pc[w] = "seed" /\ call[w].org = o
          /\ \A m, n \in ModelsOf(o) : m.key = n.key => m = n
    BY DEF RowsInv, OrgsOK, SeedsOK, Keyed
  <2>6. \A k \in Keys : Cardinality(hits[k]) <= MaxOf(k)
    BY DEF LimiterInv, Remembers
  <2> QED BY <2>1, <2>2, <2>3, <2>4, <2>5, <2>6 DEF TypeOK
<1> QED BY <1>1, <1>2, PTL

-----------------------------------------------------------------------------
(* Decisions *)

\* A decision on some of a tenant's seed denies, or is the one on the whole.
LEMMA PartDecides ==
  ASSUME NEW part, NEW whole, part \subseteq whole, NEW role, NEW ask,
         ask.type \in {"data.leave_device", "model.process", "knowledge.read", "skill.use"}
  PROVE  \/ UnderPolicy(part, role, ask).decision = "deny"
         \/ UnderPolicy(part, role, ask) = UnderPolicy(whole, role, ask)
<1>1. ASSUME NEW a
      PROVE  \/ SkillDecision(part, role, a).decision = "deny"
             \/ SkillDecision(part, role, a) = SkillDecision(whole, role, a)
  <2>1. CASE ~SkillFound(part, a.skill, role)
    <3>1. SkillDecision(part, role, a) = Deny("ROLE_DENIED")
      BY <2>1 DEF SkillDecision
    <3> QED BY <3>1 DEF Deny
  <2>2. CASE SkillFound(part, a.skill, role)
    <3>1. SkillFound(whole, a.skill, role)
      BY <2>2 DEF SkillFound
    <3> QED BY <2>2, <3>1, Zenon DEF SkillDecision
  <2> QED BY <2>1, <2>2
<1> QED BY <1>1 DEF UnderPolicy

\* Only the evaluate and route requests decide; each decision is one on a part
\* of the seed.
LEMMA DecisionsStep == RowsInv /\ SeedFailsClosed /\ [Next]_vars => SeedFailsClosed'
<1> DEFINE whole == RowsAfter(Len(SeedRows))
           Closed(d) == \/ d.decision = "deny"
                        \/ d.decision = Decision(TRUE, whole, d.role, d.ask).decision
<1> SUFFICES ASSUME RowsInv, SeedFailsClosed, [Next]_vars PROVE SeedFailsClosed'
  OBVIOUS
<1>1. CASE UNCHANGED decided
  BY <1>1 DEF SeedFailsClosed
<1>2. ASSUME NEW w \in Workers, NEW ask, pc[w] = "decide",
             ask.type \in {"data.leave_device", "model.process", "knowledge.read", "skill.use"},
             Record(w, ask, Decision(mem[w].found, Rows(mem[w].org), mem[w].role, ask))
      PROVE  SeedFailsClosed'
  <2> DEFINE part == Rows(mem[w].org)
             role == mem[w].role
             d == [org |-> mem[w].org, role |-> role, ask |-> ask,
                   decision |-> Decision(mem[w].found, part, role, ask).decision]
  <2>1. mem[w].org \in Orgs
    <3>1. AtItsStep(w)
      BY WorkerTypes
    <3> QED BY <1>2, <3>1 DEF AtItsStep
  <2>2. part \subseteq whole
    <3>1. seeded[mem[w].org] \in 0..Len(SeedRows)
      BY <2>1 DEF RowsInv, Typed
    <3> QED BY <3>1, RowsAfterGrow DEF Rows
  <2>3. \/ Decision(mem[w].found, part, role, ask).decision = "deny"
        \/ Decision(mem[w].found, part, role, ask) = Decision(TRUE, whole, role, ask)
    <3> HIDE DEF part, whole, role
    <3>1. ask.type \in {"data.leave_device", "model.process", "knowledge.read", "skill.use"}
      BY <1>2
    <3>2. \/ UnderPolicy(part, role, ask).decision = "deny"
          \/ UnderPolicy(part, role, ask) = UnderPolicy(whole, role, ask)
      BY <2>2, <3>1, PartDecides
    <3>3. CASE mem[w].found
      BY <3>2, <3>3 DEF Decision
    <3>4. CASE ~mem[w].found
      <4>1. Decision(mem[w].found, part, role, ask) = Deny("DENY_DEFAULT")
        BY <3>4 DEF Decision
      <4> QED BY <4>1 DEF Deny
    <3> QED BY <3>3, <3>4
  <2>4. decided' = decided \cup {d}
    BY <1>2 DEF Record
  <2>5. d.role = role /\ d.ask = ask /\ d.decision = Decision(mem[w].found, part, role, ask).decision
    OBVIOUS
  <2> HIDE DEF part, role, d, whole
  <2>6. Closed(d)
    BY <2>3, <2>5
  <2>7. \A x \in decided : Closed(x)
    BY DEF SeedFailsClosed, whole
  <2>8. \A x \in decided' : Closed(x)
    BY <2>4, <2>6, <2>7
  <2> QED BY <2>8 DEF SeedFailsClosed, whole
<1>3. ASSUME NEW w \in Workers, Evaluate(w) PROVE SeedFailsClosed'
  <2>1. /\ pc[w] = "decide" /\ call[w].op = "evaluate"
        /\ Record(w, call[w].ask, Decision(mem[w].found, Rows(mem[w].org), mem[w].role, call[w].ask))
    BY <1>3 DEF Evaluate, At
  <2>2. call[w].ask \in Asks
    <3>1. AtItsStep(w)
      BY WorkerTypes
    <3> QED BY <2>1, <3>1 DEF AtItsStep, EvaluateCalls, RouteCalls, ServiceCalls
  <2> QED BY <1>2, <2>1, <2>2, AsksAssumption
<1>4. ASSUME NEW w \in Workers, MayRoute(w) PROVE SeedFailsClosed'
  <2> DEFINE ask == RouteAsk(call[w].q)
  <2>1. /\ pc[w] = "decide"
        /\ Record(w, ask, Decision(mem[w].found, Rows(mem[w].org), mem[w].role, ask))
    BY <1>4 DEF MayRoute, At
  <2>2. ask.type = "skill.use"
    BY DEF RouteAsk
  <2> HIDE DEF ask
  <2> QED BY <1>2, <2>1, <2>2
<1>5. ASSUME NEW w \in Workers,
             \/ CreateOrganization(w) \/ Seed(w) \/ CheckRole(w) \/ InsertUser(w)
             \/ InsertMembership(w) \/ Login(w) \/ Refuse(w) \/ FindUser(w)
             \/ FindMembership(w) \/ InsertSession(w)
      PROVE  UNCHANGED decided
  BY <1>5 DEF CreateOrganization, Seed, CheckRole, InsertUser, InsertMembership, Login, Refuse,
              FindUser, FindMembership, InsertSession, history
<1>6. ASSUME NEW w \in Workers,
             \/ ServiceRequest(w) \/ ReadMembership(w) \/ SessionRequest(w) \/ ResolveSession(w)
             \/ RequirePermission(w) \/ RegisterModel(w) \/ ReadPolicy(w)
             \/ ListModels(w) \/ AskLeave(w) \/ AskCloud(w) \/ Choose(w)
      PROVE  UNCHANGED decided
  BY <1>6 DEF ServiceRequest, ReadMembership, SessionRequest, ResolveSession, RequirePermission,
              RegisterModel, ReadPolicy, ListModels, AskLeave, AskCloud, Choose, history
<1>7. ASSUME \/ Tick \/ Die \/ (\E o \in Orgs : WipeOrganization(o))
             \/ (\E s \in Sessions : Logout(s)) \/ UNCHANGED vars
      PROVE  UNCHANGED decided
  BY <1>7 DEF Tick, Die, WipeOrganization, Logout, vars, history
<1> QED
  BY <1>1, <1>3, <1>4, <1>5, <1>6, <1>7 DEF Next

\* evaluatePolicy denies or decides what the whole seed would, whatever part of
\* the seed a tenant has and whatever changes between its reads.
THEOREM DecisionsFailClosed == Spec => []SeedFailsClosed
<1>1. Init => SeedFailsClosed
  BY DEF Init, SeedFailsClosed
<1> QED
  BY <1>1, RowsStart, RowsStep, DecisionsStep, PTL DEF Spec

-----------------------------------------------------------------------------
(* The choice of a model *)

\* What the router knows of its candidates while it asks about them.
Routes(w) ==
  LET q == call[w].q
      suited == {n \in mem[w].listed : Suits(n, q, mem[w].local)}
  IN  /\ pc[w] \in {"leave", "cloud"} => \A n \in mem[w].listed : n.enabled
      /\ pc[w] = "cloud" =>
           /\ mem[w].todo \cup mem[w].eligible \subseteq suited
           /\ Locals(suited) \subseteq mem[w].eligible
           /\ ClassRank[q.class] >= ClassRank["confidential"] => mem[w].local

RouteInv == (\A w \in Workers : Routes(w)) /\ RouteIsLawful

\* A worker that is not about to list or ask keeps no candidates.
Elsewhere ==
  \A v \in Workers : pc'[v] \in {"leave", "cloud"} =>
    pc'[v] = pc[v] /\ call'[v] = call[v] /\ mem'[v] = mem[v]

\* A worker that goes on to anything but listing or asking is one of them.
LEMMA TakesElsewhere ==
  ASSUME Typed, NEW w \in Workers, NEW label, NEW c, NEW m, Takes(w, label, c, m),
         label \notin {"leave", "cloud"}
  PROVE  Elsewhere
<1>1. /\ pc'[w] = label
      /\ \A v \in Workers \ {w} : pc'[v] = pc[v] /\ call'[v] = call[v] /\ mem'[v] = mem[v]
  BY TakesOne
<1> QED BY <1>1 DEF Elsewhere

\* Whether it goes on ..
LEMMA ContinueElsewhere ==
  ASSUME Typed, NEW w \in Workers, NEW label, NEW m, Continue(w, label, m),
         label \notin {"leave", "cloud"}
  PROVE  Elsewhere
BY ContinueTakes, TakesElsewhere

\* .. or answers ..
LEMMA AnswerElsewhere ==
  ASSUME Typed, NEW w \in Workers, Answer(w)
  PROVE  Elsewhere
BY AnswerTakes, TakesElsewhere

\* .. or begins.
LEMMA BeginElsewhere ==
  ASSUME Typed, NEW w \in Workers, NEW label, NEW c, NEW m, Begin(w, c, label, m),
         label \notin {"leave", "cloud"}
  PROVE  Elsewhere
BY BeginTakes, TakesElsewhere

\* Nor do the steps that neither list nor ask give any.
LEMMA OthersElsewhere ==
  ASSUME Typed, NEW w \in Workers,
         \/ CreateOrganization(w) \/ Seed(w) \/ CheckRole(w) \/ InsertUser(w)
         \/ InsertMembership(w) \/ Login(w) \/ Refuse(w) \/ FindUser(w)
         \/ FindMembership(w) \/ InsertSession(w)
         \/ ServiceRequest(w) \/ ReadMembership(w) \/ SessionRequest(w) \/ ResolveSession(w)
         \/ RequirePermission(w) \/ RegisterModel(w) \/ ReadPolicy(w) \/ Evaluate(w)
         \/ MayRoute(w)
  PROVE  Elsewhere
<1>1. CASE CreateOrganization(w)
  BY <1>1, BeginElsewhere DEF CreateOrganization
<1>2. CASE Seed(w)
  BY <1>2, ContinueElsewhere, AnswerElsewhere DEF Seed
<1>3. CASE CheckRole(w)
  BY <1>3, ContinueElsewhere, AnswerElsewhere DEF CheckRole
<1>4. CASE InsertUser(w)
  BY <1>4, ContinueElsewhere, AnswerElsewhere DEF InsertUser
<1>5. CASE InsertMembership(w)
  BY <1>5, AnswerElsewhere DEF InsertMembership
<1>6. CASE Login(w)
  BY <1>6, BeginElsewhere DEF Login
<1>7. CASE Refuse(w)
  BY <1>7, AnswerElsewhere DEF Refuse
<1>8. CASE FindUser(w)
  BY <1>8, ContinueElsewhere, AnswerElsewhere DEF FindUser
<1>9. CASE FindMembership(w)
  BY <1>9, ContinueElsewhere, AnswerElsewhere DEF FindMembership
<1>10. CASE InsertSession(w)
  BY <1>10, AnswerElsewhere DEF InsertSession
<1>11. CASE ServiceRequest(w)
  <2>1. PICK u \in Users, o \in Orgs, q \in Requests :
          Begin(w, [op |-> "route", actor |-> u, q |-> q], "member",
                [NoMem EXCEPT !.user = u, !.org = o])
    BY <1>11 DEF ServiceRequest
  <2> QED BY <2>1, BeginElsewhere
<1>12. CASE ReadMembership(w)
  BY <1>12, ContinueElsewhere, AnswerElsewhere DEF ReadMembership
<1>13. CASE SessionRequest(w)
  BY <1>13, BeginElsewhere DEF SessionRequest
<1>14. CASE ResolveSession(w)
  BY <1>14, ContinueElsewhere, AnswerElsewhere DEF ResolveSession
<1>15. CASE RequirePermission(w)
  BY <1>15, ContinueElsewhere, AnswerElsewhere DEF RequirePermission
<1>16. CASE RegisterModel(w)
  BY <1>16, AnswerElsewhere DEF RegisterModel
<1>17. CASE ReadPolicy(w)
  BY <1>17, ContinueElsewhere DEF ReadPolicy
<1>18. CASE Evaluate(w)
  BY <1>18, AnswerElsewhere DEF Evaluate
<1>19. CASE MayRoute(w)
  BY <1>19, ContinueElsewhere, AnswerElsewhere DEF MayRoute
<1> QED
  BY <1>1, <1>2, <1>3, <1>4, <1>5, <1>6, <1>7, <1>8, <1>9, <1>10, <1>11, <1>12, <1>13,
     <1>14, <1>15, <1>16, <1>17, <1>18, <1>19

\* What does not touch the candidates or the choices keeps them right.
LEMMA ElsewhereKeeps ==
  ASSUME RouteInv, Elsewhere, UNCHANGED routed
  PROVE  RouteInv'
<1>1. ASSUME NEW v \in Workers PROVE Routes(v)'
  <2>1. Routes(v)
    BY DEF RouteInv
  <2> QED BY <2>1 DEF Elsewhere, Routes
<1>2. RouteIsLawful'
  BY DEF RouteInv, RouteIsLawful
<1> QED BY <1>1, <1>2 DEF RouteInv

\* The candidates of one worker are its own.
LEMMA OneRoutes ==
  ASSUME Typed, RouteInv, UNCHANGED routed, NEW w \in Workers, NEW label, NEW m,
         Continue(w, label, m), Routes(w)'
  PROVE  RouteInv'
<1>1. \A v \in Workers \ {w} : pc'[v] = pc[v] /\ call'[v] = call[v] /\ mem'[v] = mem[v]
  BY ContinueTakes, TakesOne
<1>2. ASSUME NEW v \in Workers \ {w} PROVE Routes(v)'
  <2>1. Routes(v)
    BY DEF RouteInv
  <2> QED BY <1>1, <2>1 DEF Routes
<1>3. RouteIsLawful'
  BY DEF RouteInv, RouteIsLawful
<1> QED BY <1>2, <1>3 DEF RouteInv

\* listModels returns enabled models.
LEMMA ListModelsRoutes ==
  ASSUME RowsInv, RouteInv, NEW w \in Workers, ListModels(w)
  PROVE  RouteInv'
<1> DEFINE m == [mem[w] EXCEPT !.listed = {n \in ModelsOf(mem[w].org) : n.enabled}]
<1>0. Typed /\ mem[w] \in LocalVars
  BY WorkerTypes
<1>1. Continue(w, "leave", m) /\ UNCHANGED routed
  BY DEF ListModels, history
<1>2. \A n \in m.listed : n.enabled
  BY <1>0 DEF LocalVars
<1>3. pc'[w] = "leave" /\ mem'[w] = m
  BY <1>0, <1>1, ContinueTakes, TakesOne
<1> HIDE DEF m
<1>4. Routes(w)'
  BY <1>2, <1>3 DEF Routes
<1> QED BY <1>0, <1>1, <1>4, OneRoutes

\* The models that need no question are candidates, all local ones among them.
LEMMA AskLeaveRoutes ==
  ASSUME RowsInv, RouteInv, NEW w \in Workers, AskLeave(w)
  PROVE  RouteInv'
<1> DEFINE q == call[w].q
           o == mem[w].org
           leave == Decision(PolicyFound(Rows(o)), Rows(o), mem[w].role, LeaveAsk(q))
           local == LocalRequired(leave, q)
           suited == {n \in mem[w].listed : Suits(n, q, local)}
           cloud == {n \in suited : n.deployment = "cloud"}
           near == suited \ cloud
           m == [mem[w] EXCEPT !.local = local, !.todo = cloud, !.eligible = near]
<1>0. Typed /\ mem[w] \in LocalVars /\ Routes(w)
  BY WorkerTypes DEF RouteInv
<1>1. pc[w] = "leave" /\ Continue(w, "cloud", m) /\ UNCHANGED routed
  BY DEF AskLeave, At, history
<1>2. ClassRank[q.class] >= ClassRank["confidential"] => local
  BY DEF LocalRequired
<1>3. pc'[w] = "cloud" /\ call'[w] = call[w] /\ mem'[w] = m
  BY <1>0, <1>1, ContinueTakes, TakesOne
<1>5. /\ m.listed = mem[w].listed /\ m.local = local /\ m.todo = cloud /\ m.eligible = near
  BY <1>0 DEF LocalVars
<1>6. Locals(suited) \subseteq near
  BY DEF Locals
<1>7. cloud \cup near \subseteq suited
  OBVIOUS
<1>8. \A n \in mem[w].listed : n.enabled
  BY <1>0, <1>1 DEF Routes
<1>9. Routes(w)'
  <2>1. \A n \in mem'[w].listed : n.enabled
    BY <1>3, <1>5, <1>8
  <2>2. {n \in mem'[w].listed : Suits(n, call'[w].q, mem'[w].local)} = suited
    BY <1>3, <1>5
  <2>3. mem'[w].todo \cup mem'[w].eligible \subseteq suited /\ Locals(suited) \subseteq mem'[w].eligible
    BY <1>3, <1>5, <1>6, <1>7
  <2>4. ClassRank[call'[w].q.class] >= ClassRank["confidential"] => mem'[w].local
    BY <1>2, <1>3, <1>5
  <2> HIDE DEF suited
  <2> QED BY <2>1, <2>2, <2>3, <2>4 DEF Routes
<1> HIDE DEF m
<1> QED BY <1>0, <1>1, <1>9, OneRoutes

\* A cloud model that is allowed joins the candidates; none is lost.
LEMMA AskCloudRoutes ==
  ASSUME RowsInv, RouteInv, NEW w \in Workers, AskCloud(w)
  PROVE  RouteInv'
<1> DEFINE first == FirstModel(mem[w].todo)
           d == Decision(PolicyFound(Rows(mem[w].org)), Rows(mem[w].org), mem[w].role,
                         CloudAsk(call[w].q, first))
           e == IF d.decision = "deny" THEN mem[w].eligible ELSE mem[w].eligible \cup {first}
           m == [mem[w] EXCEPT !.todo = @ \ {first}, !.eligible = e]
<1>0. Typed /\ mem[w] \in LocalVars /\ AtItsStep(w) /\ Routes(w)
  BY WorkerTypes DEF RouteInv
<1>1. /\ pc[w] = "cloud" /\ mem[w].todo # {} /\ UNCHANGED routed
      /\ Continue(w, "cloud", [mem[w] EXCEPT !.todo = @ \ {first},
           !.eligible = IF d.decision = "deny" THEN @ ELSE @ \cup {first}])
  BY DEF AskCloud, At, history
<1>2. Continue(w, "cloud", m)
  BY <1>1
<1>3. first \in mem[w].todo
  <2>1. Keyed(mem[w].todo)
    BY <1>0, <1>1 DEF AtItsStep, Keyed
  <2> QED BY <1>1, <2>1, FirstExists
<1>4. mem[w].eligible \subseteq e /\ e \subseteq mem[w].eligible \cup {first}
  OBVIOUS
<1> HIDE DEF first, e
<1>5. /\ m.listed = mem[w].listed /\ m.local = mem[w].local
      /\ m.todo = mem[w].todo \ {first} /\ m.eligible = e
  BY <1>0 DEF LocalVars
<1>6. pc'[w] = "cloud" /\ call'[w] = call[w] /\ mem'[w] = m
  BY <1>0, <1>2, ContinueTakes, TakesOne
<1> HIDE DEF m
<1>7. Routes(w)'
  BY <1>0, <1>1, <1>3, <1>4, <1>5, <1>6 DEF Routes
<1> QED BY <1>0, <1>1, <1>2, <1>7, OneRoutes

\* The sort puts a local candidate first, so the choice is lawful.
LEMMA ChooseRoutes ==
  ASSUME RowsInv, RouteInv, NEW w \in Workers, Choose(w)
  PROVE  RouteInv'
<1> DEFINE q == call[w].q
           e == mem[w].eligible
           listed == mem[w].listed
           local == mem[w].local
           suited == {n \in listed : Suits(n, q, local)}
           r == IF e = {} THEN [model |-> Null, reason |-> NoModelReason(listed, q)]
                ELSE [model |-> Choice(e, q, local), reason |-> SelectionReason(e, q, local)]
           new == [q |-> q, listed |-> listed, model |-> r.model, reason |-> r.reason]
           lawful(n) == /\ n.enabled /\ q.class \in n.classes /\ q.caps \subseteq n.caps
                        /\ RiskRank[q.risk] <= RiskRank[n.risk]
<1>0. Typed /\ mem[w] \in LocalVars /\ call[w] \in Calls /\ AtItsStep(w) /\ Routes(w)
  BY WorkerTypes DEF RouteInv
<1>1. pc[w] = "cloud" /\ call[w].op = "route" /\ Answer(w) /\ routed' = routed \cup {new}
  BY DEF Choose, At
<1>2. /\ e \subseteq suited /\ Locals(suited) \subseteq e /\ \A n \in listed : n.enabled
      /\ ClassRank[q.class] >= ClassRank["confidential"] => local
  BY <1>0, <1>1 DEF Routes
<1>3. Keyed(listed) /\ call[w] \in RouteCalls \cup ServiceCalls
  BY <1>0, <1>1 DEF AtItsStep
<1>4. q \in Requests
  BY <1>3 DEF RouteCalls, ServiceCalls
<1>5. q.class \in {"public", "internal", "confidential", "restricted"} /\ RiskRank[q.risk] \in 0..2
  BY <1>4, RequestsAssumption DEF Classes, ClassRank, RiskRank
<1>6. q.class \notin LeaveDevice => local
  BY <1>2, <1>5 DEF LeaveDevice, ClassRank
<1> HIDE DEF q, e, listed, local
<1>7. ASSUME NEW n \in listed
      PROVE  RiskRank[n.risk] \in 0..2
  BY <1>3, ModelTypes DEF Keyed
<1>8. ASSUME NEW n \in suited
      PROVE  lawful(n) /\ (local => n.deployment = "local")
  BY <1>2, <1>5, <1>7 DEF Suits, TooRisky
<1>9. ASSUME NEW n \in listed, lawful(n), n.deployment = "local"
      PROVE  n \in Locals(e)
  <2>1. n \in suited
    BY <1>5, <1>7, <1>9 DEF Suits, TooRisky
  <2> QED BY <1>2, <1>9, <2>1 DEF Locals
<1>10. ASSUME e # {}
       PROVE  LET m == Choice(e, q, local)
              IN  /\ m \in listed /\ lawful(m)
                  /\ q.class \notin LeaveDevice => m.deployment = "local"
                  /\ (\E n \in listed : lawful(n) /\ n.deployment = "local") => m.deployment = "local"
  <2>1. Keyed(e)
    BY <1>2, <1>3 DEF Keyed
  <2>2. /\ Choice(e, q, local) \in e
        /\ Locals(e) # {} => Choice(e, q, local).deployment = "local"
    BY <1>10, <2>1, ChoiceIsNearest
  <2> HIDE DEF lawful
  <2> QED BY <1>2, <1>6, <1>8, <1>9, <2>2
<1>11. new.q = q /\ new.listed = listed /\ new.model = r.model
  OBVIOUS
<1>12. new.model # Null => e # {} /\ new.model = Choice(e, q, local)
  OBVIOUS
<1> HIDE DEF new
<1>13. ASSUME new.model # Null
       PROVE  LET m == new.model
              IN  /\ m \in new.listed /\ lawful(m)
                  /\ q.class \in {"confidential", "restricted"} => m.deployment = "local"
                  /\ q.class \notin LeaveDevice => m.deployment = "local"
                  /\ m.deployment = "cloud" => q.class \in CloudModels
                  /\ (\E n \in new.listed : lawful(n) /\ n.deployment = "local") => m.deployment = "local"
  <2>1. q.class \in {"confidential", "restricted"} => q.class \notin LeaveDevice
    BY DEF LeaveDevice
  <2>2. q.class \notin CloudModels => q.class \notin LeaveDevice
    BY DEF CloudModels, LeaveDevice
  <2> HIDE DEF lawful
  <2> QED BY <1>10, <1>11, <1>12, <1>13, <2>1, <2>2
<1>14. RouteIsLawful'
  <2> SUFFICES ASSUME NEW x \in routed', x.model # Null
               PROVE  LET m == x.model
                          ok(n) == /\ n.enabled /\ x.q.class \in n.classes /\ x.q.caps \subseteq n.caps
                                   /\ RiskRank[x.q.risk] <= RiskRank[n.risk]
                      IN  /\ m \in x.listed /\ ok(m)
                          /\ x.q.class \in {"confidential", "restricted"} => m.deployment = "local"
                          /\ x.q.class \notin LeaveDevice => m.deployment = "local"
                          /\ m.deployment = "cloud" => x.q.class \in CloudModels
                          /\ (\E n \in x.listed : ok(n) /\ n.deployment = "local") => m.deployment = "local"
    BY DEF RouteIsLawful
  <2>1. CASE x \in routed
    BY <2>1 DEF RouteInv, RouteIsLawful
  <2>2. CASE x = new
    BY <1>11, <1>13, <2>2
  <2> QED BY <1>1, <2>1, <2>2
<1>15. ASSUME NEW v \in Workers PROVE Routes(v)'
  <2>1. Elsewhere
    BY <1>0, <1>1, AnswerElsewhere
  <2>2. Routes(v)
    BY DEF RouteInv
  <2> QED BY <2>1, <2>2 DEF Elsewhere, Routes
<1> QED BY <1>14, <1>15 DEF RouteInv

\* Every step of the program keeps the candidates and the choices right.
LEMMA RouteStep == RowsInv /\ RouteInv /\ [Next]_vars => RouteInv'
<1> SUFFICES ASSUME RowsInv, RouteInv, [Next]_vars PROVE RouteInv'
  OBVIOUS
<1>0. Typed
  BY DEF RowsInv
<1>1. ASSUME \/ Tick \/ (\E o \in Orgs : WipeOrganization(o))
             \/ (\E s \in Sessions : Logout(s)) \/ UNCHANGED vars
      PROVE  RouteInv'
  <2>1. UNCHANGED <<pc, call, mem, routed>>
    BY <1>1 DEF Tick, WipeOrganization, Logout, vars, history
  <2> QED BY <2>1, ElsewhereKeeps DEF Elsewhere
<1>2. CASE Die
  <2>1. (\A v \in Workers : pc'[v] = "idle") /\ UNCHANGED routed
    BY <1>2 DEF Die
  <2> QED BY <2>1, ElsewhereKeeps DEF Elsewhere
<1>3. ASSUME NEW w \in Workers,
             \/ CreateOrganization(w) \/ Seed(w) \/ CheckRole(w) \/ InsertUser(w)
             \/ InsertMembership(w) \/ Login(w) \/ Refuse(w) \/ FindUser(w)
             \/ FindMembership(w) \/ InsertSession(w)
      PROVE  RouteInv'
  <2>1. UNCHANGED routed
    BY <1>3 DEF CreateOrganization, Seed, CheckRole, InsertUser, InsertMembership, Login, Refuse,
                FindUser, FindMembership, InsertSession, history
  <2> QED BY <1>0, <1>3, <2>1, OthersElsewhere, ElsewhereKeeps
<1>4. ASSUME NEW w \in Workers,
             \/ ServiceRequest(w) \/ ReadMembership(w) \/ SessionRequest(w) \/ ResolveSession(w)
             \/ RequirePermission(w) \/ RegisterModel(w) \/ ReadPolicy(w) \/ Evaluate(w)
             \/ MayRoute(w)
      PROVE  RouteInv'
  <2>1. UNCHANGED routed
    BY <1>4 DEF ServiceRequest, ReadMembership, SessionRequest, ResolveSession, RequirePermission,
                RegisterModel, ReadPolicy, Evaluate, MayRoute, history
  <2> QED BY <1>0, <1>4, <2>1, OthersElsewhere, ElsewhereKeeps
<1>5. ASSUME NEW w \in Workers, ListModels(w) \/ AskLeave(w) \/ AskCloud(w) \/ Choose(w)
      PROVE  RouteInv'
  BY <1>5, ListModelsRoutes, AskLeaveRoutes, AskCloudRoutes, ChooseRoutes
<1> QED
  BY <1>1, <1>2, <1>3, <1>4, <1>5 DEF Next

\* routeModel chooses a model that was registered for the request, and a local
\* one whenever one will do, whatever is registered, seeded or wiped between
\* its reads.
THEOREM ChoiceIsLawful == Spec => []RouteIsLawful
<1>1. Init => RouteInv
  BY DEF Init, RouteInv, Routes, RouteIsLawful
<1>2. RouteInv => RouteIsLawful
  BY DEF RouteInv
<1> QED
  BY <1>1, <1>2, RowsStart, RowsStep, RouteStep, PTL DEF Spec

-----------------------------------------------------------------------------
(* The pool of connections.  PoolTypeOK is inductive: a connection that     *)
(* comes back goes to the first in the queue, who does not hold one, so     *)
(* that the number of those out and the owners of each are preserved.       *)

\* What the invariant says of one request, and of the queue.
OnlyApprovals == \A w \in Clients : stage[w] \in {"insert", "nested"} => kind[w] = "approve"

PInv == PoolTypeOK /\ OnlyApprovals

\* The numbers of connections.
LEMMA Counts ==
  ASSUME NEW T \in SUBSET Clients
  PROVE  /\ IsFiniteSet(T) /\ Cardinality(T) \in Nat
         /\ \A w \in Clients \ T : Cardinality(T \cup {w}) = Cardinality(T) + 1
         /\ \A w \in T : Cardinality(T \ {w}) = Cardinality(T) - 1
<1>1. IsFiniteSet(T)
  BY ClientsAssumption, FS_Subset
<1> QED
  BY <1>1, FS_CardinalityType, FS_AddElement, FS_RemoveElement

\* Steps that leave the pool alone: what they must keep for each request.
LEMMA PoolKept ==
  ASSUME PInv, NEW w \in Clients, UNCHANGED <<tx, single, queue, begun>>,
         NEW s \in Stages, stage' = [stage EXCEPT ![w] = s],
         kind' = kind, exec' = exec, stage[w] # "idle",
         s \in InTransaction, w \in tx, w \notin single, ~Queued(w),
         s \in {"insert", "nested"} => kind[w] = "approve",
         rowLock' \in [Executions -> SUBSET Clients],
         \A e \in Executions : \A v \in rowLock'[e] :
           rowLock'[e] = {v} /\ exec[v] = e /\ stage'[v] \in {"commit", "rollback"}
  PROVE  PInv'
<1>1. /\ PoolTypeOK /\ stage'[w] = s /\ \A v \in Clients \ {w} : stage'[v] = stage[v]
      /\ stage' \in [Clients -> Stages]
  BY DEF PInv, PoolTypeOK
<1>2. \A i \in DOMAIN queue : queue[i] # w /\ queue[i] \in Clients
  BY <1>1 DEF Queued, PoolTypeOK
<1>3. \A i \in DOMAIN queue : stage'[queue[i]] \in Asking /\ ~Holds(queue[i])'
  BY <1>1, <1>2 DEF PoolTypeOK, Holds
<1>4. InUse' = InUse
  BY DEF InUse
<1>5. PoolTypeOK'
  BY <1>1, <1>3, <1>4 DEF PoolTypeOK
<1>6. OnlyApprovals'
  BY <1>1 DEF PInv, OnlyApprovals
<1> QED
  BY <1>5, <1>6 DEF PInv

-----------------------------------------------------------------------------
(* The pool *)

\* A connection comes back from w, which goes on at n without it.
LEMMA ComesBack ==
  ASSUME PInv, NEW w \in Clients, NEW t, NEW s, NEW n \in {"idle", "begin", "claim", "rollback"},
         \/ stage[w] \in Brief /\ w \in single /\ t = tx /\ s = single \ {w}
         \/ stage[w] = "release" /\ t = tx \ {w} /\ s = single,
         w \in t <=> n \in InTransaction,
         HandOver(t, s), stage' = [stage EXCEPT ![w] = n],
         kind' \in [Clients -> Kinds \cup {"none"}], exec' \in [Clients -> Executions \cup {"none"}],
         \A v \in Clients \ {w} : kind'[v] = kind[v] /\ exec'[v] = exec[v],
         n # "idle" => kind'[w] = kind[w] /\ exec'[w] = exec[w],
         UNCHANGED <<rowLock, begun>>
  PROVE  PInv'
<1>1. /\ PoolTypeOK /\ stage'[w] = n /\ \A v \in Clients \ {w} : stage'[v] = stage[v]
      /\ stage' \in [Clients -> Stages]
  BY DEF PInv, PoolTypeOK, Stages
<1>2. /\ tx \in SUBSET Clients /\ single \in SUBSET Clients
      /\ t \in SUBSET Clients /\ s \in SUBSET Clients
      /\ stage[w] = "release" => w \in tx /\ w \notin single
      /\ ~Queued(w)
  BY <1>1 DEF PoolTypeOK, InTransaction, Brief, Asking, Queued, Holds
<1>3. /\ Cardinality(t) \in Nat /\ Cardinality(s) \in Nat
      /\ Cardinality(t) + Cardinality(s) = InUse - 1
      /\ InUse \in Nat /\ InUse <= PoolSize
  <2>1. /\ Cardinality(tx) \in Nat /\ Cardinality(single) \in Nat
        /\ Cardinality(t) \in Nat /\ Cardinality(s) \in Nat
    BY <1>2, Counts
  <2>2. CASE t = tx /\ s = single \ {w} /\ w \in single
    <3>1. Cardinality(s) = Cardinality(single) - 1
      BY <1>2, <2>2, Counts
    <3> QED
      BY <1>1, <2>1, <2>2, <3>1 DEF InUse, PoolTypeOK
  <2>3. CASE t = tx \ {w} /\ s = single /\ w \in tx
    <3>1. Cardinality(t) = Cardinality(tx) - 1
      BY <1>2, <2>3, Counts
    <3> QED
      BY <1>1, <2>1, <2>3, <3>1 DEF InUse, PoolTypeOK
  <2> QED
    BY <1>2, <2>2, <2>3
<1>4. /\ \A v \in Clients : stage'[v] \in InTransaction => v \in t
      /\ \A v \in t : stage'[v] \in InTransaction \cup {"begin"}
      /\ \A v \in s : stage'[v] \in Brief
      /\ w \notin s
      /\ \A v \in Clients : stage'[v] = "idle" \/ (kind'[v] \in Kinds /\ exec'[v] \in Executions)
  BY <1>1, <1>2 DEF PoolTypeOK, InTransaction, Brief
<1>5. /\ rowLock' \in [Executions -> SUBSET Clients]
      /\ \A e \in Executions : \A v \in rowLock'[e] :
           rowLock'[e] = {v} /\ exec'[v] = e /\ stage'[v] \in {"commit", "rollback"}
  <2>1. stage[w] \notin {"commit", "rollback"}
    BY DEF Brief
  <2>2. \A e \in Executions : w \notin rowLock[e]
    BY <1>1, <2>1 DEF PoolTypeOK
  <2>3. \A e \in Executions : \A v \in rowLock[e] : v \in Clients /\ v # w
    BY <1>1, <2>2 DEF PoolTypeOK
  <2> QED
    BY <1>1, <2>3 DEF PoolTypeOK
<1>6. OnlyApprovals'
  BY <1>1 DEF PInv, OnlyApprovals
<1>7. CASE queue = <<>>
  <2>1. tx' = t /\ single' = s /\ queue' = <<>>
    BY <1>7 DEF HandOver
  <2>2. InUse' <= PoolSize
    BY <1>3, <2>1, PoolSizeAssumption DEF InUse
  <2>3. DOMAIN queue' = {} /\ queue' \in Seq(Clients)
    BY <2>1
  <2>4. PoolTypeOK'
    BY <1>1, <1>2, <1>4, <1>5, <2>1, <2>2, <2>3 DEF PoolTypeOK
  <2> QED
    BY <1>6, <2>4 DEF PInv
<1>8. CASE queue # <<>>
  <2> DEFINE h == Head(queue)
  <2>1. /\ h \in Clients /\ h = queue[1] /\ Len(queue) \in Nat /\ Len(queue) >= 1
        /\ DOMAIN queue = 1..Len(queue) /\ queue \in Seq(Clients)
        /\ Tail(queue) \in Seq(Clients)
        /\ DOMAIN Tail(queue) = 1..(Len(queue) - 1)
        /\ \A i \in 1..(Len(queue) - 1) : Tail(queue)[i] = queue[i + 1]
    BY <1>1, <1>8, HeadTailProperties, LenProperties, EmptySeq DEF PoolTypeOK
  <2> HIDE DEF h
  <2>2. stage[h] \in Asking /\ ~Holds(h) /\ h # w /\ stage'[h] = stage[h]
    BY <1>1, <1>2, <2>1 DEF PoolTypeOK, Queued
  <2>3. /\ queue' = Tail(queue)
        /\ tx' = IF stage[h] = "begin" THEN t \cup {h} ELSE t
        /\ single' = IF stage[h] \in Brief THEN s \cup {h} ELSE s
    BY <1>8 DEF HandOver, h
  <2>4. (stage[h] = "begin" => h \notin t) /\ (stage[h] \in Brief => h \notin s /\ stage[h] # "begin")
    BY <2>2 DEF Holds, Brief
  <2>5. InUse' = InUse
    <3>1. CASE stage[h] = "begin"
      <4>1. tx' = t \cup {h} /\ single' = s
        BY <2>3, <3>1 DEF Brief
      <4>2. Cardinality(t \cup {h}) = Cardinality(t) + 1
        BY <1>2, <2>1, <2>4, <3>1, Counts
      <4> QED
        BY <1>3, <4>1, <4>2 DEF InUse
    <3>2. CASE stage[h] \in Brief
      <4>1. tx' = t /\ single' = s \cup {h}
        BY <2>3, <3>2 DEF Brief
      <4>2. Cardinality(s \cup {h}) = Cardinality(s) + 1
        BY <1>2, <2>1, <2>4, <3>2, Counts
      <4> QED
        BY <1>3, <4>1, <4>2 DEF InUse
    <3> QED
      BY <2>2, <3>1, <3>2 DEF Asking, Brief
  <2>6. InUse = PoolSize
    BY <1>1, <1>8 DEF PoolTypeOK
  <2>7. \A i \in DOMAIN queue' : \E j \in DOMAIN queue : j > 1 /\ j = i + 1 /\ queue'[i] = queue[j]
    BY <2>1, <2>3
  <2>8. \A i, j \in DOMAIN queue' : queue'[i] = queue'[j] => i = j
    BY <1>1, <2>1, <2>3, <2>7 DEF PoolTypeOK
  <2>9. \A i \in DOMAIN queue' : stage'[queue'[i]] \in Asking /\ ~Holds(queue[i])'
    <3> SUFFICES ASSUME NEW i \in DOMAIN queue'
                 PROVE  stage'[queue'[i]] \in Asking /\ ~Holds(queue[i])'
      OBVIOUS
    <3>1. PICK j \in DOMAIN queue : j > 1 /\ queue'[i] = queue[j]
      BY <2>7
    <3>2. PICK v \in Clients : v = queue[j]
      BY <1>1, <2>1, <3>1
    <3>3. v # h /\ v # w /\ stage[v] \in Asking /\ ~Holds(v)
      BY <1>1, <1>2, <2>1, <3>1, <3>2 DEF PoolTypeOK, Queued
    <3>4. stage'[v] = stage[v] /\ (v \in tx' => v \in tx) /\ (v \in single' => v \in single)
      BY <1>1, <2>3, <3>3
    <3>5. ~Holds(v)'
      BY <3>3, <3>4 DEF Holds
    <3> QED
      BY <3>1, <3>2, <3>3, <3>4, <3>5 DEF Holds
  <2>10. /\ tx' \subseteq Clients /\ single' \subseteq Clients /\ queue' \in Seq(Clients)
         /\ \A v \in Clients : stage'[v] \in InTransaction => v \in tx'
         /\ \A v \in tx' : stage'[v] \in InTransaction \cup {"begin"}
         /\ \A v \in single' : stage'[v] \in Brief
    BY <1>2, <1>4, <2>1, <2>2, <2>3
  <2>11. PoolTypeOK'
    BY <1>1, <1>3, <1>4, <1>5, <2>5, <2>6, <2>8, <2>9, <2>10 DEF PoolTypeOK
  <2> QED
    BY <1>6, <2>11 DEF PInv
<1> QED
  BY <1>7, <1>8

\* A request asks for a connection.
LEMMA AskInv ==
  ASSUME PInv, NEW w \in Clients, Ask(w)
  PROVE  PInv'
<1>1. /\ PoolTypeOK /\ OnlyApprovals /\ stage[w] \in Asking /\ ~Holds(w) /\ ~Queued(w)
      /\ UNCHANGED <<kind, exec, stage, rowLock, begun>>
  BY DEF PInv, Ask
<1>2. OnlyApprovals'
  BY <1>1 DEF OnlyApprovals
<1>3. CASE HasFree
  <2>1. /\ tx' = IF stage[w] = "begin" THEN tx \cup {w} ELSE tx
        /\ single' = IF stage[w] \in Brief THEN single \cup {w} ELSE single
        /\ UNCHANGED queue
    BY <1>3 DEF Ask
  <2>2. /\ tx \in SUBSET Clients /\ single \in SUBSET Clients
        /\ Cardinality(tx) \in Nat /\ Cardinality(single) \in Nat
    BY <1>1, Counts DEF PoolTypeOK
  <2>3. InUse' = InUse + 1
    <3>1. CASE stage[w] = "begin"
      <4>1. tx' = tx \cup {w} /\ single' = single /\ w \notin tx
        BY <1>1, <2>1, <3>1 DEF Brief, Holds
      <4>2. Cardinality(tx \cup {w}) = Cardinality(tx) + 1
        BY <2>2, <4>1, Counts
      <4> QED
        BY <2>2, <4>1, <4>2 DEF InUse
    <3>2. CASE stage[w] \in Brief
      <4>1. tx' = tx /\ single' = single \cup {w} /\ w \notin single
        BY <1>1, <2>1, <3>2 DEF Brief, Holds
      <4>2. Cardinality(single \cup {w}) = Cardinality(single) + 1
        BY <2>2, <4>1, Counts
      <4> QED
        BY <2>2, <4>1, <4>2 DEF InUse
    <3> QED
      BY <1>1, <3>1, <3>2 DEF Asking, Brief
  <2>4. InUse \in Nat /\ InUse < PoolSize
    BY <1>3, <2>2 DEF HasFree, InUse
  <2>5. queue' = <<>> /\ queue = <<>> /\ InUse' <= PoolSize
    BY <1>1, <2>1, <2>3, <2>4, PoolSizeAssumption DEF PoolTypeOK
  <2>6. /\ tx' \subseteq Clients /\ single' \subseteq Clients
        /\ \A v \in Clients : stage'[v] \in InTransaction => v \in tx'
        /\ \A v \in tx' : stage'[v] \in InTransaction \cup {"begin"}
        /\ \A v \in single' : stage'[v] \in Brief
    BY <1>1, <2>1 DEF PoolTypeOK
  <2>7. DOMAIN queue' = {} /\ queue' \in Seq(Clients)
    BY <2>5
  <2>8. PoolTypeOK'
    BY <1>1, <2>5, <2>6, <2>7 DEF PoolTypeOK
  <2> QED
    BY <1>2, <2>8 DEF PInv
<1>4. CASE ~HasFree
  <2>1. queue' = Append(queue, w) /\ UNCHANGED <<tx, single>>
    BY <1>4 DEF Ask
  <2> DEFINE n == Len(queue)
  <2>2. /\ queue' \in Seq(Clients) /\ n \in Nat /\ DOMAIN queue = 1..n /\ Len(queue') = n + 1
        /\ DOMAIN queue' = 1..(n + 1) /\ queue'[n + 1] = w
        /\ \A i \in 1..n : queue'[i] = queue[i]
    BY <1>1, <2>1, AppendProperties, LenProperties DEF PoolTypeOK
  <2> HIDE DEF n
  <2>3. \A i \in DOMAIN queue' : (i \in DOMAIN queue /\ queue'[i] = queue[i]) \/ i = n + 1
    BY <2>2
  <2>4. n + 1 \notin DOMAIN queue
    BY <2>2
  <2>5. \A i, j \in DOMAIN queue' : queue'[i] = queue'[j] => i = j
    BY <1>1, <2>2, <2>3, <2>4 DEF PoolTypeOK, Queued
  <2>6. \A i \in DOMAIN queue' : stage'[queue'[i]] \in Asking /\ ~Holds(queue[i])'
    BY <1>1, <2>1, <2>2, <2>3 DEF PoolTypeOK, Holds
  <2>7. InUse' = InUse /\ InUse = PoolSize
    <3>1. InUse \in Nat /\ InUse <= PoolSize /\ ~(InUse < PoolSize)
      <4>1. Cardinality(tx) \in Nat /\ Cardinality(single) \in Nat
        BY <1>1, Counts DEF PoolTypeOK
      <4> QED
        BY <1>1, <1>4, <4>1 DEF HasFree, InUse, PoolTypeOK
    <3> QED
      BY <2>1, <3>1, PoolSizeAssumption DEF InUse
  <2>8. PoolTypeOK'
    BY <1>1, <2>1, <2>2, <2>5, <2>6, <2>7, PoolSizeAssumption DEF PoolTypeOK
  <2> QED
    BY <1>2, <2>8 DEF PInv
<1> QED
  BY <1>3, <1>4

\* The end of a query on the pool, answered or failed.
LEMMA QueryInv ==
  ASSUME PInv, NEW w \in Clients, Query(w) \/ QueryFails(w)
  PROVE  PInv'
<1>1. /\ PoolTypeOK /\ stage[w] \in Brief /\ w \in single /\ HandOver(tx, single \ {w})
      /\ UNCHANGED <<rowLock, begun>>
  BY DEF PInv, Query, QueryFails
<1>2. /\ kind[w] \in Kinds /\ kind \in [Clients -> Kinds \cup {"none"}]
      /\ exec \in [Clients -> Executions \cup {"none"}]
      /\ w \in tx <=> stage[w] = "nested"
  BY <1>1 DEF PoolTypeOK, Brief, InTransaction
<1>3. CASE Idle(w) /\ w \notin tx
  <2>1. /\ stage' = [stage EXCEPT ![w] = "idle"] /\ "idle" \notin InTransaction
        /\ kind' \in [Clients -> Kinds \cup {"none"}] /\ exec' \in [Clients -> Executions \cup {"none"}]
        /\ \A v \in Clients \ {w} : kind'[v] = kind[v] /\ exec'[v] = exec[v]
    BY <1>2, <1>3 DEF Idle, InTransaction
  <2> QED
    BY <1>1, <1>3, <2>1, ComesBack
<1>4. CASE UNCHANGED <<kind, exec>>
  <2>1. PICK n \in {"begin", "claim", "rollback"} :
          stage' = [stage EXCEPT ![w] = n] /\ (w \in tx <=> n # "begin")
    <3>1. CASE Query(w)
      <4>1. stage' = [stage EXCEPT ![w] = NextStatement(kind[w], stage[w])] \/ Idle(w)
        BY <3>1 DEF Query, Advance
      <4>2. ~Idle(w)
        BY <1>2, <1>4 DEF Idle, Kinds
      <4>3. NextStatement(kind[w], stage[w]) # "done"
        BY <3>1, <4>2 DEF Query
      <4>4. CASE stage[w] = "query"
        BY <1>2, <4>1, <4>2, <4>3, <4>4 DEF NextStatement
      <4>5. CASE stage[w] = "nested"
        BY <1>2, <4>1, <4>2, <4>5 DEF NextStatement
      <4> QED
        BY <1>1, <4>4, <4>5 DEF Brief
    <3>2. CASE QueryFails(w)
      <4>1. ~Idle(w)
        BY <1>2, <1>4 DEF Idle, Kinds
      <4> QED
        BY <3>2, <4>1 DEF QueryFails
    <3> QED
      BY <3>1, <3>2
  <2>2. n \in InTransaction <=> n # "begin"
    BY DEF InTransaction
  <2> QED
    BY <1>1, <1>2, <1>4, <2>1, <2>2, ComesBack
<1>5. Idle(w) => w \notin tx
  <2>1. CASE Query(w)
    <3>1. ~Idle(w) \/ NextStatement(kind[w], stage[w]) = "done"
      BY <1>2, <2>1 DEF Query, Idle, Kinds
    <3>2. stage[w] = "nested" => NextStatement(kind[w], stage[w]) = "claim"
      BY DEF NextStatement
    <3> QED
      BY <1>2, <3>1, <3>2
  <2>2. CASE QueryFails(w)
    BY <1>2, <2>2 DEF QueryFails, Idle, Kinds
  <2> QED
    BY <2>1, <2>2
<1> QED
  BY <1>3, <1>4, <1>5 DEF Query, QueryFails

-----------------------------------------------------------------------------
(* Requests *)

LEMMA AcceptInv ==
  ASSUME PInv, NEW w \in Clients, NEW k \in Kinds, NEW e \in Executions, Accept(w, k, e)
  PROVE  PInv'
<1>1. /\ PoolTypeOK /\ stage[w] = "idle" /\ stage' = [stage EXCEPT ![w] = "query"]
      /\ kind' = [kind EXCEPT ![w] = k] /\ exec' = [exec EXCEPT ![w] = e]
      /\ UNCHANGED <<tx, single, queue, rowLock>>
  BY DEF PInv, Accept, poolVars
<1>2. begun' \in 0..MaxRequests
  BY MaxRequestsAssumption DEF PInv, PoolTypeOK, Accept
<1>3. /\ stage' \in [Clients -> Stages] /\ stage'[w] = "query"
      /\ \A v \in Clients \ {w} : stage'[v] = stage[v] /\ kind'[v] = kind[v] /\ exec'[v] = exec[v]
      /\ kind' \in [Clients -> Kinds \cup {"none"}] /\ exec' \in [Clients -> Executions \cup {"none"}]
      /\ kind'[w] = k /\ exec'[w] = e
  BY <1>1 DEF PoolTypeOK, Stages
<1>4. w \notin tx /\ w \notin single /\ \A f \in Executions : w \notin rowLock[f]
  BY <1>1 DEF PoolTypeOK, InTransaction, Brief
<1>5. \A i \in DOMAIN queue : queue[i] # w /\ queue[i] \in Clients
  BY <1>1 DEF PoolTypeOK, Asking
<1>6. \A i \in DOMAIN queue : stage'[queue[i]] \in Asking /\ ~Holds(queue[i])'
  BY <1>1, <1>3, <1>5 DEF PoolTypeOK, Holds
<1>7. InUse' = InUse
  BY <1>1 DEF InUse
<1>8. \A f \in Executions : \A v \in rowLock[f] : v \in Clients /\ v # w
  BY <1>1, <1>4 DEF PoolTypeOK
<1>9. \A v \in Clients : stage'[v] \in InTransaction => v \in tx
  BY <1>1, <1>3 DEF PoolTypeOK, InTransaction
<1>10. (\A v \in tx : stage'[v] = stage[v]) /\ (\A v \in single : stage'[v] = stage[v])
  BY <1>1, <1>3, <1>4 DEF PoolTypeOK
<1>11. \A f \in Executions : \A v \in rowLock'[f] :
         rowLock'[f] = {v} /\ exec'[v] = f /\ stage'[v] \in {"commit", "rollback"}
  BY <1>1, <1>3, <1>8 DEF PoolTypeOK
<1>12. PoolTypeOK'
  BY <1>1, <1>2, <1>3, <1>6, <1>7, <1>9, <1>10, <1>11 DEF PoolTypeOK
<1>13. OnlyApprovals'
  BY <1>1, <1>3 DEF PInv, OnlyApprovals
<1> QED
  BY <1>12, <1>13 DEF PInv

\* The statements of a transaction on its own connection.
LEMMA TransactionInv ==
  ASSUME PInv, NEW w \in Clients,
         \/ BeginTransaction(w) \/ InsertApproval(w) \/ ClaimExecution(w)
         \/ Commit(w) \/ StatementFails(w) \/ Rollback(w)
  PROVE  PInv'
<1>1. /\ PoolTypeOK /\ stage[w] # "idle" /\ stage[w] \in InTransaction \cup {"begin"} /\ stage[w] \notin Brief
      /\ UNCHANGED <<tx, single, queue, begun, kind, exec>>
  BY DEF PInv, BeginTransaction, InsertApproval, ClaimExecution, Commit, StatementFails, Rollback,
         poolVars, InTransaction, Brief
<1>2. w \in tx /\ w \notin single /\ ~Queued(w)
  <2>1. w \in tx
    BY <1>1 DEF PoolTypeOK, BeginTransaction, InsertApproval, ClaimExecution, Commit, StatementFails,
       Rollback, InTransaction
  <2>2. stage[w] \in Asking => Holds(w)
    BY <1>1, <2>1 DEF Asking, Brief, Holds
  <2> QED
    BY <1>1, <2>1, <2>2 DEF PoolTypeOK, Queued
<1>3. kind[w] \in Kinds /\ exec[w] \in Executions
  BY <1>1 DEF PoolTypeOK
<1>4. \A e \in Executions :
        /\ rowLock[e] \in SUBSET Clients
        /\ \A v \in rowLock[e] : rowLock[e] = {v} /\ exec[v] = e /\ stage[v] \in {"commit", "rollback"}
  BY <1>1 DEF PoolTypeOK
<1>5. CASE BeginTransaction(w) \/ InsertApproval(w)
  <2>1. UNCHANGED rowLock
    BY <1>5 DEF BeginTransaction, InsertApproval
  <2>2. PICK s \in {"insert", "claim", "nested"} :
          /\ stage' = [stage EXCEPT ![w] = s]
          /\ s \in {"insert", "nested"} => kind[w] = "approve"
    <3>1. stage' = [stage EXCEPT ![w] = NextStatement(kind[w], stage[w])]
      BY <1>5 DEF BeginTransaction, InsertApproval, Advance
    <3>2. CASE stage[w] = "begin"
      BY <3>1, <3>2 DEF NextStatement
    <3>3. CASE stage[w] = "insert"
      BY <3>1, <3>3 DEF NextStatement, PInv, OnlyApprovals
    <3> QED
      BY <1>5, <3>2, <3>3 DEF BeginTransaction, InsertApproval
  <2>3. s \in Stages /\ s \in InTransaction /\ stage[w] \notin {"commit", "rollback"}
    BY <1>5 DEF Stages, InTransaction, BeginTransaction, InsertApproval
  <2>4. \A e \in Executions : \A v \in rowLock[e] : v \in Clients /\ stage'[v] = stage[v]
    BY <1>1, <1>4, <2>2, <2>3 DEF PoolTypeOK
  <2>5. \A e \in Executions : \A v \in rowLock'[e] :
          rowLock'[e] = {v} /\ exec[v] = e /\ stage'[v] \in {"commit", "rollback"}
    BY <1>4, <2>1, <2>4
  <2>6. rowLock' \in [Executions -> SUBSET Clients]
    BY <1>1, <2>1 DEF PoolTypeOK
  <2> QED
    BY <1>1, <1>2, <2>2, <2>3, <2>5, <2>6, PoolKept
<1>6. CASE ClaimExecution(w)
  <2>1. /\ stage[w] = "claim" /\ rowLock[exec[w]] = {} /\ rowLock' = [rowLock EXCEPT ![exec[w]] = {w}]
        /\ stage' = [stage EXCEPT ![w] = "commit"]
    BY <1>6 DEF ClaimExecution, Claimable, Advance, NextStatement
  <2>2. "commit" \in Stages /\ "commit" \in InTransaction /\ "commit" \notin {"insert", "nested"}
    BY DEF Stages, InTransaction
  <2>3. rowLock' \in [Executions -> SUBSET Clients]
    BY <1>1, <1>3, <2>1 DEF PoolTypeOK
  <2>4. ASSUME NEW e \in Executions, NEW v \in rowLock'[e]
        PROVE  rowLock'[e] = {v} /\ exec[v] = e /\ stage'[v] \in {"commit", "rollback"}
    <3>1. CASE e = exec[w]
      <4>1. rowLock'[e] = {w} /\ v = w
        BY <1>1, <1>3, <2>1, <2>4, <3>1 DEF PoolTypeOK
      <4> QED
        BY <1>1, <2>1, <3>1, <4>1 DEF PoolTypeOK
    <3>2. CASE e # exec[w]
      <4>1. rowLock'[e] = rowLock[e] /\ v \in Clients
        BY <1>1, <2>1, <2>4, <3>2 DEF PoolTypeOK
      <4> QED
        BY <1>1, <1>4, <2>1, <2>4, <4>1 DEF PoolTypeOK
    <3> QED
      BY <3>1, <3>2
  <2> QED
    BY <1>1, <1>2, <2>1, <2>2, <2>3, <2>4, PoolKept
<1>7. CASE Commit(w) \/ Rollback(w)
  <2>1. stage' = [stage EXCEPT ![w] = "release"] /\ rowLock' = [e \in Executions |-> rowLock[e] \ {w}]
    BY <1>7 DEF Commit, Rollback, FreeLocks, FreeRow
  <2>2. "release" \in Stages /\ "release" \in InTransaction /\ "release" \notin {"insert", "nested"}
    BY DEF Stages, InTransaction
  <2>3. rowLock' \in [Executions -> SUBSET Clients]
    BY <1>4, <2>1
  <2>4. ASSUME NEW e \in Executions, NEW v \in rowLock'[e]
        PROVE  rowLock'[e] = {v} /\ exec[v] = e /\ stage'[v] \in {"commit", "rollback"}
    <3>1. v \in rowLock[e] /\ v # w /\ v \in Clients /\ rowLock'[e] = rowLock[e] \ {w}
      BY <1>4, <2>1, <2>4
    <3>2. rowLock[e] = {v} /\ exec[v] = e /\ stage[v] \in {"commit", "rollback"} /\ stage'[v] = stage[v]
      BY <1>1, <1>4, <2>1, <3>1 DEF PoolTypeOK
    <3> QED
      BY <3>1, <3>2
  <2> QED
    BY <1>1, <1>2, <2>1, <2>2, <2>3, <2>4, PoolKept
<1>8. CASE StatementFails(w)
  <2>1. stage' = [stage EXCEPT ![w] = "rollback"] /\ UNCHANGED rowLock
    BY <1>8 DEF StatementFails
  <2>2. "rollback" \in Stages /\ "rollback" \in InTransaction /\ "rollback" \notin {"insert", "nested"}
    BY DEF Stages, InTransaction
  <2>3. \A e \in Executions : \A v \in rowLock[e] :
          v \in Clients /\ (stage'[v] = stage[v] \/ stage'[v] = "rollback")
    BY <1>1, <1>4, <2>1 DEF PoolTypeOK
  <2> QED
    BY <1>1, <1>2, <1>4, <2>1, <2>2, <2>3, PoolKept DEF PoolTypeOK
<1> QED
  BY <1>5, <1>6, <1>7, <1>8

LEMMA ReleaseInv ==
  ASSUME PInv, NEW w \in Clients, Release(w)
  PROVE  PInv'
<1>1. /\ PoolTypeOK /\ stage[w] = "release" /\ HandOver(tx \ {w}, single) /\ Idle(w)
      /\ UNCHANGED <<rowLock, begun>>
  BY DEF PInv, Release
<1>2. /\ stage' = [stage EXCEPT ![w] = "idle"] /\ "idle" \notin InTransaction /\ w \notin tx \ {w}
      /\ kind' \in [Clients -> Kinds \cup {"none"}] /\ exec' \in [Clients -> Executions \cup {"none"}]
      /\ \A v \in Clients \ {w} : kind'[v] = kind[v] /\ exec'[v] = exec[v]
  BY <1>1 DEF Idle, InTransaction, PoolTypeOK
<1> QED
  BY <1>1, <1>2, ComesBack

-----------------------------------------------------------------------------
(* The theorems *)

LEMMA InitPInv == PoolInit => PInv
<1> SUFFICES ASSUME PoolInit PROVE PInv
  OBVIOUS
<1>1. InUse = 0
  BY FS_EmptySet DEF PoolInit, InUse
<1>2. PoolTypeOK
  BY <1>1, PoolSizeAssumption, MaxRequestsAssumption DEF PoolInit, PoolTypeOK, Stages, InTransaction
<1>3. OnlyApprovals
  BY DEF PoolInit, OnlyApprovals
<1> QED
  BY <1>2, <1>3 DEF PInv

LEMMA NextPInv == PInv /\ [PoolNext]_allVars => PInv'
<1> SUFFICES ASSUME PInv, [PoolNext]_allVars PROVE PInv'
  OBVIOUS
<1>1. CASE PoolNext
  <2> PICK w \in Clients : \/ \E k \in Kinds, e \in Executions : Accept(w, k, e)
                           \/ Step(w) \/ QueryFails(w) \/ StatementFails(w)
    BY <1>1 DEF PoolNext
  <2> QED
    BY AcceptInv, AskInv, QueryInv, TransactionInv, ReleaseInv DEF Step
<1>2. CASE UNCHANGED allVars
  BY <1>2 DEF PInv, PoolTypeOK, OnlyApprovals, Holds, InUse, allVars, poolVars
<1> QED
  BY <1>1, <1>2

LEMMA AlwaysPInv == PoolSpec => []PInv
BY InitPInv, NextPInv, PTL DEF PoolSpec

\* buildServer's pool: no more connections are out than it has, none is lost
\* on any path, and whoever holds the row of an execution asks for no other.
THEOREM ConnectionsAreAccountedFor == PoolSpec => []PoolTypeOK
<1>1. PInv => PoolTypeOK
  BY DEF PInv
<1> QED
  BY <1>1, AlwaysPInv, PTL

\* The only standstill of the process is the one of requestExecutionApproval:
\* every connection is held by an approval request that waits for a second.
THEOREM StandstillIsKnown == PoolSpec => []StandstillNeedsApprovals
<1>1. ASSUME PInv, Busy # {}, \A w \in Busy : Stuck(w)
      PROVE  Cardinality(tx) = PoolSize /\ \A w \in tx : kind[w] = "approve" /\ Queued(w)
  <2>1. PoolTypeOK /\ OnlyApprovals
    BY <1>1 DEF PInv
  <2>2. \A w \in Clients : stage[w] \notin {"commit", "rollback"}
    <3> SUFFICES ASSUME NEW w \in Clients, stage[w] \in {"commit", "rollback"} PROVE FALSE
      OBVIOUS
    <3>1. w \in Busy /\ ~Queued(w)
      BY <2>1 DEF Busy, Queued, PoolTypeOK, Asking
    <3> QED
      BY <1>1, <3>1 DEF Stuck
  <2>3. \A e \in Executions : rowLock[e] = {}
    BY <2>1, <2>2 DEF PoolTypeOK
  <2>4. \A w \in Busy : Queued(w)
    BY <1>1, <2>1, <2>3 DEF Stuck, Claimable, Busy, PoolTypeOK
  <2>5. queue # <<>> /\ InUse = PoolSize
    <3>1. DOMAIN queue # {}
      BY <1>1, <2>4 DEF Queued
    <3>2. queue # <<>>
      BY <3>1
    <3> QED
      BY <2>1, <3>2 DEF PoolTypeOK
  <2>6. single = {}
    BY <2>1, <2>4 DEF PoolTypeOK, Queued, Busy, Brief, Holds
  <2>7. ASSUME NEW w \in tx PROVE kind[w] = "approve" /\ Queued(w)
    <3>1. w \in Clients /\ w \in Busy /\ Queued(w)
      BY <2>1, <2>4 DEF PoolTypeOK, Busy, InTransaction
    <3>2. stage[w] \in Asking /\ ~Holds(w)
      BY <2>1, <3>1 DEF PoolTypeOK, Queued
    <3>3. stage[w] = "nested"
      BY <2>1, <2>7, <3>2 DEF PoolTypeOK, InTransaction, Asking, Holds
    <3> QED
      BY <2>1, <3>1, <3>3 DEF OnlyApprovals
  <2>8. Cardinality(tx) = PoolSize
    <3>1. Cardinality(tx) \in Nat /\ Cardinality(single) = 0
      BY <2>1, <2>6, Counts, FS_EmptySet DEF PoolTypeOK
    <3> QED
      BY <2>5, <3>1 DEF InUse
  <2> QED
    BY <2>7, <2>8
<1>2. PInv => StandstillNeedsApprovals
  BY <1>1 DEF StandstillNeedsApprovals
<1> QED
  BY <1>2, AlwaysPInv, PTL
=============================================================================
