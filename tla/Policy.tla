------------------------------- MODULE Policy -------------------------------
(***************************************************************************)
(* What Verity Command decides, as functions of the rows it reads: the      *)
(* rows seedDefaultCommand writes for a tenant, evaluatePolicy's decision   *)
(* on an action, and the model router's choice among the models of a        *)
(* tenant.  Who reads these rows when is in Access.  The decision on an     *)
(* approval is in Execution, the one on a connector in ConnectorGateway.    *)
(***************************************************************************)
EXTENDS Naturals, FiniteSets, Sequences, SequencesExt

ClassRank == [public |-> 0, internal |-> 1, confidential |-> 2, restricted |-> 3]
RiskRank == [low |-> 0, medium |-> 1, high |-> 2]
DeployRank == [local |-> 0, private |-> 1, cloud |-> 2]
Classes == DOMAIN ClassRank

\* DEFAULT_POLICY_RULES: the classes of data that may leave the device and
\* those that cloud models may process.
LeaveDevice == {"public", "internal"}
CloudModels == {"public", "internal"}

-----------------------------------------------------------------------------
(* The rows of command.* that a tenant starts with.  seedDefaultCommand      *)
(* inserts them one by one, each in a transaction of its own.                *)

Both == <<"admin", "member">>
Skill(id, approval, class, risk, roles) ==
  [id |-> id, approval |-> approval, class |-> class, risk |-> risk, roles |-> roles]

DefaultSkills ==
  << Skill("knowledge.retrieve", FALSE, "restricted", "high",   Both),
     Skill("knowledge.manage",   FALSE, "restricted", "high",   <<"admin">>),
     Skill("nova.use",           FALSE, "internal",   "medium", Both),
     Skill("nova.social.draft",  TRUE,  "internal",   "medium", Both),
     Skill("nova.research",      FALSE, "internal",   "medium", Both),
     Skill("nova.drafting",      FALSE, "internal",   "medium", Both),
     Skill("models.route",       FALSE, "restricted", "high",   Both),
     Skill("audit.export",       TRUE,  "restricted", "high",   <<"admin">>),
     Skill("approvals.decide",   FALSE, "restricted", "high",   <<"admin">>) >>

\* A skill_policies row, followed by its skill_policy_roles rows.
SkillRows(s) ==
  <<<<"skill", s.id>>>> \o [i \in DOMAIN s.roles |-> <<"role", s.id, s.roles[i]>>]

SeedRows ==
  LET skill(i) == SkillRows(DefaultSkills[i])
  IN  <<<<"policy">>, <<"binding">>>>
        \o skill(1) \o skill(2) \o skill(3) \o skill(4) \o skill(5)
        \o skill(6) \o skill(7) \o skill(8) \o skill(9)
        \o <<<<"model">>, <<"connector">>, <<"skill_connector">>>>

\* The rows of a tenant after n inserts.
RowsAfter(n) == {SeedRows[i] : i \in 1..n}

\* The one model of the seed.
MockLocal == [key |-> 2, deployment |-> "local", classes |-> DOMAIN ClassRank,
              risk |-> "high", caps |-> {"chat", "retrieve"}, enabled |-> TRUE]

-----------------------------------------------------------------------------
(* evaluatePolicy *)

\* loadActivePolicy finds the active policy through its binding; the only
\* binding the code makes is for every skill.
PolicyFound(rows) == {<<"policy">>, <<"binding">>} \subseteq rows

\* The skill row joined to the row of the role.
SkillFound(rows, skill, role) ==
  {<<"skill", skill>>, <<"role", skill, role>>} \subseteq rows

Deny(reason) == [decision |-> "deny", reason |-> reason]
Allow == [decision |-> "allow", reason |-> "ROLE_AND_CLASSIFICATION_ALLOWED"]
NeedsApproval == [decision |-> "approval_required", reason |-> "APPROVAL_REQUIRED"]

\* The verdict of the first check that fires; checks are <<condition, verdict>>.
FirstOf(checks) ==
  checks[SelectInSeq(checks, LAMBDA c : c[1])][2]

SkillDecision(rows, role, ask) ==
  IF ~SkillFound(rows, ask.skill, role) THEN Deny("ROLE_DENIED")
  ELSE LET s == DefaultSkills[SelectInSeq(DefaultSkills, LAMBDA d : d.id = ask.skill)]
       IN  FirstOf(<< <<ClassRank[ask.class] > ClassRank[s.class], Deny("CLASSIFICATION_DENIED")>>,
                      <<RiskRank[ask.risk] > RiskRank[s.risk], Deny("SKILL_DENIED")>>,
                      <<s.approval, NeedsApproval>>,
                      <<TRUE, Allow>> >>)

LeaveDecision(ask) ==
  IF ask.class \in LeaveDevice THEN Allow ELSE Deny("CLASSIFICATION_DENIED")

ModelDecision(ask) ==
  FirstOf(<< <<RiskRank[ask.risk] > RiskRank[ask.ceiling], Deny("MODEL_DENIED")>>,
             <<ask.deployment = "cloud" /\ ask.class \notin CloudModels,
               Deny("CLASSIFICATION_DENIED")>>,
             <<TRUE, Allow>> >>)

\* What is left to decide once the policy was found; knowledge.read asks for
\* the skill knowledge.retrieve at low risk.
UnderPolicy(rows, role, ask) ==
  CASE ask.type = "data.leave_device" -> LeaveDecision(ask)
    [] ask.type = "model.process" -> ModelDecision(ask)
    [] ask.type = "knowledge.read" ->
         SkillDecision(rows, role, [ask EXCEPT !.skill = "knowledge.retrieve", !.risk = "low"])
    [] ask.type = "skill.use" -> SkillDecision(rows, role, ask)

\* Variant for mutation runs: what no policy governs is allowed.
AllowByDefault(found, rows, role, ask) ==
  IF found THEN UnderPolicy(rows, role, ask) ELSE Allow

\* found is what the read of the policy said, rows what the next read finds.
Decision(found, rows, role, ask) ==
  IF found THEN UnderPolicy(rows, role, ask) ELSE Deny("DENY_DEFAULT")

-----------------------------------------------------------------------------
(* routeModel *)

\* The questions the router asks Command about a request.
RouteAsk(q) == [type |-> "skill.use", skill |-> "models.route",
                class |-> q.class, risk |-> q.risk]
LeaveAsk(q) == [type |-> "data.leave_device", class |-> q.class]
CloudAsk(q, m) == [type |-> "model.process", class |-> q.class, risk |-> q.risk,
                   deployment |-> "cloud", ceiling |-> m.risk]

\* Variant for mutation runs: an off-by-one in the rank.
OnlyRestricted(leave, q) == ClassRank[q.class] > ClassRank["confidential"]

\* Must the data stay on the device?
LocalRequired(leave, q) ==
  leave.decision = "deny" \/ ClassRank[q.class] >= ClassRank["confidential"]

TooRisky(m, q) == RiskRank[q.risk] > RiskRank[m.risk]

Suits(m, q, local) ==
  /\ q.class \in m.classes
  /\ ~TooRisky(m, q)
  /\ q.caps \subseteq m.caps
  /\ local => m.deployment = "local"

\* Variant for mutation runs: the candidates as listModels orders them.
BeforeByKey(m, n) == m.key < n.key

\* The order of the candidates: nearest deployment first, then by key (keys
\* stand for their places in the order of localeCompare).
Before(m, n) ==
  \/ DeployRank[m.deployment] < DeployRank[n.deployment]
  \/ DeployRank[m.deployment] = DeployRank[n.deployment] /\ m.key < n.key
FirstModel(S) == CHOOSE m \in S : \A n \in S \ {m} : Before(m, n)
Locals(S) == {m \in S : m.deployment = "local"}

Choice(eligible, q, local) ==
  IF (local \/ q.prefer) /\ Locals(eligible) # {}
    THEN FirstModel(Locals(eligible))
    ELSE FirstModel(eligible)

SelectionReason(eligible, q, local) ==
  LET d == Choice(eligible, q, local).deployment
  IN  FirstOf(<< <<local, "LOCAL_REQUIRED_CLASSIFICATION">>,
                 <<q.prefer /\ Locals(eligible) # {}, "LOCAL_PREFERRED_AVAILABLE">>,
                 <<d = "private", "PRIVATE_REQUIRED_POLICY">>,
                 <<d = "cloud", "CLOUD_ALLOWED_FALLBACK">>,
                 <<TRUE, "MODEL_CAPABILITY_MATCH">> >>)

NoModelReason(listed, q) ==
  IF \E m \in listed : TooRisky(m, q) THEN "MODEL_RISK_CEILING_EXCEEDED"
                                      ELSE "NO_ALLOWED_MODEL"
=============================================================================
