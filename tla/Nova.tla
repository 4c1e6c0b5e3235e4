-------------------------------- MODULE Nova --------------------------------
(***************************************************************************)
(* The Nova service (apps/nova): SkillEngine.run and decide_social         *)
(* (runtime/engine.py), the internal routes (api/internal.py), the Slack   *)
(* handlers (adapters/slack), onboarding (skills/social/onboarding.py) and *)
(* the rows they keep (persistence.py); and the two routes of the core     *)
(* that decide a draft (apps/core-api/src/shell.ts and server.ts).         *)
(*                                                                         *)
(* Nova is one event loop with one synchronous connection: the code        *)
(* between two awaits is atomic, everything else may happen during an      *)
(* await.  A task is a handler suspended at an await; its pc names the     *)
(* remote call it waits for.  A step serves the call and runs the code up  *)
(* to the next await, except where what happens between the two matters    *)
(* (labels requested, posted, decided, updating).  One organization, one   *)
(* brand, one platform.  Publishing is in ConnectorGateway; what the core  *)
(* does inside one of these calls is in Execution.                         *)
(***************************************************************************)
EXTENDS Integers, FiniteSets, ExecutionStatus

CONSTANTS
  Tasks,          \* handlers in progress at once
  MaxExecutions,  \* bound on executions
  Answers,        \* texts members reply with, each once
  Phases,         \* phases of the onboarding interview
  MaxRequests,    \* bound on handlers begun
  MaxFailures     \* bound on failed calls and restarts

ASSUME MaxExecutionsAssumption == MaxExecutions \in Nat
ASSUME PhasesAssumption == Phases \in Nat \ {0}
ASSUME BoundsAssumption == MaxRequests \in Nat /\ MaxFailures \in Nat

Executions == 1..MaxExecutions

VARIABLES
  status,     \* audit.executions.status
  approval,   \* the command.approvals row of an execution
  bypassed,   \* history: executions whose row the approvals route decided
  item,       \* social.content_items of an execution: [status, linked]
  row,        \* nova.skill_runs.status of an execution
  brand,      \* social.brands: [version, content]
  session,    \* social.onboarding_sessions
  cards,      \* executions whose draft is shown in Slack with its buttons
  proposal,   \* is an onboarding proposal shown in Slack?
  pc,         \* the call each task awaits
  job,        \* the locals of each task
  requests,   \* handlers begun so far
  failures,   \* failed calls and restarts so far
  hits,       \* history: errors raised in the handling of an execution
  raced,      \* history: executions decided while their draft was posted
  acked,      \* history: <<answer, thread>> acknowledged at a quiet moment
  activated   \* history: <<version, content>> of the brand so far

core == <<status, approval, bypassed>>
rows == <<item, row, brand, session>>
slack == <<cards, proposal>>
history == <<hits, raced, acked, activated>>
vars == <<core, rows, slack, pc, job, requests, failures, history>>

-----------------------------------------------------------------------------
\* Contents of a brand or a proposal: the execution that drafted it, what
\* parse_synthesis makes of no text at all, or seed data.
Empty == 0
Seed == MaxExecutions + 1
Contents == 0..Seed

NoBrand == [version |-> 0, content |-> Empty]
NoItem == [status |-> "none", linked |-> FALSE]
NoJob == [op |-> "none", exec |-> 0]
NoSession == [thread |-> 0, phase |-> 0, answers |-> {}, draft |-> Empty,
              version |-> 0, status |-> "none"]
Awaiting == Phases + 1

Exec(t) == job[t].exec
Busy(e) == \E t \in Tasks : Exec(t) = e
Goto(t, label) == pc' = [pc EXCEPT ![t] = label]

End(t) ==
  /\ pc' = [pc EXCEPT ![t] = "idle"]
  /\ job' = [job EXCEPT ![t] = NoJob]

PersistRun(e, s) == row' = [row EXCEPT ![e] = s]
SaveItem(e, saved) == item' = [item EXCEPT ![e] = saved]
SaveSession(saved) == session' = saved

\* upsert_brand: the only row of the brand is replaced.
UpsertBrand(version, content) ==
  /\ brand' = [version |-> version, content |-> content]
  /\ activated' = activated \cup {<<version, content>>}

Begin(t, locals, label) ==
  /\ pc[t] = "idle"
  /\ requests < MaxRequests
  /\ requests' = requests + 1
  /\ job' = [job EXCEPT ![t] = locals]
  /\ Goto(t, label)

\* A handler without an await before its last write: one atomic step.
AtOnce == requests < MaxRequests /\ requests' = requests + 1

Init ==
  /\ status = [e \in Executions |-> Absent]
  /\ approval = [e \in Executions |-> "none"] /\ bypassed = {}
  /\ item = [e \in Executions |-> NoItem]
  /\ row = [e \in Executions |-> "none"]
  /\ brand \in {NoBrand, [version |-> 1, content |-> Seed]}
  /\ session = NoSession
  /\ cards = {} /\ proposal = FALSE
  /\ pc = [t \in Tasks |-> "idle"]
  /\ job = [t \in Tasks |-> NoJob]
  /\ requests = 0 /\ failures = 0
  /\ hits = [e \in Executions |-> 0]
  /\ raced = {} /\ acked = {}
  /\ activated = IF brand = NoBrand THEN {} ELSE {<<1, Seed>>}

-----------------------------------------------------------------------------
(* What the core and Slack do when they serve the call a task awaits *)

InSkill == {"start", "retrieve", "model", "give_up", "close", "request",
            "complete", "finish", "record"}

\* Variant for mutation runs: any approval may be decided.
AnyApproval(e) == approval[e] # "none"

\* decideApproval: WHERE status = 'pending'.
Decidable(e) == approval[e] = "pending"

Target(t) ==
  CASE pc[t] = "open"    -> "running"
    [] pc[t] = "request" -> "waiting_approval"
    [] pc[t] = "close"   -> job[t].outcome
    [] pc[t] = "finish"  -> "completed"
    [] pc[t] = "seal"    -> "failed"
    [] pc[t] \in {"decide", "shell"} /\ job[t].allow /\ status[Exec(t)] = "waiting_approval"
                         -> "running"
    [] OTHER             -> status[Exec(t)]

\* Would the core serve the call?  Operations on an execution need a live
\* one; get_record and Slack always answer.
Accepted(t) ==
  LET live == status[Exec(t)] \notin TerminalStatuses
  IN  CASE pc[t] \in {"open", "record", "post"} -> TRUE
        [] pc[t] \in {"decide", "shell"}        -> Decidable(Exec(t))
        [] pc[t] = "finish" -> live /\ status[Exec(t)] # "waiting_approval"
        [] OTHER            -> live /\ CanMove(status[Exec(t)], Target(t))

Effect(t) ==
  /\ status' = [status EXCEPT ![Exec(t)] = Target(t)]
  /\ approval' = [approval EXCEPT ![Exec(t)] =
       CASE pc[t] = "request" -> "pending"
         [] pc[t] \in {"decide", "shell"} -> IF job[t].allow THEN "approved" ELSE "denied"
         [] OTHER -> @]
  /\ UNCHANGED bypassed
  /\ cards' = IF pc[t] = "post" THEN cards \cup {Exec(t)} ELSE cards

\* Serves a call; its continuation is given by the action that uses this.
Answered(t, label) == pc[t] = label /\ Accepted(t) /\ Effect(t)

Quiet == UNCHANGED <<proposal, requests, failures, hits, acked>>

\* Served calls whose answer arrives in a later step.
Serve(t) ==
  /\ \/ Answered(t, "request") /\ Goto(t, "requested")
     \/ Answered(t, "post")    /\ Goto(t, "posted")
     \/ Answered(t, "decide")  /\ Goto(t, "decided")
     \/ Answered(t, "shell")   /\ Goto(t, "updating")
  /\ UNCHANGED <<rows, job, raced, activated>> /\ Quiet

-----------------------------------------------------------------------------
(* SkillEngine.run *)

\* The execution id the core will choose.
Fresh(e) ==
  LET unused == {x \in Executions : status[x] = Absent /\ ~Busy(x)}
  IN  e \in unused /\ \A x \in unused : e <= x

\* A run of a skill for one of its callers: "return" to the route that asked
\* for it, "post" the draft to Slack, or "propose" a brand.  copy is the row
\* the caller loaded before.
RunOf(skill, then, e, copy) ==
  [op |-> "run", skill |-> skill, then |-> then, exec |-> e, copy |-> copy,
   outcome |-> "failed"]

IsSocial(t) == job[t].skill = "social"

\* The plan of a social draft needs an active brand; BrandUnavailableError is
\* raised inside the try.
OpenAnswered(t) ==
  /\ Answered(t, "open")
  /\ IF IsSocial(t) /\ brand = NoBrand
       THEN Goto(t, "fail") /\ hits' = [hits EXCEPT ![Exec(t)] = @ + 1]
       ELSE Goto(t, "start") /\ UNCHANGED hits
  /\ UNCHANGED <<rows, job, proposal, requests, failures, raced, acked, activated>>

\* Only a request that names collections retrieves; a synthesis never does.
StartAnswered(t) ==
  /\ Answered(t, "start")
  /\ PersistRun(Exec(t), "started")
  /\ \/ Goto(t, "model")
     \/ job[t].then # "propose" /\ Goto(t, "retrieve")
  /\ UNCHANGED <<item, brand, session, job, raced, activated>> /\ Quiet

\* In strict mode, insufficient evidence ends the run as blocked.
RetrieveAnswered(t) ==
  /\ Answered(t, "retrieve")
  /\ \/ Goto(t, "model") /\ UNCHANGED job
     \/ Goto(t, "give_up") /\ job' = [job EXCEPT ![t].outcome = "blocked"]
  /\ UNCHANGED <<rows, raced, activated>> /\ Quiet

\* An empty text fails the validation; a social draft is stored at once.
ModelAnswered(t) ==
  /\ Answered(t, "model")
  /\ \/ Goto(t, "give_up") /\ UNCHANGED item
     \/ /\ IsSocial(t)
        /\ SaveItem(Exec(t), [status |-> "pending_approval", linked |-> FALSE])
        /\ Goto(t, "request")
     \/ ~IsSocial(t) /\ Goto(t, "complete") /\ UNCHANGED item
  /\ UNCHANGED <<row, brand, session, job, raced, activated>> /\ Quiet

\* skill_fail, then finalize.  decide_social persists no run.
GiveUpAnswered(t) ==
  /\ Answered(t, "give_up")
  /\ IF job[t].op = "run" THEN PersistRun(Exec(t), "failed") ELSE UNCHANGED row
  /\ Goto(t, "close")
  /\ UNCHANGED <<item, brand, session, job, raced, activated>> /\ Quiet

\* Variant for mutation runs: the item as run built it, not as stored.
DraftInMemory(t) == [status |-> "pending_approval", linked |-> FALSE]

\* self.store.get_item(item_id)
Stored(t) == item[Exec(t)]

\* The approval id is linked to the item read now, and run returns.  The
\* caller loads the item for the post in the same breath.
RequestContinued(t) ==
  /\ pc[t] = "requested"
  /\ LET linked == [Stored(t) EXCEPT !.linked = TRUE]
     IN  /\ SaveItem(Exec(t), linked)
         /\ IF job[t].then = "post"
              THEN Goto(t, "post") /\ job' = [job EXCEPT ![t].copy = linked]
              ELSE End(t)
  /\ PersistRun(Exec(t), "waiting_approval")
  /\ UNCHANGED <<core, cards, brand, session, raced, activated>> /\ Quiet

\* The item loaded before the post is saved whole.
PostContinued(t) ==
  /\ pc[t] = "posted"
  /\ SaveItem(Exec(t), job[t].copy)
  /\ End(t)
  /\ UNCHANGED <<core, cards, row, brand, session, raced, activated>> /\ Quiet

\* Variant for mutation runs: run forgets to finalize.
Unsealed == "record"

AfterComplete == "finish"

CompleteAnswered(t) ==
  /\ Answered(t, "complete")
  /\ PersistRun(Exec(t), "completed")
  /\ Goto(t, AfterComplete)
  /\ UNCHANGED <<item, brand, session, job, raced, activated>> /\ Quiet

FinishAnswered(t) ==
  /\ Answered(t, "finish")
  /\ Goto(t, "record")
  /\ UNCHANGED <<rows, job, raced, activated>> /\ Quiet

\* Variant for mutation runs: numbered after the proposal loaded before.
VersionFromCopy(t) == job[t].copy.version + 1

\* synthesize_session reads the brand after the run.
NextVersion(t) == brand.version + 1

\* The end of synthesize_session and of the handlers that call it: the
\* session loaded before the run is saved whole, and the proposal is shown.
\* The proposed hash is that of this draft and version and is not kept apart.
Propose(t, draft) ==
  /\ SaveSession([job[t].copy EXCEPT !.draft = draft, !.version = NextVersion(t),
                                    !.phase = Awaiting, !.status = "proposed"])
  /\ proposal' = TRUE

\* run returns after its last call; a synthesis does not look at the status
\* of the outcome, whose artifact is empty if the run gave up.
RunReturns(t) ==
  /\ \/ Answered(t, "record") \/ Answered(t, "close")
  /\ IF job[t].op = "run" /\ job[t].then = "propose"
       THEN Propose(t, IF pc[t] = "record" THEN Exec(t) ELSE Empty)
       ELSE UNCHANGED <<session, proposal>>
  /\ End(t)
  /\ UNCHANGED <<item, row, brand, requests, failures, history>>

-----------------------------------------------------------------------------
(* Failing calls *)

\* Variant for mutation runs: the handler of other exceptions is missing.
OnlyNovaError(lost) == ~lost

\* The two except clauses of run.
Caught(lost) == lost \in BOOLEAN

\* _fail_open_execution: skill_fail, then finalize as failed.
FailAnswered(t) ==
  /\ Answered(t, "fail")
  /\ Goto(t, "seal")
  /\ UNCHANGED <<rows, job, raced, activated>> /\ Quiet

SealAnswered(t) ==
  /\ Answered(t, "seal")
  /\ PersistRun(Exec(t), "failed")
  /\ End(t)
  /\ UNCHANGED <<item, brand, session, raced, activated>> /\ Quiet

\* The awaited call raises: a NovaError if the core refused it, another
\* exception (lost) if no answer came.  _fail_open_execution swallows only a
\* NovaError; an exception that leaves it skips the last persist.
Raise(t, lost) ==
  IF job[t].op = "run" /\ pc[t] \in InSkill /\ Caught(lost)
    THEN Goto(t, "fail") /\ UNCHANGED <<row, job>>
    ELSE /\ IF pc[t] \in {"fail", "seal"} /\ ~lost
              THEN PersistRun(Exec(t), "failed") ELSE UNCHANGED row
         /\ End(t)

Calls == InSkill \cup {"open", "post", "fail", "seal", "decide", "shell"}

\* The core refuses what the state forbids.
Refused(t) ==
  /\ pc[t] \in Calls /\ ~Accepted(t)
  /\ Raise(t, FALSE)
  /\ UNCHANGED <<core, cards, item, brand, session, raced, activated>> /\ Quiet

\* A call fails: refused for another reason, or its answer is lost, before or
\* after it took effect.  A lost answer to open leaves nobody who knows the
\* execution and counts twice.
Break(t) ==
  /\ pc[t] \in Calls
  /\ failures < MaxFailures
  /\ failures' = failures + 1
  /\ \E lost, effect \in BOOLEAN :
       /\ effect => lost /\ Accepted(t)
       /\ IF effect THEN Effect(t) ELSE UNCHANGED <<core, cards>>
       /\ Raise(t, lost)
  /\ hits' = [hits EXCEPT ![Exec(t)] = @ + IF pc[t] = "open" THEN 2 ELSE 1]
  /\ UNCHANGED <<item, brand, session, proposal, requests, raced, acked, activated>>

\* The Nova process restarts and its handlers are gone; those of the core go on.
Restart ==
  LET mine == {t \in Tasks : pc[t] # "idle" /\ job[t].op # "shell"}
  IN  /\ mine # {}
      /\ failures < MaxFailures
      /\ failures' = failures + 1
      /\ pc' = [t \in Tasks |-> IF t \in mine THEN "idle" ELSE pc[t]]
      /\ job' = [t \in Tasks |-> IF t \in mine THEN NoJob ELSE job[t]]
      /\ hits' = [e \in Executions |->
                    hits[e] + IF \E t \in mine : Exec(t) = e THEN 2 ELSE 0]
      /\ UNCHANGED <<core, rows, slack, requests, raced, acked, activated>>

-----------------------------------------------------------------------------
(* Drafts: who asks for them and who decides them *)

\* The execute route of any skill ("drafting" stands for research too); a
\* pick in Slack or /generate/start.
Generate(t, e) ==
  /\ Fresh(e)
  /\ \/ \E skill \in {"social", "drafting"} :
          Begin(t, RunOf(skill, "return", e, NoItem), "open")
     \/ Begin(t, RunOf("social", "post", e, NoItem), "open")
  /\ UNCHANGED <<core, rows, slack, failures, history>>

\* pending_backlog
Backlog == \E e \in Executions : item[e].status = "pending_approval"

\* /cron/generate: brands_due, with the clock left open.
CronGenerate(t, e) ==
  /\ brand # NoBrand /\ ~Backlog
  /\ Fresh(e)
  /\ Begin(t, RunOf("social", "post", e, NoItem), "open")
  /\ UNCHANGED <<core, rows, slack, failures, history>>

\* The buttons of a draft: the item must have its approval id.
SlackDecide(t, e, allow) ==
  /\ e \in cards /\ item[e].linked
  /\ Begin(t, [op |-> "decide", exec |-> e, allow |-> allow, outcome |-> "blocked"], "decide")
  /\ UNCHANGED <<core, rows, slack, failures, history>>

\* sessionDecideApproval: the decision, then the item, in two statements.
ShellDecide(t, e, allow) ==
  /\ approval[e] # "none"
  /\ Begin(t, [op |-> "shell", exec |-> e, allow |-> allow], "shell")
  /\ UNCHANGED <<core, rows, slack, failures, history>>

\* POST /v1/approvals/:approvalId/decide: decideApproval, and nothing more.
DecideOnly(e, allow) ==
  /\ AtOnce
  /\ Decidable(e)
  /\ approval' = [approval EXCEPT ![e] = IF allow THEN "approved" ELSE "denied"]
  /\ bypassed' = bypassed \cup {e}
  /\ UNCHANGED <<status, rows, slack, pc, job, failures, history>>

\* Variant for mutation runs: the core's word for it.
Verdict(allow) == IF allow THEN "approved" ELSE "denied"

ItemStatus(allow) == IF allow THEN "approved" ELSE "rejected"

NoteRace(t) ==
  raced' = IF \E u \in Tasks : pc[u] \in {"post", "posted"} /\ Exec(u) = Exec(t)
             THEN raced \cup {Exec(t)} ELSE raced

\* The decision reaches the item: decide_social saves the item it reads now
\* and, if rejected, goes on to fail the skill; the session route updates it
\* where it is pending or approved.
ShowDecision(t) ==
  /\ \/ /\ pc[t] = "decided"
        /\ SaveItem(Exec(t), [item[Exec(t)] EXCEPT !.status = ItemStatus(job[t].allow)])
        /\ IF job[t].allow THEN End(t) ELSE Goto(t, "give_up") /\ UNCHANGED job
     \/ /\ pc[t] = "updating"
        /\ IF item[Exec(t)].status \in {"pending_approval", "approved"}
             THEN SaveItem(Exec(t), [item[Exec(t)] EXCEPT !.status = ItemStatus(job[t].allow)])
             ELSE UNCHANGED item
        /\ End(t)
  /\ NoteRace(t)
  /\ UNCHANGED <<core, cards, row, brand, session, activated>> /\ Quiet

-----------------------------------------------------------------------------
(* Onboarding *)

\* /onboard/start, from the answer of Slack on: the row of the brand is
\* replaced, but keeps its id, which is what the buttons carry.
StartOnboarding ==
  /\ AtOnce
  /\ SaveSession([NoSession EXCEPT !.thread = requests + 1, !.phase = 1,
                                   !.status = "in_progress"])
  /\ UNCHANGED <<core, item, row, brand, slack, pc, job, failures, history>>

\* A handler that holds a loaded session.
Holding(t) ==
  \/ job[t].op = "next"
  \/ job[t].op = "run" /\ job[t].then = "propose"

\* Variant for mutation runs: the answers of the phase start anew.
OnlyLast(a) == {a}

Recorded(a) == session.answers \cup {a}

\* A reply in the thread is stored at once.
Reply(a) ==
  /\ AtOnce
  /\ session # NoSession
  /\ a \notin session.answers /\ \A k \in acked : k[1] # a
  /\ SaveSession([session EXCEPT !.answers = Recorded(a)])
  /\ acked' = IF \E t \in Tasks : Holding(t) THEN acked ELSE acked \cup {<<a, session.thread>>}
  /\ UNCHANGED <<core, item, row, brand, slack, pc, job, failures, hits, raced, activated>>

\* "next": the following phase is announced before the session is saved;
\* after the last phase the answers are synthesized.
SayNext(t) ==
  /\ session # NoSession
  /\ \/ /\ session.phase < Phases
        /\ Begin(t, [op |-> "next", exec |-> 0,
                     copy |-> [session EXCEPT !.phase = @ + 1]], "tell")
     \/ /\ session.phase >= Phases
        /\ \E e \in Executions : Fresh(e) /\ Begin(t, RunOf("drafting", "propose", e, session), "open")
  /\ UNCHANGED <<core, rows, slack, failures, history>>

Told(t) ==
  /\ pc[t] = "tell"
  /\ SaveSession(job[t].copy)
  /\ End(t)
  /\ UNCHANGED <<core, item, row, brand, slack, requests, failures, history>>

\* Slack does not take the announcement; nothing was saved.
Untold(t) ==
  /\ pc[t] = "tell"
  /\ failures < MaxFailures
  /\ failures' = failures + 1
  /\ End(t)
  /\ UNCHANGED <<core, rows, slack, requests, history>>

\* The buttons of a proposal.  Approve and Reject do not await before they
\* save, and look at no status.  A session without a proposal activates an
\* empty brand under the next version.
ApproveBrand ==
  /\ AtOnce
  /\ proposal
  /\ LET version == IF session.version = 0 THEN brand.version + 1 ELSE session.version
     IN  UpsertBrand(version, session.draft)
  /\ SaveSession([session EXCEPT !.status = "approved"])
  /\ UNCHANGED <<core, item, row, slack, pc, job, failures, hits, raced, acked>>

RejectBrand ==
  /\ AtOnce
  /\ proposal
  /\ SaveSession([session EXCEPT !.status = "rejected"])
  /\ UNCHANGED <<core, item, row, brand, slack, pc, job, failures, history>>

Regenerate(t) ==
  /\ proposal
  /\ \E e \in Executions : Fresh(e) /\ Begin(t, RunOf("drafting", "propose", e, session), "open")
  /\ UNCHANGED <<core, rows, slack, failures, history>>

-----------------------------------------------------------------------------
Handle(t) ==
  \/ \E e \in Executions : Generate(t, e) \/ CronGenerate(t, e)
  \/ \E e \in Executions, allow \in BOOLEAN : SlackDecide(t, e, allow) \/ ShellDecide(t, e, allow)
  \/ SayNext(t)
  \/ Regenerate(t)

Step(t) ==
  \/ Serve(t) \/ Refused(t) \/ Break(t)
  \/ OpenAnswered(t) \/ StartAnswered(t) \/ RetrieveAnswered(t) \/ ModelAnswered(t)
  \/ GiveUpAnswered(t) \/ RequestContinued(t) \/ PostContinued(t)
  \/ CompleteAnswered(t) \/ FinishAnswered(t) \/ RunReturns(t)
  \/ FailAnswered(t) \/ SealAnswered(t)
  \/ ShowDecision(t) \/ Told(t) \/ Untold(t)

Next ==
  \/ \E t \in Tasks : Handle(t) \/ Step(t)
  \/ \E e \in Executions, allow \in BOOLEAN : DecideOnly(e, allow)
  \/ StartOnboarding \/ ApproveBrand \/ RejectBrand
  \/ \E a \in Answers : Reply(a)
  \/ Restart

Spec == Init /\ [][Next]_vars

-----------------------------------------------------------------------------
(* Properties *)

TypeOK ==
  /\ status \in [Executions -> Statuses \cup {Absent}]
  /\ approval \in [Executions -> {"none", "pending", "approved", "denied"}]
  /\ bypassed \subseteq Executions
  /\ item \in [Executions ->
       [status : {"none", "pending_approval", "approved", "rejected"}, linked : BOOLEAN]]
  /\ row \in [Executions -> {"none", "started", "failed", "waiting_approval", "completed"}]
  /\ brand \in [version : Nat, content : Contents]
  /\ session.phase \in 0..Awaiting /\ session.answers \subseteq Answers
  /\ session.draft \in Contents
  /\ session.status \in {"none", "in_progress", "proposed", "approved", "rejected"}
  /\ pc \in [Tasks -> Calls \cup {"idle", "requested", "posted", "decided", "updating", "tell"}]
  /\ \A t \in Tasks : Exec(t) \in 0..MaxExecutions
  /\ requests \in 0..MaxRequests /\ failures \in 0..MaxFailures

\* What an item shows when it tells the whole story of an approval.
Shown(a) ==
  CASE a = "none" -> "none" [] a = "pending" -> "pending_approval"
    [] a = "approved" -> "approved" [] a = "denied" -> "rejected"

\* No failure and no race makes an item show a decision the core did not
\* take: approved and rejected items have such an approval, whether it was
\* decided in Slack, in the shell or in both at once.  A draft the approvals
\* route decided stays pending, and counts as backlog, whoever else works on
\* it.  And when nobody is working on it and no error was raised for it,
\* Nova's rows tell what the core knows.  An item shows the state of its
\* approval and carries its id, so that a pending draft can be decided and
\* does not block the cadence for ever; the exceptions are an item decided
\* while its draft was being posted, which the save after the post turns
\* back to pending, and one decided on the approvals route, whose execution
\* goes on waiting.  The run's row records what became of its execution.
ItemTellsApproval ==
  \A e \in Executions :
    /\ item[e].status \in {"approved", "rejected"} => item[e].status = Shown(approval[e])
    /\ e \in bypassed => item[e].status = "pending_approval"
    /\ ~Busy(e) /\ hits[e] = 0 =>
         /\ item[e].linked <=> approval[e] # "none"
         /\ \/ item[e].status = Shown(approval[e])
            \/ e \in raced \cup bypassed /\ item[e].status = "pending_approval"
         /\ e \in bypassed => status[e] = "waiting_approval"
         /\ status[e] # Absent =>
              row[e] = IF approval[e] # "none" THEN "waiting_approval"
                       ELSE IF status[e] = "completed" THEN "completed" ELSE "failed"

\* No single error leaves an execution open that nobody works on: the except
\* clauses seal it.  It stays open only for an approved draft that waits to
\* be published, or after two errors (a lost answer to open and a restart
\* are that many).
UnsealedIsExplained ==
  \A e \in Executions : ~Busy(e) /\ status[e] = "running" =>
    approval[e] = "approved" \/ hits[e] >= 2

\* The history of a brand: versions without gaps, each naming one content
\* for ever although regenerated proposals, approvals and restarted
\* interviews interleave, and each content not empty is the draft of an
\* execution that was sealed as completed.
BrandHistory ==
  /\ {k[1] : k \in activated} = 1..brand.version
  /\ \A k, l \in activated : k[1] = l[1] => k = l
  /\ \A k \in activated : k[2] \in Executions => status[k[2]] = "completed"

\* An answer that was acknowledged while no handler held the session is in
\* the interview for as long as that thread is current, whatever handlers
\* save later.
AnswersKept ==
  \A k \in acked : k[2] = session.thread => k[1] \in session.answers
=============================================================================
