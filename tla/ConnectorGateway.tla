-------------------------- MODULE ConnectorGateway --------------------------
(***************************************************************************)
(* Publishing one approved social artifact: requestConnectorAction and     *)
(* finishAction (apps/core-api/src/connectors/gateway.ts), the session     *)
(* routes around them (apps/core-api/src/shell.ts), Nova's decide_social   *)
(* and publish_social (apps/nova/src/verityos_nova/runtime/engine.py), the *)
(* approvals route (apps/core-api/src/server.ts), and the outcomes of      *)
(* MetaFacebookConnector (packages/connectors).                            *)
(*                                                                         *)
(* A worker is one HTTP request in progress; a step is one statement or    *)
(* one transaction on the pool, or the call to the provider.  PostgreSQL   *)
(* and Meta are not one transaction: delivered is what Meta did, whether   *)
(* or not anybody was told.                                                *)
(***************************************************************************)
EXTENDS Integers, Sequences, FiniteSets, ExecutionStatus

CONSTANTS
  Keys,       \* idempotency keys: an action and its scheduled_for
  Schedules,  \* the keys whose action is schedule_post
  Workers,    \* requests in progress at once
  Failures,   \* BOOLEAN: may a request die between two steps?
  MaxCalls    \* bound on the requests of a behavior

\* (A key is not one of the marks of cut.)
ASSUME KeysAssumption == Keys \cap {"decision", "bypass"} = {}
ASSUME SchedulesAssumption == Schedules \subseteq Keys
ASSUME GatewayFailuresAssumption == Failures \in BOOLEAN
ASSUME GatewayMaxCallsAssumption == MaxCalls \in Nat

VARIABLES
  exec,       \* the execution's status
  approval,   \* the status of its latest approval row
  item,       \* social.content_items.status
  action,     \* command.connector_actions: status by idempotency key
  tools,      \* the tool events, in order: [type, key]
  sent,       \* calls made to the provider with each key
  delivered,  \* whether the provider performed the call
  pc,         \* the next step of each worker
  call,       \* the request each worker serves
  mem,        \* what each worker has read
  calls,      \* requests begun so far
  cut         \* history: what nobody will finish: keys, and "decision", whose
              \* request died; "bypass" after a decision on the approvals route

dbVars == <<exec, approval, item, action, tools>>
providerVars == <<sent, delivered>>
workerVars == <<pc, call, mem>>
vars == <<dbVars, providerVars, workerVars, calls, cut>>

-----------------------------------------------------------------------------
NoCall == [op |-> "none"]

\* item: the status Nova loaded.  social: the status the gateway loaded.
\* allowed: the policy decision.  result: the action status returned.
NoMem == [item |-> "none", social |-> "none", allowed |-> FALSE, result |-> "none"]

Final == {"succeeded", "failed", "needs_review"}
ItemStatuses == {"pending_approval", "approved", "rejected", "publishing", "scheduling",
                 "posted", "scheduled", "needs_review", "error"}

Key(w) == call[w].key

Goto(w, label) == pc' = [pc EXCEPT ![w] = label]

Remember(w, field, value) == mem' = [mem EXCEPT ![w][field] = value]

Finish(w) ==
  /\ pc' = [pc EXCEPT ![w] = "idle"]
  /\ call' = [call EXCEPT ![w] = NoCall]
  /\ mem' = [mem EXCEPT ![w] = NoMem]

Accept(w, request, label) ==
  /\ pc[w] = "idle"
  /\ calls < MaxCalls
  /\ calls' = calls + 1
  /\ call' = [call EXCEPT ![w] = request]
  /\ Goto(w, label)
  /\ UNCHANGED <<dbVars, providerVars, mem, cut>>

RecordTool(k, types) ==
  tools' = tools \o [i \in DOMAIN types |-> [type |-> types[i], key |-> k]]

\* The state engine.run leaves behind: a draft that waits for its approval.
Init ==
  /\ exec = "waiting_approval"
  /\ approval = "pending"
  /\ item = "pending_approval"
  /\ action = [k \in Keys |-> "none"]
  /\ tools = <<>>
  /\ sent = [k \in Keys |-> 0]
  /\ delivered = [k \in Keys |-> FALSE]
  /\ pc = [w \in Workers |-> "idle"]
  /\ call = [w \in Workers |-> NoCall]
  /\ mem = [w \in Workers |-> NoMem]
  /\ calls = 0 /\ cut = {}

-----------------------------------------------------------------------------
(* Deciding the approval: sessionDecideApproval, decide_social, and the     *)
(* approvals route, which knows neither the item nor the execution.        *)

BeginDecide(w, allow, via) ==
  Accept(w, [op |-> "decide", via |-> via, allow |-> allow], "decide")

\* Variant for mutation runs: an approval may still be turned down.
NotYetDenied == approval # "denied"

\* WHERE id = $1 AND status = 'pending'
Undecided == approval = "pending"

\* decideApproval: UPDATE of an undecided row, which is all that the
\* approvals route does.
DecideRow(w) ==
  /\ pc[w] = "decide"
  /\ Undecided
  /\ approval' = IF call[w].allow THEN "approved" ELSE "denied"
  /\ IF call[w].via = "approvals"
       THEN Finish(w) /\ cut' = cut \cup {"bypass"}
       ELSE Goto(w, "resume") /\ UNCHANGED <<call, mem, cut>>
  /\ UNCHANGED <<exec, item, action, tools, providerVars, calls>>

\* The rest of decideExecutionApproval: an approval resumes the execution.
\* (Execution has this at the grain of its reads and writes.)
Resume(w) ==
  /\ pc[w] = "resume"
  /\ exec' = IF call[w].allow /\ exec = "waiting_approval" THEN "running" ELSE exec
  /\ Goto(w, IF call[w].via = "nova" THEN "load_item" ELSE "mark_item")
  /\ UNCHANGED <<approval, item, action, tools, providerVars, call, mem, calls, cut>>

\* Variant for mutation runs: the new draft's status is forgotten.
OnlyApproved == {"approved"}

\* AND status IN ('pending_approval', 'approved')
Markable == {"pending_approval", "approved"}

\* The session route updates the row if it is still in such a status.
MarkItem(w) ==
  /\ pc[w] = "mark_item"
  /\ item' = IF item \in Markable
               THEN IF call[w].allow THEN "approved" ELSE "rejected"
               ELSE item
  /\ Finish(w)
  /\ UNCHANGED <<exec, approval, action, tools, providerVars, calls, cut>>

\* Nova loads the row and later saves all of it.
LoadItem(w) ==
  /\ pc[w] = "load_item"
  /\ Remember(w, "item", item)
  /\ Goto(w, "save_decided")
  /\ UNCHANGED <<dbVars, providerVars, call, calls, cut>>

SaveDecided(w) ==
  /\ pc[w] = "save_decided"
  /\ item' = IF call[w].allow THEN "approved" ELSE "rejected"
  /\ IF call[w].allow THEN Finish(w)
     ELSE Goto(w, "block") /\ UNCHANGED <<call, mem>>
  /\ UNCHANGED <<exec, approval, action, tools, providerVars, calls, cut>>

\* finalizeGovernedExecution, as one step (Execution has its races): it
\* refuses a terminal execution, and completion while an approval waits.
Finalize(outcome) ==
  exec' = IF \/ exec \in TerminalStatuses
             \/ exec = "waiting_approval" /\ outcome = "completed"
            THEN exec ELSE outcome

\* A rejection blocks the execution: skill_fail and finalize_execution.
Block(w) ==
  /\ pc[w] = "block"
  /\ Finalize("blocked")
  /\ Finish(w)
  /\ UNCHANGED <<approval, item, action, tools, providerVars, calls, cut>>

-----------------------------------------------------------------------------
(* requestConnectorAction *)

\* A session asks the gateway itself; Nova loads the item first.
BeginPublish(w, k, via) ==
  Accept(w, [op |-> "publish", via |-> via, key |-> k],
         IF via = "nova" THEN "load_draft" ELSE "execution")

Publishable == {"approved", "publishing", "scheduling", "needs_review"}

LoadDraft(w) ==
  /\ pc[w] = "load_draft"
  /\ IF item \in Publishable
       THEN Remember(w, "item", item) /\ Goto(w, "execution") /\ UNCHANGED call
       ELSE Finish(w)
  /\ UNCHANGED <<dbVars, providerVars, calls, cut>>

\* getExecution: terminal and waiting executions are refused, once.
CheckExecution(w) ==
  /\ pc[w] = "execution"
  /\ IF exec \in TerminalStatuses \cup {"waiting_approval"}
       THEN Finish(w)
       ELSE Goto(w, "item") /\ UNCHANGED <<call, mem>>
  /\ UNCHANGED <<dbVars, providerVars, calls, cut>>

CheckItem(w) ==
  /\ pc[w] = "item"
  /\ IF item = "pending_approval"
       THEN Finish(w)
       ELSE Remember(w, "social", item) /\ Goto(w, "policy") /\ UNCHANGED call
  /\ UNCHANGED <<dbVars, providerVars, calls, cut>>

\* evaluateConnectorAction over the latest approval; configured stands for
\* the connector, binding and role tests, which may go either way.
EvaluatePolicy(w) ==
  /\ pc[w] = "policy"
  /\ \E configured \in BOOLEAN :
       Remember(w, "allowed", configured /\ approval = "approved")
  /\ Goto(w, "lookup")
  /\ UNCHANGED <<dbVars, providerVars, call, calls, cut>>

\* loadActionByKey: an existing row is the answer, whatever the decision.
LookupKey(w) ==
  /\ pc[w] = "lookup"
  /\ IF action[Key(w)] # "none"
       THEN Remember(w, "result", action[Key(w)]) /\ Goto(w, "answer")
       ELSE Goto(w, IF mem[w].allowed THEN "authorize" ELSE "deny") /\ UNCHANGED mem
  /\ UNCHANGED <<dbVars, providerVars, call, calls, cut>>

\* tool.requested and tool.denied, then the 403.  (Two commits; nothing
\* reads between them.)
Deny(w) ==
  /\ pc[w] = "deny"
  /\ RecordTool(Key(w), <<"tool.requested", "tool.denied">>)
  /\ Finish(w)
  /\ UNCHANGED <<exec, approval, item, action, providerVars, calls, cut>>

\* Variants for mutation runs: the key is unique among finished actions
\* only, or may be reused after a failure.
FinishedDuplicate(k) == action[k] \in Final
RetryFailed(k) == action[k] \notin {"none", "failed"}

\* UNIQUE (organization_id, idempotency_key)
Duplicate(k) == action[k] # "none"

\* The intent, one transaction.  On a unique violation (another request
\* committed the same key meanwhile) it rolls back and answers with that row.
Authorize(w) ==
  /\ pc[w] = "authorize"
  /\ IF Duplicate(Key(w))
       THEN /\ Remember(w, "result", action[Key(w)])
            /\ Goto(w, "answer")
            /\ UNCHANGED <<action, tools>>
       ELSE /\ action' = [action EXCEPT ![Key(w)] = "authorized"]
            /\ RecordTool(Key(w), <<"tool.requested", "tool.authorized">>)
            /\ Goto(w, "mark_social")
            /\ UNCHANGED mem
  /\ UNCHANGED <<exec, approval, item, providerVars, call, calls, cut>>

\* UPDATE .. WHERE status IN ('approved','publishing'), only if the status
\* loaded earlier was one of these.
MarkSocial(w) ==
  /\ pc[w] = "mark_social"
  /\ item' = IF {mem[w].social, item} \subseteq {"approved", "publishing"}
               THEN IF Key(w) \in Schedules THEN "scheduling" ELSE "publishing"
               ELSE item
  /\ Goto(w, "execute")
  /\ UNCHANGED <<exec, approval, action, tools, providerVars, call, mem, calls, cut>>

\* Variant for mutation runs: the request throws and leaves its intent.
ThrowUnconfigured(w) ==
  /\ pc[w] = "execute"
  /\ Finish(w)
  /\ UNCHANGED <<dbVars, providerVars, calls, cut>>

\* No secret or page: the action fails without a call.
NotConfigured(w) ==
  /\ pc[w] = "execute"
  /\ Remember(w, "result", "failed")
  /\ Goto(w, "finish_row")
  /\ call' = [call EXCEPT ![w].op = "unconfigured"]
  /\ UNCHANGED <<dbVars, providerVars, calls, cut>>

MarkExecuting(w) ==
  /\ pc[w] = "execute"
  /\ action' = [action EXCEPT ![Key(w)] = "executing"]
  /\ Goto(w, "call")
  /\ UNCHANGED <<exec, approval, item, tools, providerVars, call, mem, calls, cut>>

\* parseScheduleUnix throws before anything is sent.
InvalidSchedule(w) ==
  /\ pc[w] = "call"
  /\ Key(w) \in Schedules
  /\ Remember(w, "result", "failed")
  /\ Goto(w, "finish_row")
  /\ UNCHANGED <<dbVars, providerVars, call, calls, cut>>

\* The POST to the Graph API; Meta performs it or not.
CallProvider(w) ==
  /\ pc[w] = "call"
  /\ sent' = [sent EXCEPT ![Key(w)] = @ + 1]
  /\ \E done \in BOOLEAN : delivered' = [delivered EXCEPT ![Key(w)] = @ \/ done]
  /\ Goto(w, "response")
  /\ UNCHANGED <<dbVars, call, mem, calls, cut>>

\* Variant for mutation runs: a timeout is taken for a failure.
Impatient(done) == {"failed", IF done THEN "succeeded" ELSE "failed"}

\* What the connector may conclude: an id means it was done, a 4xx means it
\* was not, and a timeout, 5xx, 408, 429 or unreadable body means neither.
Verdicts(done) == {"needs_review", IF done THEN "succeeded" ELSE "failed"}

Respond(w) ==
  /\ pc[w] = "response"
  /\ \E v \in Verdicts(delivered[Key(w)]) : Remember(w, "result", v)
  /\ Goto(w, "finish_row")
  /\ UNCHANGED <<dbVars, providerVars, call, calls, cut>>

-----------------------------------------------------------------------------
(* finishAction: three commits. *)

FinishRow(w) ==
  /\ pc[w] = "finish_row"
  /\ action' = [action EXCEPT ![Key(w)] = mem[w].result]
  /\ Goto(w, "finish_event")
  /\ UNCHANGED <<exec, approval, item, tools, providerVars, call, mem, calls, cut>>

FinishEvent(w) ==
  /\ pc[w] = "finish_event"
  /\ RecordTool(Key(w), <<IF mem[w].result = "succeeded" THEN "tool.completed"
                          ELSE "tool.failed">>)
  /\ Goto(w, "finish_social")
  /\ UNCHANGED <<exec, approval, item, action, providerVars, call, mem, calls, cut>>

\* Variant for mutation runs: a schedule reads as a post.
AlwaysPosted(result, k) ==
  CASE result = "succeeded"    -> "posted"
    [] result = "needs_review" -> "needs_review"
    [] result = "failed"       -> "error"

\* Variant for mutation runs: the item gets the status of the action.
RawStatus(result, k) == IF k \in Schedules /\ result = "succeeded" THEN "scheduled" ELSE result

\* The item status an action status stands for.
SocialStatus(result, k) ==
  CASE result = "succeeded"    -> IF k \in Schedules THEN "scheduled" ELSE "posted"
    [] result = "needs_review" -> "needs_review"
    [] result = "failed"       -> "error"

\* updateSocialItem, without a guard; an unconfigured connector then throws.
FinishSocial(w) ==
  /\ pc[w] = "finish_social"
  /\ item' = SocialStatus(mem[w].result, Key(w))
  /\ IF call[w].op = "unconfigured" THEN Finish(w)
     ELSE Goto(w, "answer") /\ UNCHANGED <<call, mem>>
  /\ UNCHANGED <<exec, approval, action, tools, providerVars, calls, cut>>

-----------------------------------------------------------------------------
(* After the gateway's answer. *)

\* Variant for mutation runs: anything but a failure completes.
NotFailed(result) == result \in {"succeeded", "needs_review"}

\* The result that completes the execution.
Completes(result) == result = "succeeded"

\* Variant for mutation runs: the session leaves the execution open.
AnswerOnly(w) ==
  /\ pc[w] = "answer"
  /\ call[w].via = "session"
  /\ Finish(w)
  /\ UNCHANGED <<dbVars, providerVars, calls, cut>>

\* sessionConnectorAction finalizes after a success that finds the execution open.
SessionAnswer(w) ==
  /\ pc[w] = "answer"
  /\ call[w].via = "session"
  /\ IF Completes(mem[w].result) THEN Finalize("completed") ELSE UNCHANGED exec
  /\ Finish(w)
  /\ UNCHANGED <<approval, item, action, tools, providerVars, calls, cut>>

\* publish_social saves the whole row it loaded before the call, with the
\* status of the result, or with the old one if the result is unfinished.
SaveItem(w) ==
  /\ pc[w] = "answer"
  /\ call[w].via = "nova"
  /\ item' = IF mem[w].result \in Final THEN SocialStatus(mem[w].result, Key(w))
             ELSE mem[w].item
  /\ Goto(w, "close")
  /\ UNCHANGED <<exec, approval, action, tools, providerVars, call, mem, calls, cut>>

\* Then the skill's last event and the finalization; needs_review stops.
Close(w) ==
  /\ pc[w] = "close"
  /\ IF Completes(mem[w].result) THEN Finalize("completed")
     ELSE IF mem[w].result = "needs_review" THEN UNCHANGED exec
     ELSE Finalize("failed")
  /\ Finish(w)
  /\ UNCHANGED <<approval, item, action, tools, providerVars, calls, cut>>

-----------------------------------------------------------------------------
\* decideApproval found no pending row and threw.
Throw(w) ==
  /\ pc[w] = "decide"
  /\ ~Undecided
  /\ Finish(w)
  /\ UNCHANGED <<dbVars, providerVars, calls, cut>>

\* The process or its connection fails between two steps.
Die(w) ==
  /\ Failures
  /\ pc[w] # "idle"
  /\ cut' = cut \cup {IF call[w].op = "decide" THEN "decision" ELSE Key(w)}
  /\ Finish(w)
  /\ UNCHANGED <<dbVars, providerVars, calls>>

Begin(w) ==
  \/ \E via \in {"session", "nova", "approvals"}, allow \in BOOLEAN : BeginDecide(w, allow, via)
  \/ \E via \in {"session", "nova"}, k \in Keys : BeginPublish(w, k, via)

Step(w) ==
  \/ DecideRow(w)
  \/ Resume(w)
  \/ MarkItem(w)
  \/ LoadItem(w)
  \/ SaveDecided(w)
  \/ Block(w)
  \/ LoadDraft(w)
  \/ CheckExecution(w)
  \/ CheckItem(w)
  \/ EvaluatePolicy(w)
  \/ LookupKey(w)
  \/ Deny(w)
  \/ Authorize(w)
  \/ MarkSocial(w)
  \/ NotConfigured(w)
  \/ MarkExecuting(w)
  \/ InvalidSchedule(w)
  \/ CallProvider(w)
  \/ Respond(w)
  \/ FinishRow(w)
  \/ FinishEvent(w)
  \/ FinishSocial(w)
  \/ SessionAnswer(w)
  \/ SaveItem(w)
  \/ Close(w)
  \/ Throw(w)

Next == \E w \in Workers : Begin(w) \/ Step(w) \/ Die(w)

Spec == Init /\ [][Next]_vars

-----------------------------------------------------------------------------
(* Properties *)

ActionStatuses == {"none", "authorized", "executing"} \cup Final
ToolTypes == {"tool.requested", "tool.denied", "tool.authorized", "tool.completed", "tool.failed"}
Entrances == {"session", "nova"}

DecisionCalls == [op : {"decide"}, via : Entrances \cup {"approvals"}, allow : BOOLEAN]
PublishCalls == [op : {"publish", "unconfigured"}, via : Entrances, key : Keys]
Locals == [item : ItemStatuses \cup {"none"}, social : ItemStatuses \cup {"none"},
           allowed : BOOLEAN, result : ActionStatuses]

\* The steps of a decision, of a publication before and after it holds the
\* key, and while it does.
DecisionSteps == {"decide", "resume", "mark_item", "load_item", "save_decided", "block"}
AskSteps == {"load_draft", "execution", "item", "policy", "lookup", "deny", "authorize"}
HoldSteps == {"mark_social", "execute", "call", "response",
              "finish_row", "finish_event", "finish_social"}
AnswerSteps == {"answer", "close"}
PublishSteps == AskSteps \cup HoldSteps \cup AnswerSteps

\* What a request at step s that holds key k, and has result r, relies on.
Holds(s, k, r) ==
  /\ s \in {"mark_social", "execute"} => action[k] = "authorized"
  /\ s \in {"call", "response"} => action[k] = "executing"
  /\ s = "finish_row" =>
       /\ action[k] \in {"authorized", "executing"} /\ r \in Final
       /\ r = "succeeded" => delivered[k]
       /\ r = "failed" => ~delivered[k]
  /\ s \in {"finish_event", "finish_social"} => r \in Final /\ action[k] = r

\* What the step a request is at says about it and about the rows.
AtItsStep(w) ==
  /\ pc[w] = "idle" => call[w] = NoCall /\ mem[w] = NoMem
  /\ pc[w] \in DecisionSteps =>
       /\ call[w] \in DecisionCalls
       /\ pc[w] # "decide" => approval = (IF call[w].allow THEN "approved" ELSE "denied")
       /\ pc[w] = "block" => ~call[w].allow
  /\ pc[w] \in PublishSteps =>
       /\ call[w] \in PublishCalls
       /\ pc[w] \in HoldSteps => Holds(pc[w], Key(w), mem[w].result)
       /\ pc[w] = "call" => sent[Key(w)] = 0
       /\ call[w].via = "nova" /\ pc[w] # "load_draft" => mem[w].item \in Publishable
  /\ pc[w] = "authorize" => mem[w].allowed
  /\ mem[w].allowed => approval = "approved"
  /\ pc[w] \in AnswerSteps =>
       /\ mem[w].result # "none"
       /\ mem[w].result \in Final => action[Key(w)] = mem[w].result

Holder(w, k) == pc[w] \in HoldSteps /\ Key(w) = k

Typed ==
  /\ exec \in Statuses
  /\ approval \in {"pending", "approved", "denied"}
  /\ item \in ItemStatuses
  /\ action \in [Keys -> ActionStatuses]
  /\ tools \in Seq([type : ToolTypes, key : Keys])
  /\ sent \in [Keys -> Nat]
  /\ delivered \in [Keys -> BOOLEAN]
  /\ pc \in [Workers -> {"idle"} \cup DecisionSteps \cup PublishSteps]
  /\ call \in [Workers -> {NoCall} \cup DecisionCalls \cup PublishCalls]
  /\ mem \in [Workers -> Locals]
  /\ calls \in 0..MaxCalls
  /\ cut \subseteq Keys \cup {"decision", "bypass"}

\* Rows, requests and the record of the tool have their types, every request
\* is at a step of its operation with the rows that step relies on, and the
\* intent of a key belongs to one request at most, however many ask for it.
TypeOK ==
  /\ Typed
  /\ \A w \in Workers : AtItsStep(w)
  /\ \A v, w \in Workers : \A k \in Keys : Holder(v, k) /\ Holder(w, k) => v = w

ToolEvents(k, types) == {i \in DOMAIN tools : tools[i].key = k /\ tools[i].type \in types}

\* However often a request is repeated, raced, replayed or cut off, the
\* provider is called at most once with one idempotency key
\* (docs/architecture/connectors.md, line 73).
AtMostOneCall == \A k \in Keys : sent[k] <= 1

\* No call leaves without its durable intent: the approval, exactly one
\* tool.authorized event and an action row past 'authorized'
\* (docs/architecture/connectors.md, lines 60 to 65).
IntentBeforeCall ==
  \A k \in Keys : sent[k] > 0 =>
    /\ approval = "approved"
    /\ Cardinality(ToolEvents(k, {"tool.authorized"})) = 1
    /\ action[k] \in {"executing"} \cup Final

\* Nothing claims more than is known, from the provider to the item.  An
\* action succeeded, and its completion is recorded, only if Meta did it; it
\* failed only if Meta did not.  Posted and scheduled appear on the item only
\* when an action of that kind succeeded (docs/architecture/connectors.md,
\* line 103), also when Nova writes the whole row back from a copy loaded
\* before the call.  An execution is completed only by an action that
\* succeeded, and a blocked one was never acted on.
TruthfulOutcome ==
  /\ \A k \in Keys :
       /\ action[k] = "succeeded" \/ ToolEvents(k, {"tool.completed"}) # {} => delivered[k]
       /\ action[k] = "failed" => ~delivered[k]
  /\ item = "posted" => \E k \in Keys \ Schedules : action[k] = "succeeded"
  /\ item = "scheduled" => \E k \in Schedules : action[k] = "succeeded"
  /\ exec = "completed" => \E k \in Keys : action[k] = "succeeded"
  /\ exec = "blocked" => approval = "denied" /\ \A k \in Keys : sent[k] = 0

\* When everything has come to rest, every intent is settled, one that
\* succeeded has closed the execution, whoever of several requests got the
\* answer, and a decision has reached the item it is about.  Two things are
\* left undone, for nothing in the code takes them up: what a request that
\* died was at, and a decision on the approvals route, after which the item
\* and the execution wait for the decided approval for ever, whoever else
\* was deciding or publishing.
SettledAtRest ==
  (\A w \in Workers : pc[w] = "idle") =>
    /\ \A k \in Keys \ cut :
         /\ action[k] \in {"none"} \cup Final
         /\ action[k] = "succeeded" => exec \in TerminalStatuses
    /\ approval # "pending" /\ item = "pending_approval" => {"decision", "bypass"} \cap cut # {}
    /\ "bypass" \in cut => item = "pending_approval" /\ exec = "waiting_approval"

\* Never a false failure (docs/architecture/connectors.md, line 105;
\* apps/nova/tests/test_phase9.py, line 149): an execution is not failed
\* when its action succeeded or may have.
NoFalseFailure ==
  exec = "failed" => \A k \in Keys : action[k] \notin {"succeeded", "needs_review"}
=============================================================================
