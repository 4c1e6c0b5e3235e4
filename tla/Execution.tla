----------------------------- MODULE Execution -----------------------------
(***************************************************************************)
(* The governed execution lifecycle: openGovernedExecution,                *)
(* retrieveForExecution, executeModelForExecution and                      *)
(* finalizeGovernedExecution (apps/core-api/src/execution/service.ts),     *)
(* recordSkillLifecycleEvent, requestExecutionApproval and                 *)
(* decideExecutionApproval (execution/lifecycle.ts), the session route     *)
(* that decides an approval (server.ts), and sealExecution                 *)
(* (packages/audit-kernel/src/execution/finalize.ts).                      *)
(*                                                                         *)
(* A worker is one HTTP request in progress.  A step is one committed      *)
(* transaction or one read on the pool, so the steps of concurrent         *)
(* requests on the same execution interleave; Ledger shows why a           *)
(* transaction that appends to the chain may be taken as one step.  What a *)
(* worker read is kept in seen and parent and may be stale when used.      *)
(***************************************************************************)
EXTENDS Integers, Sequences, FiniteSets, ExecutionStatus

CONSTANTS
  Executions,
  Workers,     \* requests in progress at once
  Approvals,   \* approval row ids
  Users,       \* organization members
  Approvers,   \* those whose role may decide approvals
  Operations,  \* the API operations clients use in this instance
  Failures,    \* BOOLEAN: may a request die between two steps?
  MaxCalls     \* bound on the requests of a behavior

AllOperations == {"open", "skill", "model", "retrieve", "request_approval",
                  "decide", "decide_only", "finalize"}

ASSUME ApproversAssumption == Approvers \subseteq Users
ASSUME OperationsAssumption == Operations \subseteq AllOperations
ASSUME FailuresAssumption == Failures \in BOOLEAN
ASSUME MaxCallsAssumption == MaxCalls \in Nat

VARIABLES
  status,     \* executions.status
  events,     \* execution_events: [type, parents, about] by event_sequence
  ledger,     \* this execution's ledger entries, in order: [type, graph, outcome]
  approvals,  \* command.approvals: [status, exec, requester, decider]
  pc,         \* the next step of each worker
  call,       \* the request each worker serves
  seen,       \* the execution status a worker read
  parent,     \* the event a worker will name as parent (0: none)
  calls,      \* requests begun so far
  cut         \* history: approvals whose decision request died half way

dbVars == <<status, events, ledger, approvals>>
workerVars == <<pc, call, seen, parent>>
vars == <<dbVars, workerVars, calls, cut>>

-----------------------------------------------------------------------------
\* appendExecutionEventInTransaction refuses any other event type.
EXECUTION_EVENT_TYPES ==
  {"execution.created", "identity.authenticated", "authorization.started",
   "authorization.allowed", "authorization.denied", "risk.classified",
   "knowledge.retrieval.started", "knowledge.retrieval.completed",
   "knowledge.retrieval.insufficient", "model.routing.started", "model.selected",
   "model.routing.failed", "model.execution.started", "model.execution.completed",
   "model.execution.failed", "nova.skill.started", "nova.skill.completed",
   "nova.skill.failed", "validation.started", "validation.passed",
   "validation.failed", "approval.requested", "approval.approved",
   "approval.rejected", "approval.expired", "tool.requested", "tool.authorized",
   "tool.denied", "tool.completed", "tool.failed", "release.started",
   "release.completed", "release.blocked", "execution.failed",
   "execution.blocked", "execution.completed", "audit.checkpoint.sealed"}

NoCall == [op |-> "none"]
NoApproval == [status |-> "unused"]
NoGraph == [events |-> <<>>, status |-> Absent]

Outcomes == {"completed", "failed", "blocked"}

Exec(w) == call[w].exec

\* Callers learn the id of an execution when the request that opens it ends,
\* or afterwards from the record list, if it died half way.
Known(e) ==
  /\ status[e] # Absent
  /\ \A w \in Workers : ~(call[w].op = "open" /\ Exec(w) = e)

\* The check of every operation but a decision: not terminal.
Live(e) == Known(e) /\ status[e] \notin TerminalStatuses

\* Variant for mutation runs: the first event gets a parent too.
AlwaysParent(n) == {n}

\* The parent list of a first event: lastEventId, or nothing.
ParentSet(n) == IF n = 0 THEN {} ELSE {n}

Event(type, parents, about) == [type |-> type, parents |-> parents, about |-> about]

\* appendExecutionEventInTransaction: next sequence, under the row lock.
Record(e, type, n, about) ==
  events' = [events EXCEPT ![e] = Append(@, Event(type, ParentSet(n), about))]

LedgerEntry(type, graph) == [type |-> type, graph |-> graph]

AppendLedger(e, type, graph) ==
  ledger' = [ledger EXCEPT ![e] = Append(@, LedgerEntry(type, graph))]

\* Variant for mutation runs: the graph is hashed before the event that
\* seals it is appended.
GraphWithoutSeal(es, st) == [events |-> SubSeq(es, 1, Len(es) - 1), status |-> st]

\* computeExecutionGraphHash of buildExecutionGraphV2: the graph itself, its
\* events and the status written in it.
GraphOf(es, st) == [events |-> es, status |-> st]

Goto(w, label) == pc' = [pc EXCEPT ![w] = label]

Finish(w) ==
  /\ pc' = [pc EXCEPT ![w] = "idle"]
  /\ call' = [call EXCEPT ![w] = NoCall]
  /\ seen' = [seen EXCEPT ![w] = Absent]
  /\ parent' = [parent EXCEPT ![w] = 0]

\* A new request: its arguments, and the status its first read returned.
Accept(w, request, label) ==
  /\ pc[w] = "idle"
  /\ request.op \in Operations
  /\ calls < MaxCalls
  /\ calls' = calls + 1
  /\ call' = [call EXCEPT ![w] = request]
  /\ seen' = [seen EXCEPT ![w] = status[request.exec]]
  /\ Goto(w, label)

Init ==
  /\ status = [e \in Executions |-> Absent]
  /\ events = [e \in Executions |-> <<>>]
  /\ ledger = [e \in Executions |-> <<>>]
  /\ approvals = [a \in Approvals |-> NoApproval]
  /\ pc = [w \in Workers |-> "idle"]
  /\ call = [w \in Workers |-> NoCall]
  /\ seen = [w \in Workers |-> Absent]
  /\ parent = [w \in Workers |-> 0]
  /\ calls = 0
  /\ cut = {}

-----------------------------------------------------------------------------
(* openGovernedExecution: four commits. *)

OpenExecution(w, e) ==
  /\ status[e] = Absent
  /\ Accept(w, [op |-> "open", exec |-> e], "created")
  /\ status' = [status EXCEPT ![e] = "created"]
  /\ UNCHANGED <<events, ledger, approvals, parent, cut>>

RecordCreated(w) ==
  /\ pc[w] = "created"
  /\ Record(Exec(w), "execution.created", 0, "none")
  /\ parent' = [parent EXCEPT ![w] = Len(events[Exec(w)]) + 1]
  /\ Goto(w, "authenticated")
  /\ UNCHANGED <<status, ledger, approvals, call, seen, calls, cut>>

RecordAuthenticated(w) ==
  /\ pc[w] = "authenticated"
  /\ Record(Exec(w), "identity.authenticated", parent[w], "none")
  /\ Goto(w, "request_opened")
  /\ UNCHANGED <<status, ledger, approvals, call, seen, parent, calls, cut>>

\* appendLedgerEntry request_opened, which moves the row to running.
AppendRequestOpened(w) ==
  /\ pc[w] = "request_opened"
  /\ CanMove(status[Exec(w)], "running")
  /\ status' = [status EXCEPT ![Exec(w)] = "running"]
  /\ AppendLedger(Exec(w), "request_opened", NoGraph)
  /\ Finish(w)
  /\ UNCHANGED <<events, approvals, calls, cut>>

-----------------------------------------------------------------------------
(* Work on an open execution: the status is checked once, then events are  *)
(* appended one commit at a time, each the child of the one before.        *)

WorkOperations == {"skill", "model", "retrieve"}

\* What may follow the event last in a skill request, a retrieval, and the
\* two halves of a model call; {} ends the request.
SkillFollows(last) ==
  IF last = "start"
    THEN {"nova.skill.started", "nova.skill.completed", "nova.skill.failed"} ELSE {}

RetrieveFollows(last) ==
  CASE last = "start" -> {"authorization.started"}
    [] last = "authorization.started" -> {"authorization.allowed", "authorization.denied"}
    [] last = "authorization.allowed" -> {"risk.classified"}
    [] last = "risk.classified" -> {"knowledge.retrieval.started"}
    [] last = "knowledge.retrieval.started" ->
         {"knowledge.retrieval.completed", "knowledge.retrieval.insufficient"}
    [] OTHER -> {}

AuthorizeModelFollows(last) ==
  CASE last = "start" -> {"authorization.started"}
    [] last = "authorization.started" -> {"authorization.allowed", "authorization.denied"}
    [] last = "authorization.allowed" -> {"release.blocked", "model.routing.started"}
    [] OTHER -> {}

ExecuteModelFollows(last) ==
  CASE last = "model.routing.started" -> {"model.selected", "model.routing.failed"}
    [] last = "model.selected" -> {"model.execution.started"}
    [] last = "model.execution.started" ->
         {"model.execution.completed", "model.execution.failed"}
    [] OTHER -> {}

Following(op, last) ==
  CASE op = "skill"    -> SkillFollows(last)
    [] op = "retrieve" -> RetrieveFollows(last)
    [] op = "model"    -> AuthorizeModelFollows(last) \cup ExecuteModelFollows(last)

\* requireOpenExecution / requireScopedOpen: the only status check.
BeginWork(w, e, op) ==
  /\ Live(e)
  /\ Accept(w, [op |-> op, exec |-> e, last |-> "start"], "read_parent")
  /\ UNCHANGED <<dbVars, parent, cut>>

\* lastEventId, on the pool and outside any transaction.
ReadParent(w) ==
  /\ pc[w] = "read_parent"
  /\ parent' = [parent EXCEPT ![w] = Len(events[Exec(w)])]
  /\ Goto(w, CASE call[w].op \in WorkOperations      -> "work"
               [] call[w].op = "request_approval"    -> "request"
               [] call[w].op = "decide"              -> "record_decision"
               [] call[w].op = "finalize"            -> "seal")
  /\ UNCHANGED <<dbVars, call, seen, calls, cut>>

RecordWork(w) ==
  /\ pc[w] = "work"
  /\ \E type \in Following(call[w].op, call[w].last) :
       /\ Record(Exec(w), type, parent[w], "none")
       /\ IF Following(call[w].op, type) = {}
            THEN Finish(w)
            ELSE /\ call' = [call EXCEPT ![w].last = type]
                 /\ parent' = [parent EXCEPT ![w] = Len(events[Exec(w)]) + 1]
                 /\ UNCHANGED <<pc, seen>>
  /\ UNCHANGED <<status, ledger, approvals, calls, cut>>

-----------------------------------------------------------------------------
(* Approvals *)

\* (Bound: a request begins only while an unused approval id is left for it.)
BeginRequest(w, e, u) ==
  /\ Live(e)
  /\ Cardinality({v \in Workers : call[v].op = "request_approval"})
       < Cardinality({a \in Approvals : approvals[a] = NoApproval})
  /\ Accept(w, [op |-> "request_approval", exec |-> e, user |-> u], "read_parent")
  /\ UNCHANGED <<dbVars, parent, cut>>

\* One transaction: the approval row, its event, the ledger entry and the
\* status.  The status is asserted again inside it.
CommitRequest(w) ==
  /\ pc[w] = "request"
  /\ CanMove(status[Exec(w)], "waiting_approval")
  /\ \E a \in Approvals :
       /\ approvals[a] = NoApproval
       /\ approvals' = [approvals EXCEPT ![a] =
            [status |-> "pending", exec |-> Exec(w), requester |-> call[w].user,
             decider |-> "none"]]
       /\ Record(Exec(w), "approval.requested", parent[w], a)
  /\ AppendLedger(Exec(w), "approval_requested", NoGraph)
  /\ status' = [status EXCEPT ![Exec(w)] = "waiting_approval"]
  /\ Finish(w)
  /\ UNCHANGED <<calls, cut>>

\* Variant for mutation runs: the requester may decide.
AnyApprover(u, a) == u \in Approvers

\* evaluatePolicy approval.decide: an approver role, and never the requester.
MayDecide(u, a) == u \in Approvers /\ approvals[a].requester # u

\* decideExecutionApproval reads the execution and the approval first; the
\* session route reads only the approval.  Neither looks at the execution's
\* status or at the approval's.
BeginDecide(w, a, u, allow, op) ==
  /\ op \in {"decide", "decide_only"}
  /\ approvals[a] # NoApproval
  /\ MayDecide(u, a)
  /\ Accept(w, [op |-> op, exec |-> approvals[a].exec, approval |-> a, user |-> u,
                allow |-> allow], "decide")
  /\ UNCHANGED <<dbVars, parent, cut>>

\* Variant for mutation runs: the row takes the name of the event.
EventWord(allow) == IF allow THEN "approved" ELSE "rejected"

Verdict(allow) == IF allow THEN "approved" ELSE "denied"

\* Variant for mutation runs: a decided row may be decided again.
AnyRow(a) == approvals[a] # NoApproval

\* WHERE id = $1 AND status = 'pending'
Decidable(a) == approvals[a].status = "pending"

\* decideApproval: UPDATE of a decidable row; no row means it throws.
DecideRow(w) ==
  /\ pc[w] = "decide"
  /\ Decidable(call[w].approval)
  /\ approvals' = [approvals EXCEPT
       ![call[w].approval].status = Verdict(call[w].allow),
       ![call[w].approval].decider = call[w].user]
  /\ IF call[w].op = "decide_only"
       THEN Finish(w)
       ELSE Goto(w, "read_parent") /\ UNCHANGED <<call, seen, parent>>
  /\ UNCHANGED <<status, events, ledger, calls, cut>>

\* Variant for mutation runs: the wrong decision resumes.
ResumesDenied(w) == ~call[w].allow /\ seen[w] = "waiting_approval"

\* Whether the status read at the start asks for the execution to resume.
Resumes(w) == call[w].allow /\ seen[w] = "waiting_approval"

\* The decision event, and on to setExecutionStatus if it resumes.
RecordDecision(w) ==
  /\ pc[w] = "record_decision"
  /\ Record(Exec(w), IF call[w].allow THEN "approval.approved" ELSE "approval.rejected",
            parent[w], call[w].approval)
  /\ IF Resumes(w)
       THEN Goto(w, "resume_check") /\ UNCHANGED <<call, seen, parent>>
       ELSE Finish(w)
  /\ UNCHANGED <<status, ledger, approvals, calls, cut>>

\* setExecutionStatus on the pool: a read that asserts the transition, then
\* an UPDATE by id.
CheckResume(w) ==
  /\ pc[w] = "resume_check"
  /\ CanMove(status[Exec(w)], "running")
  /\ Goto(w, "resume_write")
  /\ UNCHANGED <<dbVars, call, seen, parent, calls, cut>>

WriteResume(w) ==
  /\ pc[w] = "resume_write"
  /\ status' = [status EXCEPT ![Exec(w)] = "running"]
  /\ Finish(w)
  /\ UNCHANGED <<events, ledger, approvals, calls, cut>>

-----------------------------------------------------------------------------
(* finalizeGovernedExecution and sealExecution *)

BeginFinalize(w, e, outcome) ==
  /\ Live(e)
  /\ ~(status[e] = "waiting_approval" /\ outcome = "completed")
  /\ Accept(w, [op |-> "finalize", exec |-> e, outcome |-> outcome], "read_parent")
  /\ UNCHANGED <<dbVars, parent, cut>>

\* The prelude events of an outcome.
Prelude(outcome) ==
  IF outcome = "completed"
    THEN <<"validation.started", "validation.passed", "execution.completed",
           "release.started", "release.completed">>
    ELSE <<"validation.started", "validation.failed",
           IF outcome = "blocked" THEN "execution.blocked" ELSE "execution.failed",
           "release.blocked">>

\* The events es with a chain appended, each the child of the one before and
\* the first the child of event n.
Chained(es, chain, n) ==
  es \o [i \in DOMAIN chain |->
           Event(chain[i], IF i = 1 THEN ParentSet(n) ELSE {Len(es) + i - 1}, "none")]

\* The events of the seal: the prelude and then audit.checkpoint.sealed, a
\* chain whose first parent is the event read.
SealedEvents(es, outcome, n) ==
  Chained(es, Append(Prelude(outcome), "audit.checkpoint.sealed"), n)

\* sealExecution, one transaction: the events, the graph over all events so
\* far, the ledger entry, and the status if the transition is allowed.
Seal(w) ==
  /\ pc[w] = "seal"
  /\ CanMove(status[Exec(w)], call[w].outcome)
  /\ LET sealed == SealedEvents(events[Exec(w)], call[w].outcome, parent[w])
     IN  /\ events' = [events EXCEPT ![Exec(w)] = sealed]
         /\ AppendLedger(Exec(w),
                         IF call[w].outcome = "completed" THEN "final" ELSE "failure",
                         GraphOf(sealed, call[w].outcome))
  /\ status' = [status EXCEPT ![Exec(w)] = call[w].outcome]
  /\ Finish(w)
  /\ UNCHANGED <<approvals, calls, cut>>

-----------------------------------------------------------------------------
\* A step whose assertion fails throws, and the request ends there.
Refused(w) ==
  \/ pc[w] = "request_opened" /\ ~CanMove(status[Exec(w)], "running")
  \/ pc[w] = "request" /\ ~CanMove(status[Exec(w)], "waiting_approval")
  \/ pc[w] = "decide" /\ ~Decidable(call[w].approval)
  \/ pc[w] = "resume_check" /\ ~CanMove(status[Exec(w)], "running")
  \/ pc[w] = "seal" /\ ~CanMove(status[Exec(w)], call[w].outcome)

Throw(w) ==
  /\ Refused(w)
  /\ Finish(w)
  /\ UNCHANGED <<dbVars, calls, cut>>

\* The process, the connection or the database fails between two commits.
Die(w) ==
  /\ Failures
  /\ pc[w] # "idle"
  /\ cut' = IF call[w].op = "decide" THEN cut \cup {call[w].approval} ELSE cut
  /\ Finish(w)
  /\ UNCHANGED <<dbVars, calls>>

Begin(w) ==
  \/ \E e \in Executions : OpenExecution(w, e)
  \/ \E e \in Executions, op \in WorkOperations : BeginWork(w, e, op)
  \/ \E e \in Executions, u \in Users : BeginRequest(w, e, u)
  \/ \E a \in Approvals, u \in Users, allow \in BOOLEAN, op \in Operations :
       BeginDecide(w, a, u, allow, op)
  \/ \E e \in Executions, outcome \in Outcomes : BeginFinalize(w, e, outcome)

Step(w) ==
  \/ RecordCreated(w)
  \/ RecordAuthenticated(w)
  \/ AppendRequestOpened(w)
  \/ ReadParent(w)
  \/ RecordWork(w)
  \/ CommitRequest(w)
  \/ DecideRow(w)
  \/ RecordDecision(w)
  \/ CheckResume(w)
  \/ WriteResume(w)
  \/ Seal(w)
  \/ Throw(w)

Next == \E w \in Workers : Begin(w) \/ Step(w) \/ Die(w)

Spec == Init /\ [][Next]_vars

-----------------------------------------------------------------------------
(* Properties *)

Labels == {"idle", "created", "authenticated", "request_opened", "read_parent",
           "work", "request", "decide", "record_decision", "resume_check",
           "resume_write", "seal"}

EventRecords ==
  [type : EXECUTION_EVENT_TYPES, parents : SUBSET Nat, about : Approvals \cup {"none"}]
Graphs == [events : Seq(EventRecords), status : Statuses \cup {Absent}]
ApprovalRows ==
  [status : {"pending", "approved", "denied"}, exec : Executions, requester : Users,
   decider : Users \cup {"none"}]

Requests ==
  [op : {"open"}, exec : Executions]
  \cup [op : WorkOperations, exec : Executions,
        last : EXECUTION_EVENT_TYPES \cup {"start"}]
  \cup [op : {"request_approval"}, exec : Executions, user : Users]
  \cup [op : {"decide", "decide_only"}, exec : Executions, approval : Approvals,
        user : Approvers, allow : BOOLEAN]
  \cup [op : {"finalize"}, exec : Executions, outcome : Outcomes]

\* The operations that have a step of this label.
OperationsAt(label) ==
  CASE label \in {"created", "authenticated", "request_opened"} -> {"open"}
    [] label = "read_parent" -> WorkOperations \cup {"request_approval", "decide", "finalize"}
    [] label = "work"        -> WorkOperations
    [] label = "request"     -> {"request_approval"}
    [] label = "decide"      -> {"decide", "decide_only"}
    [] label \in {"record_decision", "resume_check", "resume_write"} -> {"decide"}
    [] label = "seal"        -> {"finalize"}
    [] label = "idle"        -> {"none"}

\* A request is at a step of its operation.  A decider is about to decide an
\* approval of the execution that another member asked for, and the parent a
\* request will name is an event of its execution.
AtItsStep(w) ==
  /\ call[w].op \in OperationsAt(pc[w])
  /\ call[w].op \in {"decide", "decide_only"} =>
       LET row == approvals[call[w].approval]
       IN  row # NoApproval /\ row.exec = Exec(w) /\ row.requester # call[w].user
  /\ IF pc[w] = "idle" THEN parent[w] = 0 ELSE parent[w] <= Len(events[Exec(w)])

\* buildExecutionGraphV2 never meets an unresolved parent: every event's
\* parents are earlier events of the same execution, also those appended
\* from a parent id read before other requests appended.
GraphBuildable ==
  \A e \in Executions : \A i \in DOMAIN events[e] :
    events[e][i].parents \subseteq 1..(i - 1)

\* Variables have their types, rows refer to rows and graphs can be built.
TypeOK ==
  /\ status \in [Executions -> Statuses \cup {Absent}]
  /\ events \in [Executions -> Seq(EventRecords)]
  /\ GraphBuildable
  /\ ledger \in [Executions -> Seq([type : EntryTypes, graph : Graphs])]
  /\ approvals \in [Approvals -> ApprovalRows \cup {NoApproval}]
  /\ pc \in [Workers -> Labels]
  /\ call \in [Workers -> Requests \cup {NoCall}]
  /\ seen \in [Workers -> Statuses \cup {Absent}]
  /\ parent \in [Workers -> Nat]
  /\ \A w \in Workers : AtItsStep(w)
  /\ calls \in 0..MaxCalls
  /\ cut \subseteq Approvals

\* Entries of e of one type.
EntriesOf(e, types) == {k \in DOMAIN ledger[e] : ledger[e][k].type \in types}
SealEntries(e) == EntriesOf(e, {"final", "failure"})
EventsOf(e, types) == {i \in DOMAIN events[e] : events[e][i].type \in types}

\* What a seal may leave behind it: events of work whose status check came
\* before the seal, and decisions, which check no status.
LateTypes ==
  {"approval.approved", "approval.rejected"}
    \cup (UNION {Following(op, last) : op \in WorkOperations,
                                      last \in EXECUTION_EVENT_TYPES \cup {"start"}})

\* Every sealing entry of e commits to a prefix of its present events that
\* ends in the audit.checkpoint.sealed event of the same transaction, and no
\* such event exists without its entry.
SealsPaired(e) ==
  /\ \A k \in SealEntries(e) :
       \E i \in EventsOf(e, {"audit.checkpoint.sealed"}) :
         ledger[e][k].graph.events = SubSeq(events[e], 1, i)
  /\ \A i \in EventsOf(e, {"audit.checkpoint.sealed"}) :
       \E k \in SealEntries(e) : Len(ledger[e][k].graph.events) = i

\* The last sealing entry, whose id the row keeps as final_entry_id, holds
\* the status of a terminal execution, and all its events but late ones.
LastSealStands(e) ==
  status[e] \in TerminalStatuses =>
    \E k \in SealEntries(e) :
      /\ \A j \in SealEntries(e) : j <= k
      /\ ledger[e][k].graph.status = status[e]
      /\ \A i \in DOMAIN events[e] :
           i > Len(ledger[e][k].graph.events) => events[e][i].type \in LateTypes

\* Sealing is atomic and its evidence stays, and what a terminal execution
\* was sealed with is how it ended: requests that raced the seal, and other
\* seals, opened, asked for no approval and ended nothing behind it.  (An
\* event of LateTypes may be appended behind it, and the record is then
\* unlinked: exporters hash all events.)
SealsMatchEvents == \A e \in Executions : SealsPaired(e) /\ LastSealStands(e)

\* The ledger of an execution tells a lawful story: it was opened once and
\* before anything else, unless it failed while still being created; an
\* approval or a completion is recorded only for an opened execution; and a
\* row that is past 'created' without having failed was opened.
LedgerStory ==
  \A e \in Executions :
    LET opened == EntriesOf(e, {"request_opened"})
    IN  /\ opened \subseteq {1}
        /\ EntriesOf(e, {"approval_requested", "final"}) # {} => opened # {}
        /\ status[e] \in {"running", "waiting_approval", "completed"} => opened # {}

\* Approvals and the evidence about them agree: one approval.requested event
\* and one ledger entry for each row, and at most one decision event, which
\* says what the row says.  (A decision may lack its event: the row and the
\* event are two commits.)
ApprovalEvidence ==
  /\ \A e \in Executions :
       Cardinality(EntriesOf(e, {"approval_requested"}))
         = Cardinality({a \in Approvals : approvals[a] # NoApproval /\ approvals[a].exec = e})
  /\ \A a \in Approvals : approvals[a] # NoApproval =>
       LET e == approvals[a].exec
           about(types) == {i \in EventsOf(e, types) : events[e][i].about = a}
       IN  /\ Cardinality(about({"approval.requested"})) = 1
           /\ Cardinality(about({"approval.approved", "approval.rejected"})) <= 1
           /\ about({"approval.approved"}) # {} => approvals[a].status = "approved"
           /\ about({"approval.rejected"}) # {} => approvals[a].status = "denied"

\* A decision is taken once, however many deciders read the row as pending,
\* and never by the member who asked for it.
DecisionIsFinal ==
  [][\A a \in Approvals :
       approvals'[a] # approvals[a] /\ approvals[a] # NoApproval =>
         /\ approvals[a].status = "pending"
         /\ approvals'[a].decider # approvals[a].requester
         /\ approvals'[a].requester = approvals[a].requester]_approvals

\* completed | failed | blocked | cancelled -> (none): a terminal status
\* never changes (docs/architecture/execution-graph-v2.md, line 76).
TerminalIsForever ==
  [][\A e \in Executions :
       status[e] \in TerminalStatuses => status'[e] = status[e]]_status

\* Requests that race to end an execution in different ways do not overwrite
\* each other: the transition is asserted again inside the transaction, so a
\* terminal status gives way to nothing but a resume that was already under
\* way (which is what breaks TerminalIsForever).
OnlyResumeRevives ==
  [][\A e \in Executions :
       status[e] \in TerminalStatuses /\ status'[e] # status[e] =>
         /\ status'[e] = "running"
         /\ \E w \in Workers : pc[w] = "resume_write" /\ Exec(w) = e]_status

\* A granted approval takes effect: when no request is in progress, an
\* execution that still waits has an approval that was not granted on the
\* execution's route, or whose decision died half way.  The decider uses the
\* status it read four awaits earlier, while other requests, decisions and
\* seals went on.
GrantTakesEffect ==
  (\A w \in Workers : pc[w] = "idle") =>
    \A e \in Executions : status[e] = "waiting_approval" =>
      \E a \in Approvals :
        /\ approvals[a] # NoApproval /\ approvals[a].exec = e
        /\ \/ \A i \in EventsOf(e, {"approval.approved"}) : events[e][i].about # a
           \/ a \in cut
=============================================================================
