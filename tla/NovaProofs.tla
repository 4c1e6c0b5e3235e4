----------------------------- MODULE NovaProofs -----------------------------
(***************************************************************************)
(* Proofs about Nova, for any number of handlers, executions, answers and  *)
(* phases.                                                                 *)
(*                                                                         *)
(* Typed says what a handler holds at each of its calls; OwnerInv who      *)
(* works on an execution and what the core knows of it; StoryInv what the  *)
(* rows of Nova say meanwhile, and WaitInv what they say while no decision *)
(* went through Nova or the shell; BrandInv and AnswersInv what a session, *)
(* or the copy of one that a handler holds, may bring back when it is      *)
(* saved.                                                                  *)
(***************************************************************************)
EXTENDS Nova, TLAPS

-----------------------------------------------------------------------------
(* Handlers by what they do, and their locals *)

RunSteps == InSkill \cup {"open", "post", "fail", "seal", "requested", "posted"}
DecideSteps == {"decide", "decided", "give_up", "close"}
ShellSteps == {"shell", "updating"}
Labels == Calls \cup {"idle", "requested", "posted", "decided", "updating", "tell"}

Items == [status : {"none", "pending_approval", "approved", "rejected"}, linked : BOOLEAN]
SessionStatuses == {"none", "in_progress", "proposed", "approved", "rejected"}
Sessions == [thread : Nat, phase : 0..Awaiting, answers : SUBSET Answers, draft : Contents,
             version : Nat, status : SessionStatuses]

DraftRuns == [op : {"run"}, skill : {"social", "drafting"}, then : {"return", "post"},
              exec : Executions, copy : Items, outcome : {"failed", "blocked"}]
Syntheses == [op : {"run"}, skill : {"drafting"}, then : {"propose"},
              exec : Executions, copy : Sessions, outcome : {"failed", "blocked"}]
SlackDecisions == [op : {"decide"}, exec : Executions, allow : BOOLEAN, outcome : {"blocked"}]
ShellDecisions == [op : {"shell"}, exec : Executions, allow : BOOLEAN]
Announcements == [op : {"next"}, exec : {0}, copy : Sessions]

JobTyped(t) ==
  \/ pc[t] = "idle" /\ job[t] = NoJob
  \/ pc[t] \in RunSteps \ {"post", "posted"} /\ job[t] \in DraftRuns \cup Syntheses
  \/ pc[t] \in {"post", "posted"} /\ job[t] \in DraftRuns
  \/ pc[t] \in DecideSteps /\ job[t] \in SlackDecisions
  \/ pc[t] \in ShellSteps /\ job[t] \in ShellDecisions
  \/ pc[t] = "tell" /\ job[t] \in Announcements

RowsTyped ==
  /\ status \in [Executions -> Statuses \cup {Absent}]
  /\ approval \in [Executions -> {"none", "pending", "approved", "denied"}]
  /\ bypassed \subseteq Executions
  /\ item \in [Executions -> Items]
  /\ row \in [Executions -> {"none", "started", "failed", "waiting_approval", "completed"}]
  /\ brand \in [version : Nat, content : Contents]
  /\ session \in Sessions
  /\ cards \subseteq Executions
  /\ hits \in [Executions -> Nat]
  /\ raced \subseteq Executions
  /\ acked \subseteq Answers \X Nat
  /\ activated \subseteq Nat \X Contents
  /\ requests \in 0..MaxRequests /\ failures \in 0..MaxFailures

Typed ==
  /\ RowsTyped
  /\ pc \in [Tasks -> Labels]
  /\ job = [t \in Tasks |-> job[t]]
  /\ \A t \in Tasks : JobTyped(t)

-----------------------------------------------------------------------------
(* Who works on an execution *)

Runs(t, e) == job[t].op = "run" /\ Exec(t) = e
Decides(t) == job[t].op \in {"decide", "shell"}

\* The calls of a run before its approval is requested, if it ever is, and
\* after.
Before == {"start", "retrieve", "model", "give_up", "close", "request", "complete", "finish"}
After == {"requested", "post", "posted"}
Closing == {"fail", "seal"}

\* One run works on an execution, alone with it until an approval exists; the
\* core knows the execution once open was answered.
RunKnows(t) ==
  job[t].op = "run" =>
    /\ \A u \in Tasks : Runs(u, Exec(t)) => u = t
    /\ pc[t] = "open" <=> status[Exec(t)] = Absent
    /\ pc[t] = "open" => \A u \in Tasks : Exec(u) = Exec(t) => u = t
    /\ pc[t] \in Before \cup {"open", "record"} => approval[Exec(t)] = "none"
    /\ pc[t] \in After => approval[Exec(t)] # "none"
    /\ pc[t] = "record" => status[Exec(t)] = "completed"
    /\ pc[t] \in Closing /\ status[Exec(t)] = "running" /\ approval[Exec(t)] = "none" =>
         hits[Exec(t)] >= 1

\* Somebody who decides has an approval; who has decided knows what the core
\* has written.
DeciderKnows(t) ==
  Decides(t) =>
    /\ approval[Exec(t)] # "none"
    /\ pc[t] \in {"decided", "updating"} =>
         approval[Exec(t)] = IF job[t].allow THEN "approved" ELSE "denied"

CoreKnows(e) ==
  /\ status[e] = Absent => approval[e] = "none" /\ item[e] = NoItem
  /\ e \in cards => approval[e] # "none"
  /\ status[e] = "running" => approval[e] \in {"none", "approved"}
  /\ status[e] = "running" /\ approval[e] = "none" =>
       \/ hits[e] >= 2
       \/ \E t \in Tasks : Runs(t, e) /\ pc[t] \in Before \cup Closing

OwnerInv ==
  /\ \A t \in Tasks : RunKnows(t) /\ DeciderKnows(t)
  /\ \A e \in Executions : CoreKnows(e)

-----------------------------------------------------------------------------
(* What Nova's rows say *)

\* What an item, or a copy of it that will be saved, may show.
Tells(e, s) ==
  \/ s = Shown(approval[e])
  \/ /\ s = "pending_approval"
     /\ \/ e \in raced \cup bypassed
        \/ \E u \in Tasks : pc[u] \in {"decided", "updating"} /\ Exec(u) = e

NoLie(e, s) == s \in {"approved", "rejected"} => s = Shown(approval[e])

\* The rows of an execution without an error, while a run works on it ..
RunTells(t) ==
  job[t].op = "run" /\ hits[Exec(t)] = 0 =>
    LET e == Exec(t) IN
    /\ pc[t] \notin Closing
    /\ pc[t] \in Before => status[e] = "running"
    /\ pc[t] \in (Before \ {"request"}) \cup {"record"} => item[e] = NoItem
    /\ pc[t] = "request" => item[e] = [status |-> "pending_approval", linked |-> FALSE]
    /\ pc[t] = "close" => row[e] = "failed"
    /\ pc[t] \in {"finish", "record"} => row[e] = "completed"
    /\ pc[t] \in After => Tells(e, item[e].status)
    /\ pc[t] \in {"post", "posted"} =>
         /\ item[e].linked /\ row[e] = "waiting_approval"
         /\ job[t].copy.linked /\ Tells(e, job[t].copy.status)

\* .. and after it.
RestTells(e) ==
  hits[e] = 0 /\ status[e] # Absent /\ (\A t \in Tasks : ~Runs(t, e)) =>
    IF approval[e] = "none"
      THEN item[e] = NoItem /\ row[e] = IF status[e] = "completed" THEN "completed" ELSE "failed"
      ELSE item[e].linked /\ row[e] = "waiting_approval" /\ Tells(e, item[e].status)

StoryInv ==
  /\ \A e \in Executions : NoLie(e, item[e].status) /\ RestTells(e)
  /\ \A t \in Tasks :
       /\ RunTells(t)
       /\ pc[t] \in {"post", "posted"} => NoLie(Exec(t), job[t].copy.status)

-----------------------------------------------------------------------------
(* What a saved session brings back *)

\* A draft that may become the content of a brand.
Finished(draft) == draft \in Executions => status[draft] = "completed"

BrandInv ==
  /\ BrandHistory
  /\ brand.version > 0 => <<brand.version, brand.content>> \in activated
  /\ session.version \in {0, brand.version, brand.version + 1}
  /\ session.version = brand.version /\ brand.version > 0 => session.draft = brand.content
  /\ session.version # 0 => session.phase = Awaiting
  /\ Finished(session.draft)
  /\ \A t \in Tasks : Holding(t) => Finished(job[t].copy.draft)
  /\ \A t \in Tasks : job[t].op = "next" => job[t].copy.version = 0

Remembers(s) ==
  /\ s.thread <= requests
  /\ \A k \in acked : k[2] = s.thread => k[1] \in s.answers

AnswersInv ==
  /\ Remembers(session)
  /\ \A t \in Tasks : Holding(t) => Remembers(job[t].copy)
  /\ \A k \in acked : k[2] <= requests

-----------------------------------------------------------------------------
(* Types *)

LEMMA Numbers ==
  /\ MaxExecutions \in Nat /\ Phases \in Nat /\ Awaiting \in Nat
  /\ Executions \subseteq Contents /\ Executions \subseteq Nat
  /\ Empty \in Contents /\ Seed \in Contents /\ Seed \notin Executions /\ Empty \notin Executions
  /\ 0 \in 0..Awaiting /\ 1 \in 0..Awaiting /\ Awaiting \in 0..Awaiting
BY MaxExecutionsAssumption, PhasesAssumption DEF Awaiting, Executions, Contents, Empty, Seed

\* What a handler is doing, from the call it awaits.
LEMMA JobOf ==
  ASSUME Typed, NEW t \in Tasks
  PROVE  /\ pc[t] = "idle" <=> job[t].op = "none"
         /\ pc[t] = "idle" => job[t] = NoJob
         /\ job[t].op = "run" => pc[t] \in RunSteps /\ job[t] \in DraftRuns \cup Syntheses
         /\ job[t].op = "decide" => pc[t] \in DecideSteps /\ job[t] \in SlackDecisions
         /\ job[t].op = "shell" => pc[t] \in ShellSteps /\ job[t] \in ShellDecisions
         /\ job[t].op = "next" => pc[t] = "tell" /\ job[t] \in Announcements
         /\ job[t].op \in {"none", "run", "decide", "shell", "next"}
         /\ Exec(t) \in Executions <=> job[t].op \in {"run", "decide", "shell"}
         /\ Exec(t) \in 0..MaxExecutions
<1> USE Numbers
<1>1. JobTyped(t)
  BY DEF Typed
<1>2. CASE pc[t] = "idle" /\ job[t] = NoJob
  BY <1>2 DEF NoJob, Exec, Executions
<1>3. CASE pc[t] \in RunSteps /\ job[t] \in DraftRuns \cup Syntheses
  <2>1. job[t].op = "run" /\ job[t].exec \in Executions
    BY <1>3 DEF DraftRuns, Syntheses
  <2> QED
    BY <1>3, <2>1 DEF RunSteps, InSkill, Exec, Executions
<1>4. CASE pc[t] \in DecideSteps /\ job[t] \in SlackDecisions
  <2>1. job[t].op = "decide" /\ job[t].exec \in Executions
    BY <1>4 DEF SlackDecisions
  <2> QED
    BY <1>4, <2>1 DEF DecideSteps, Exec, Executions
<1>5. CASE pc[t] \in ShellSteps /\ job[t] \in ShellDecisions
  <2>1. job[t].op = "shell" /\ job[t].exec \in Executions
    BY <1>5 DEF ShellDecisions
  <2> QED
    BY <1>5, <2>1 DEF ShellSteps, Exec, Executions
<1>6. CASE pc[t] = "tell" /\ job[t] \in Announcements
  <2>1. job[t].op = "next" /\ job[t].exec = 0
    BY <1>6 DEF Announcements
  <2> QED
    BY <1>6, <2>1 DEF Exec, Executions
<1>7. pc[t] \in {"post", "posted"} /\ job[t] \in DraftRuns =>
        pc[t] \in RunSteps /\ job[t] \in DraftRuns \cup Syntheses
  BY DEF RunSteps
<1> QED
  BY <1>1, <1>2, <1>3, <1>4, <1>5, <1>6, <1>7 DEF JobTyped

LEMMA InitTyped == Init => Typed
<1> SUFFICES ASSUME Init PROVE Typed
  OBVIOUS
<1> USE Numbers
<1>1. NoItem \in Items /\ Absent \in Statuses \cup {Absent}
  BY DEF NoItem, Items
<1>2. brand \in [version : Nat, content : Contents] /\ activated \subseteq Nat \X Contents
  BY DEF Init, NoBrand
<1>3. NoSession \in Sessions
  BY DEF NoSession, Sessions, SessionStatuses
<1>4. requests \in 0..MaxRequests /\ failures \in 0..MaxFailures
  BY BoundsAssumption DEF Init
<1>5. RowsTyped
  BY <1>1, <1>2, <1>3, <1>4 DEF Init, RowsTyped
<1>6. pc \in [Tasks -> Labels] /\ job = [t \in Tasks |-> job[t]] /\ \A t \in Tasks : JobTyped(t)
  BY DEF Init, JobTyped, Labels
<1> QED
  BY <1>5, <1>6 DEF Typed

LEMMA TypedIsTypeOK == Typed => TypeOK
<1> SUFFICES ASSUME Typed PROVE TypeOK
  OBVIOUS
<1>1. \A t \in Tasks : Exec(t) \in 0..MaxExecutions
  BY JobOf
<1>2. session.phase \in 0..Awaiting /\ session.answers \subseteq Answers
      /\ session.draft \in Contents /\ session.status \in SessionStatuses
  BY DEF Typed, RowsTyped, Sessions
<1> QED
  BY <1>1, <1>2 DEF Typed, RowsTyped, TypeOK, Items, Labels, SessionStatuses

\* A step of one handler: its next call and its locals.
Moves(t, label, locals) ==
  /\ pc' = [pc EXCEPT ![t] = label]
  /\ job' = [job EXCEPT ![t] = locals]

LEMMA Assemble ==
  ASSUME Typed, NEW t \in Tasks, NEW label \in Labels, NEW locals, Moves(t, label, locals),
         \/ label = "idle" /\ locals = NoJob
         \/ label \in RunSteps \ {"post", "posted"} /\ locals \in DraftRuns \cup Syntheses
         \/ label \in {"post", "posted"} /\ locals \in DraftRuns
         \/ label \in DecideSteps /\ locals \in SlackDecisions
         \/ label \in ShellSteps /\ locals \in ShellDecisions
         \/ label = "tell" /\ locals \in Announcements,
         RowsTyped'
  PROVE  Typed'
<1>1. pc' \in [Tasks -> Labels] /\ job' = [u \in Tasks |-> job'[u]]
  BY DEF Typed, Moves
<1>2. pc'[t] = label /\ job'[t] = locals
  BY DEF Typed, Moves
<1>3. \A u \in Tasks \ {t} : pc'[u] = pc[u] /\ job'[u] = job[u]
  BY DEF Typed, Moves
<1>4. \A u \in Tasks \ {t} : JobTyped(u)'
  BY <1>3 DEF Typed, JobTyped
<1>5. JobTyped(t)'
  BY <1>2 DEF JobTyped
<1> QED
  BY <1>1, <1>4, <1>5 DEF Typed

\* What the core and Slack write.
LEMMA EffectTypes ==
  ASSUME Typed, NEW t \in Tasks, Effect(t), Exec(t) \in Executions, Target(t) \in Statuses \cup {Absent}
  PROVE  /\ status' \in [Executions -> Statuses \cup {Absent}]
         /\ approval' \in [Executions -> {"none", "pending", "approved", "denied"}]
         /\ cards' \subseteq Executions /\ bypassed' \subseteq Executions
<1>1. status' \in [Executions -> Statuses \cup {Absent}]
  BY DEF Effect, Typed, RowsTyped
<1>2. approval' \in [Executions -> {"none", "pending", "approved", "denied"}]
  BY DEF Effect, Typed, RowsTyped
<1>3. cards' \subseteq Executions /\ bypassed' \subseteq Executions
  BY DEF Effect, Typed, RowsTyped
<1> QED
  BY <1>1, <1>2, <1>3

LEMMA TargetTypes ==
  ASSUME Typed, NEW t \in Tasks, Exec(t) \in Executions
  PROVE  Target(t) \in Statuses \cup {Absent}
<1>1. status[Exec(t)] \in Statuses \cup {Absent}
  BY DEF Typed, RowsTyped
<1>2. pc[t] = "close" => job[t].outcome \in {"failed", "blocked"}
  <2>1. pc[t] = "close" => job[t] \in DraftRuns \cup Syntheses \cup SlackDecisions
    BY DEF Typed, JobTyped, DecideSteps, ShellSteps
  <2> QED
    BY <2>1 DEF DraftRuns, Syntheses, SlackDecisions
<1>3. {"running", "waiting_approval", "completed", "failed", "blocked"} \subseteq Statuses
  BY DEF Statuses, TerminalStatuses
<1> QED
  BY <1>1, <1>2, <1>3 DEF Target

\* A handler at a call works on an execution.
LEMMA AtCall ==
  ASSUME Typed, NEW t \in Tasks,
         pc[t] \in Calls \cup {"requested", "posted", "decided", "updating"}
  PROVE  Exec(t) \in Executions /\ job[t].op \in {"run", "decide", "shell"}
<1>1. pc[t] # "idle" /\ pc[t] # "tell"
  BY DEF Calls, InSkill
<1> QED
  BY <1>1, JobOf

LEMMA AnsweredTypes ==
  ASSUME Typed, NEW t \in Tasks, NEW label \in Calls, Answered(t, label)
  PROVE  /\ status' \in [Executions -> Statuses \cup {Absent}]
         /\ approval' \in [Executions -> {"none", "pending", "approved", "denied"}]
         /\ cards' \subseteq Executions /\ bypassed' \subseteq Executions
         /\ Exec(t) \in Executions
BY AtCall, TargetTypes, EffectTypes DEF Answered

\* Steps that keep the locals.
LEMMA GotoMoves ==
  ASSUME Typed, NEW t \in Tasks, NEW label
  PROVE  /\ Goto(t, label) /\ UNCHANGED job => Moves(t, label, job[t])
         /\ End(t) => Moves(t, "idle", NoJob)
         /\ job = [job EXCEPT ![t] = job[t]]
BY DEF Typed, Goto, End, Moves

\* The same handler at another of its calls.
LEMMA SameHandler ==
  ASSUME Typed, NEW t \in Tasks, NEW label \in Labels, Moves(t, label, job[t]), RowsTyped',
         \/ job[t].op = "run" /\ label \in RunSteps \ {"post", "posted"}
         \/ job[t] \in DraftRuns /\ label \in {"post", "posted"}
         \/ job[t].op = "decide" /\ label \in DecideSteps
         \/ job[t].op = "shell" /\ label \in ShellSteps
  PROVE  Typed'
<1>1. /\ job[t].op = "run" => job[t] \in DraftRuns \cup Syntheses
      /\ job[t].op = "decide" => job[t] \in SlackDecisions
      /\ job[t].op = "shell" => job[t] \in ShellDecisions
  BY JobOf
<1> QED
  BY <1>1, Assemble

LEMMA ServeTyped ==
  ASSUME Typed, NEW t \in Tasks, Serve(t)
  PROVE  Typed'
<1>1. ASSUME NEW from \in Calls, NEW to \in Labels, Answered(t, from), Goto(t, to),
             \/ job[t].op = "run" /\ to \in RunSteps \ {"post", "posted"}
             \/ job[t] \in DraftRuns /\ to \in {"post", "posted"}
             \/ job[t].op = "decide" /\ to \in DecideSteps
             \/ job[t].op = "shell" /\ to \in ShellSteps
      PROVE  Typed'
  <2>1. RowsTyped'
    BY <1>1, AnsweredTypes DEF Serve, Quiet, rows, Typed, RowsTyped
  <2>2. Moves(t, to, job[t])
    BY <1>1, GotoMoves DEF Serve
  <2> QED
    BY <1>1, <2>1, <2>2, SameHandler
<1>2. CASE Answered(t, "request") /\ Goto(t, "requested")
  <2>1. job[t].op = "run"
    BY <1>2, JobOf DEF Answered, DecideSteps, ShellSteps
  <2> QED
    BY <1>1, <1>2, <2>1 DEF Calls, InSkill, Labels, RunSteps
<1>3. CASE Answered(t, "post") /\ Goto(t, "posted")
  <2>1. job[t] \in DraftRuns
    BY <1>3 DEF Typed, JobTyped, Answered, DecideSteps, ShellSteps
  <2> QED
    BY <1>1, <1>3, <2>1 DEF Calls, InSkill, Labels, RunSteps
<1>4. CASE Answered(t, "decide") /\ Goto(t, "decided")
  <2>1. job[t].op = "decide"
    BY <1>4, JobOf DEF Answered, RunSteps, InSkill, ShellSteps
  <2> QED
    BY <1>1, <1>4, <2>1 DEF Calls, Labels, DecideSteps
<1>5. CASE Answered(t, "shell") /\ Goto(t, "updating")
  <2>1. job[t].op = "shell"
    BY <1>5, JobOf DEF Answered, RunSteps, InSkill, DecideSteps
  <2> QED
    BY <1>1, <1>5, <2>1 DEF Calls, Labels, ShellSteps
<1> QED
  BY <1>2, <1>3, <1>4, <1>5 DEF Serve

\* Steps of a run whose next call is one of a run's.
LEMMA RunTyped ==
  ASSUME Typed, NEW t \in Tasks,
         \/ OpenAnswered(t) \/ StartAnswered(t) \/ ModelAnswered(t) \/ CompleteAnswered(t)
         \/ FinishAnswered(t) \/ FailAnswered(t)
  PROVE  Typed'
<1>1. ASSUME NEW from \in Calls \ {"decide", "shell", "give_up", "close"}, Answered(t, from),
             NEW to \in RunSteps \ {"post", "posted"}, Goto(t, to), UNCHANGED job,
             UNCHANGED <<brand, session, requests, failures, raced, acked, activated>>,
             item' \in [Executions -> Items], hits' \in [Executions -> Nat],
             row' \in [Executions ->
                        {"none", "started", "failed", "waiting_approval", "completed"}]
      PROVE  Typed'
  <2>1. RowsTyped'
    BY <1>1, AnsweredTypes DEF Typed, RowsTyped
  <2>2. Moves(t, to, job[t])
    BY <1>1, GotoMoves
  <2>3. job[t].op = "run" /\ to \in Labels
    BY <1>1, JobOf DEF Answered, DecideSteps, ShellSteps, RunSteps, Labels, Calls, InSkill
  <2> QED
    BY <2>1, <2>2, <2>3, SameHandler
<1>2. /\ item \in [Executions -> Items] /\ hits \in [Executions -> Nat]
      /\ row \in [Executions -> {"none", "started", "failed", "waiting_approval", "completed"}]
  BY DEF Typed, RowsTyped
<1>3. {"fail", "start", "model", "retrieve", "give_up", "request", "complete", "finish", "record",
       "seal"} \subseteq RunSteps \ {"post", "posted"}
      /\ {"open", "start", "model", "complete", "finish", "fail"}
           \subseteq Calls \ {"decide", "shell", "give_up", "close"}
  BY DEF RunSteps, InSkill, Calls
<1>4. CASE OpenAnswered(t)
  <2>1. hits' \in [Executions -> Nat]
    BY <1>2, <1>4 DEF OpenAnswered
  <2> QED
    BY <1>1, <1>2, <1>3, <1>4, <2>1 DEF OpenAnswered, rows
<1>5. CASE StartAnswered(t)
  <2>1. row' \in [Executions -> {"none", "started", "failed", "waiting_approval", "completed"}]
    BY <1>2, <1>5 DEF StartAnswered, PersistRun
  <2> QED
    BY <1>1, <1>2, <1>3, <1>5, <2>1 DEF StartAnswered, Quiet
<1>6. CASE ModelAnswered(t)
  <2>1. [status |-> "pending_approval", linked |-> FALSE] \in Items
    BY Zenon DEF Items
  <2>2. item' \in [Executions -> Items]
    BY <1>2, <1>6, <2>1 DEF ModelAnswered, SaveItem
  <2> QED
    BY <1>1, <1>2, <1>3, <1>6, <2>2 DEF ModelAnswered, Quiet
<1>7. CASE CompleteAnswered(t)
  <2>1. row' \in [Executions -> {"none", "started", "failed", "waiting_approval", "completed"}]
    BY <1>2, <1>7 DEF CompleteAnswered, PersistRun
  <2> QED
    BY <1>1, <1>2, <1>3, <1>7, <2>1 DEF CompleteAnswered, AfterComplete, Quiet
<1>8. CASE FinishAnswered(t)
  BY <1>1, <1>2, <1>3, <1>8 DEF FinishAnswered, rows, Quiet
<1>9. CASE FailAnswered(t)
  BY <1>1, <1>2, <1>3, <1>9 DEF FailAnswered, rows, Quiet
<1> QED
  BY <1>4, <1>5, <1>6, <1>7, <1>8, <1>9

LEMMA RetrieveTyped ==
  ASSUME Typed, NEW t \in Tasks, RetrieveAnswered(t)
  PROVE  Typed'
<1>1. RowsTyped'
  BY AnsweredTypes DEF RetrieveAnswered, Quiet, rows, Typed, RowsTyped, Calls, InSkill
<1>2. job[t] \in DraftRuns \cup Syntheses
  BY JobOf DEF RetrieveAnswered, Answered, DecideSteps, ShellSteps
<1>3. CASE Goto(t, "model") /\ UNCHANGED job
  <2>1. Moves(t, "model", job[t])
    BY <1>3, GotoMoves
  <2> QED
    BY <1>1, <1>2, <2>1, Assemble DEF Labels, Calls, InSkill, RunSteps
<1>4. CASE Goto(t, "give_up") /\ job' = [job EXCEPT ![t].outcome = "blocked"]
  <2> DEFINE blocked == [job[t] EXCEPT !.outcome = "blocked"]
  <2>1. blocked \in DraftRuns \cup Syntheses
    BY <1>2 DEF DraftRuns, Syntheses
  <2>2. Moves(t, "give_up", blocked)
    BY <1>4 DEF Typed, Moves, Goto
  <2> HIDE DEF blocked
  <2> QED
    BY <1>1, <2>1, <2>2, Assemble DEF Labels, Calls, InSkill, RunSteps
<1> QED
  BY <1>3, <1>4 DEF RetrieveAnswered

\* A run or a rejection gives up.
LEMMA GiveUpTyped ==
  ASSUME Typed, NEW t \in Tasks, GiveUpAnswered(t)
  PROVE  Typed'
<1>1. row' \in [Executions -> {"none", "started", "failed", "waiting_approval", "completed"}]
  BY DEF GiveUpAnswered, PersistRun, Typed, RowsTyped
<1>2. RowsTyped'
  BY <1>1, AnsweredTypes DEF GiveUpAnswered, Quiet, Typed, RowsTyped, Calls, InSkill
<1>3. Moves(t, "close", job[t])
  BY GotoMoves DEF GiveUpAnswered
<1>4. job[t].op \in {"run", "decide"}
  BY JobOf DEF GiveUpAnswered, Answered, ShellSteps
<1> QED
  BY <1>2, <1>3, <1>4, SameHandler DEF Labels, Calls, InSkill, RunSteps, DecideSteps

\* Steps that end a handler.
LEMMA EndTyped ==
  ASSUME Typed, NEW t \in Tasks, End(t), RowsTyped'
  PROVE  Typed'
BY GotoMoves, Assemble DEF Labels

LEMMA RequestTyped ==
  ASSUME Typed, NEW t \in Tasks, RequestContinued(t)
  PROVE  Typed'
<1>1. Exec(t) \in Executions
  BY AtCall DEF RequestContinued
<1> DEFINE linked == [Stored(t) EXCEPT !.linked = TRUE]
<1>2. linked \in Items
  BY <1>1, Zenon DEF Stored, Typed, RowsTyped, Items
<1>3. job[t] \in DraftRuns \cup Syntheses
  BY JobOf DEF RequestContinued, DecideSteps, ShellSteps
<1> HIDE DEF linked
<1>4. item' \in [Executions -> Items]
  BY <1>1, <1>2 DEF RequestContinued, SaveItem, linked, Typed, RowsTyped
<1>5. row' \in [Executions -> {"none", "started", "failed", "waiting_approval", "completed"}]
  BY DEF RequestContinued, PersistRun, Typed, RowsTyped
<1>6. RowsTyped'
  BY <1>4, <1>5 DEF RequestContinued, Quiet, core, Typed, RowsTyped
<1>7. CASE job[t].then = "post"
  <2> DEFINE told == [job[t] EXCEPT !.copy = linked]
  <2>1. job[t] \in DraftRuns
    BY <1>3, <1>7 DEF Syntheses
  <2>2. told \in DraftRuns
    BY <1>2, <2>1 DEF DraftRuns
  <2>3. Goto(t, "post") /\ job' = [job EXCEPT ![t].copy = linked]
    BY <1>7 DEF RequestContinued, linked
  <2>4. Moves(t, "post", told)
    BY <2>3 DEF Typed, Moves, Goto
  <2> HIDE DEF told
  <2> QED
    BY <1>6, <2>2, <2>4, Assemble DEF Labels, Calls
<1>8. CASE job[t].then # "post"
  BY <1>6, <1>8, EndTyped DEF RequestContinued
<1> QED
  BY <1>7, <1>8

LEMMA PostTyped ==
  ASSUME Typed, NEW t \in Tasks, PostContinued(t)
  PROVE  Typed'
<1>1. job[t].copy \in Items
  <2>1. job[t] \in DraftRuns
    BY DEF PostContinued, Typed, JobTyped, DecideSteps, ShellSteps
  <2> QED
    BY <2>1 DEF DraftRuns
<1>2. item' \in [Executions -> Items]
  BY <1>1 DEF PostContinued, SaveItem, Typed, RowsTyped
<1>3. RowsTyped'
  BY <1>2 DEF PostContinued, Quiet, core, Typed, RowsTyped
<1> QED
  BY <1>3, EndTyped DEF PostContinued

\* A copy of a session that a handler holds.
LEMMA CopyTyped ==
  ASSUME Typed, NEW t \in Tasks, Holding(t)
  PROVE  job[t].copy \in Sessions
<1>1. CASE job[t].op = "next"
  BY <1>1, JobOf DEF Announcements
<1>2. CASE job[t].op = "run" /\ job[t].then = "propose"
  <2>1. job[t] \in Syntheses
    BY <1>2, JobOf DEF DraftRuns
  <2> QED
    BY <2>1 DEF Syntheses
<1> QED
  BY <1>1, <1>2 DEF Holding

\* What run leaves to its caller.
LEMMA ReturnTyped ==
  ASSUME Typed, NEW t \in Tasks, RunReturns(t)
  PROVE  Typed'
<1>1. /\ status' \in [Executions -> Statuses \cup {Absent}]
      /\ approval' \in [Executions -> {"none", "pending", "approved", "denied"}]
      /\ cards' \subseteq Executions /\ bypassed' \subseteq Executions /\ Exec(t) \in Executions
  BY AnsweredTypes DEF RunReturns, Calls, InSkill
<1>2. session' \in Sessions
  <2>1. CASE job[t].op = "run" /\ job[t].then = "propose"
    <3>1. job[t].copy \in Sessions
      BY <2>1, CopyTyped DEF Holding
    <3> DEFINE draft == IF pc[t] = "record" THEN Exec(t) ELSE Empty
    <3>2. draft \in Contents /\ NextVersion(t) \in Nat
      BY <1>1, Numbers DEF NextVersion, Typed, RowsTyped
    <3>3. session' = [job[t].copy EXCEPT !.draft = draft, !.version = NextVersion(t),
                                        !.phase = Awaiting, !.status = "proposed"]
      BY <2>1 DEF RunReturns, Propose, SaveSession
    <3> HIDE DEF draft
    <3> QED
      BY <3>1, <3>2, <3>3, Numbers DEF Sessions, SessionStatuses
  <2>2. CASE ~(job[t].op = "run" /\ job[t].then = "propose")
    BY <2>2 DEF RunReturns, Typed, RowsTyped
  <2> QED
    BY <2>1, <2>2
<1>3. RowsTyped'
  BY <1>1, <1>2 DEF RunReturns, history, Typed, RowsTyped
<1> QED
  BY <1>3, EndTyped DEF RunReturns

LEMMA SealTyped ==
  ASSUME Typed, NEW t \in Tasks, SealAnswered(t)
  PROVE  Typed'
<1>1. row' \in [Executions -> {"none", "started", "failed", "waiting_approval", "completed"}]
  BY DEF SealAnswered, PersistRun, Typed, RowsTyped
<1>2. RowsTyped'
  BY <1>1, AnsweredTypes DEF SealAnswered, Quiet, Typed, RowsTyped, Calls
<1> QED
  BY <1>2, EndTyped DEF SealAnswered

\* A handler whose call failed ends, or it is a run that goes on to close its
\* execution.
LEMMA RaiseTyped ==
  ASSUME Typed, NEW t \in Tasks, NEW lost \in BOOLEAN, Raise(t, lost),
         /\ status' \in [Executions -> Statuses \cup {Absent}]
         /\ approval' \in [Executions -> {"none", "pending", "approved", "denied"}]
         /\ cards' \subseteq Executions /\ bypassed' \subseteq Executions
         /\ hits' \in [Executions -> Nat]
         /\ failures' \in 0..MaxFailures,
         UNCHANGED <<item, brand, session, requests, raced, acked, activated>>
  PROVE  Typed'
<1>1. row' \in [Executions -> {"none", "started", "failed", "waiting_approval", "completed"}]
  BY DEF Raise, PersistRun, Typed, RowsTyped
<1>2. RowsTyped'
  BY <1>1 DEF Typed, RowsTyped
<1>3. CASE job[t].op = "run" /\ pc[t] \in InSkill /\ Caught(lost)
  <2>1. Moves(t, "fail", job[t])
    BY <1>3, GotoMoves DEF Raise
  <2> QED
    BY <1>2, <1>3, <2>1, SameHandler DEF Labels, Calls, RunSteps
<1>4. CASE ~(job[t].op = "run" /\ pc[t] \in InSkill /\ Caught(lost))
  BY <1>2, <1>4, EndTyped DEF Raise
<1> QED
  BY <1>3, <1>4

LEMMA FailureTyped ==
  ASSUME Typed, NEW t \in Tasks, Refused(t) \/ Break(t)
  PROVE  Typed'
<1>1. CASE Refused(t)
  BY <1>1, RaiseTyped DEF Refused, Quiet, core, Typed, RowsTyped
<1>2. CASE Break(t)
  <2>1. Exec(t) \in Executions
    BY <1>2, AtCall DEF Break
  <2>2. hits' \in [Executions -> Nat] /\ failures' \in 0..MaxFailures
    BY <1>2, <2>1, BoundsAssumption DEF Break, Typed, RowsTyped
  <2> PICK lost, effect \in BOOLEAN :
         /\ effect => lost /\ Accepted(t)
         /\ IF effect THEN Effect(t) ELSE UNCHANGED <<core, cards>>
         /\ Raise(t, lost)
    BY <1>2 DEF Break
  <2>3. /\ status' \in [Executions -> Statuses \cup {Absent}]
        /\ approval' \in [Executions -> {"none", "pending", "approved", "denied"}]
        /\ cards' \subseteq Executions /\ bypassed' \subseteq Executions
    <3>1. CASE effect
      BY <2>1, <3>1, TargetTypes, EffectTypes
    <3>2. CASE ~effect
      BY <3>2 DEF core, Typed, RowsTyped
    <3> QED
      BY <3>1, <3>2
  <2> QED
    BY <1>2, <2>2, <2>3, RaiseTyped DEF Break
<1> QED
  BY <1>1, <1>2

LEMMA ShowTyped ==
  ASSUME Typed, NEW t \in Tasks, ShowDecision(t)
  PROVE  Typed'
<1>1. Exec(t) \in Executions
  BY AtCall DEF ShowDecision
<1>2. item' \in [Executions -> Items]
  <2>1. [item[Exec(t)] EXCEPT !.status = ItemStatus(job[t].allow)] \in Items
    BY <1>1 DEF Typed, RowsTyped, Items, ItemStatus
  <2> QED
    BY <2>1 DEF ShowDecision, SaveItem, Typed, RowsTyped
<1>3. raced' \subseteq Executions
  BY <1>1 DEF ShowDecision, NoteRace, Typed, RowsTyped
<1>4. RowsTyped'
  BY <1>2, <1>3 DEF ShowDecision, Quiet, core, Typed, RowsTyped
<1>5. CASE End(t)
  BY <1>4, <1>5, EndTyped
<1>6. CASE pc[t] = "decided" /\ Goto(t, "give_up") /\ UNCHANGED job
  <2>1. Moves(t, "give_up", job[t])
    BY <1>6, GotoMoves
  <2>2. job[t].op = "decide"
    BY <1>6, JobOf DEF RunSteps, InSkill, ShellSteps
  <2> QED
    BY <1>4, <2>1, <2>2, SameHandler DEF Labels, Calls, InSkill, DecideSteps
<1> QED
  BY <1>5, <1>6 DEF ShowDecision

LEMMA ToldTyped ==
  ASSUME Typed, NEW t \in Tasks, Told(t) \/ Untold(t)
  PROVE  Typed'
<1>1. CASE Told(t)
  <2>1. job[t] \in Announcements
    BY <1>1, JobOf DEF Told, RunSteps, InSkill, DecideSteps, ShellSteps
  <2>2. job[t].copy \in Sessions
    BY <2>1 DEF Announcements
  <2>3. RowsTyped'
    BY <1>1, <2>2 DEF Told, SaveSession, core, slack, history, Typed, RowsTyped
  <2> QED
    BY <1>1, <2>3, EndTyped DEF Told
<1>2. CASE Untold(t)
  <2>1. RowsTyped'
    BY <1>2, BoundsAssumption DEF Untold, core, rows, slack, history, Typed, RowsTyped
  <2> QED
    BY <1>2, <2>1, EndTyped DEF Untold
<1> QED
  BY <1>1, <1>2

\* A handler begins.
LEMMA BeginTyped ==
  ASSUME Typed, NEW t \in Tasks, NEW locals, NEW label, Begin(t, locals, label),
         UNCHANGED <<core, rows, slack, failures, history>>,
         \/ label = "open" /\ locals \in DraftRuns \cup Syntheses
         \/ label = "decide" /\ locals \in SlackDecisions
         \/ label = "shell" /\ locals \in ShellDecisions
         \/ label = "tell" /\ locals \in Announcements
  PROVE  Typed'
<1>1. requests' \in 0..MaxRequests
  BY BoundsAssumption DEF Begin, Typed, RowsTyped
<1>2. RowsTyped'
  BY <1>1 DEF core, rows, slack, history, Typed, RowsTyped
<1>3. Moves(t, label, locals)
  BY DEF Begin, Goto, Moves
<1>4. label \in Labels
  BY DEF Labels, Calls
<1> QED
  BY <1>2, <1>3, <1>4, Assemble DEF RunSteps, DecideSteps, ShellSteps

\* The jobs of the callers of run.
LEMMA RunJobs ==
  ASSUME Typed, NEW e \in Executions
  PROVE  /\ \A skill \in {"social", "drafting"}, then \in {"return", "post"} :
              RunOf(skill, then, e, NoItem) \in DraftRuns
         /\ \A copy \in Sessions : RunOf("drafting", "propose", e, copy) \in Syntheses
<1>1. NoItem \in Items
  BY Zenon DEF NoItem, Items
<1> QED
  BY <1>1 DEF RunOf, DraftRuns, Syntheses

LEMMA HandleTyped ==
  ASSUME Typed, NEW t \in Tasks, Handle(t)
  PROVE  Typed'
<1>1. ASSUME NEW e \in Executions, Generate(t, e) \/ CronGenerate(t, e)
      PROVE  Typed'
  <2> PICK skill \in {"social", "drafting"}, then \in {"return", "post"} :
             Begin(t, RunOf(skill, then, e, NoItem), "open")
    BY <1>1 DEF Generate, CronGenerate
  <2> QED
    BY <1>1, RunJobs, BeginTyped DEF Generate, CronGenerate
<1>2. ASSUME NEW e \in Executions, NEW allow \in BOOLEAN, SlackDecide(t, e, allow)
      PROVE  Typed'
  <2> DEFINE locals == [op |-> "decide", exec |-> e, allow |-> allow, outcome |-> "blocked"]
  <2>1. locals \in SlackDecisions
    BY Zenon DEF SlackDecisions
  <2>2. Begin(t, locals, "decide") /\ UNCHANGED <<core, rows, slack, failures, history>>
    BY <1>2 DEF SlackDecide
  <2> HIDE DEF locals
  <2> QED
    BY <2>1, <2>2, BeginTyped
<1>3. ASSUME NEW e \in Executions, NEW allow \in BOOLEAN, ShellDecide(t, e, allow)
      PROVE  Typed'
  <2> DEFINE locals == [op |-> "shell", exec |-> e, allow |-> allow]
  <2>1. locals \in ShellDecisions
    BY Zenon DEF ShellDecisions
  <2>2. Begin(t, locals, "shell") /\ UNCHANGED <<core, rows, slack, failures, history>>
    BY <1>3 DEF ShellDecide
  <2> HIDE DEF locals
  <2> QED
    BY <2>1, <2>2, BeginTyped
<1>4. session \in Sessions
  BY DEF Typed, RowsTyped
<1>5. ASSUME NEW e \in Executions, Begin(t, RunOf("drafting", "propose", e, session), "open"),
             UNCHANGED <<core, rows, slack, failures, history>>
      PROVE  Typed'
  BY <1>4, <1>5, RunJobs, BeginTyped
<1>6. CASE SayNext(t)
  <2>1. CASE session.phase < Phases /\
             Begin(t, [op |-> "next", exec |-> 0, copy |-> [session EXCEPT !.phase = @ + 1]], "tell")
    <3> DEFINE locals == [op |-> "next", exec |-> 0, copy |-> [session EXCEPT !.phase = @ + 1]]
    <3>1. session.phase + 1 \in 0..Awaiting
      BY <1>4, <2>1, PhasesAssumption DEF Sessions, Awaiting
    <3>2. [session EXCEPT !.phase = @ + 1] \in Sessions
      BY <1>4, <3>1 DEF Sessions
    <3>3. locals \in Announcements
      BY <3>2 DEF Announcements
    <3>4. Begin(t, locals, "tell") /\ UNCHANGED <<core, rows, slack, failures, history>>
      BY <1>6, <2>1 DEF SayNext
    <3> HIDE DEF locals
    <3> QED
      BY <3>3, <3>4, BeginTyped
  <2>2. CASE \E e \in Executions : Begin(t, RunOf("drafting", "propose", e, session), "open")
    BY <1>5, <1>6, <2>2 DEF SayNext
  <2> QED
    BY <1>6, <2>1, <2>2 DEF SayNext
<1>7. CASE Regenerate(t)
  BY <1>5, <1>7 DEF Regenerate
<1> QED
  BY <1>1, <1>2, <1>3, <1>6, <1>7 DEF Handle

LEMMA AtOnceTyped ==
  ASSUME Typed, \/ StartOnboarding \/ ApproveBrand \/ RejectBrand \/ \E a \in Answers : Reply(a)
                \/ \E e \in Executions, allow \in BOOLEAN : DecideOnly(e, allow)
  PROVE  Typed'
<1> USE Numbers
<1>1. session \in Sessions /\ session.version \in Nat /\ session.draft \in Contents
      /\ session.thread \in Nat /\ brand.version \in Nat
  BY DEF Typed, RowsTyped, Sessions
<1>2. ASSUME RowsTyped', UNCHANGED <<pc, job>>
      PROVE  Typed'
  BY <1>2 DEF Typed, JobTyped
<1>3. AtOnce => requests' \in 0..MaxRequests
  BY BoundsAssumption DEF AtOnce, Typed, RowsTyped
<1>4. CASE StartOnboarding
  <2>1. NoSession \in Sessions /\ requests + 1 \in Nat
    BY DEF NoSession, Sessions, SessionStatuses, Typed, RowsTyped
  <2>2. session' \in Sessions
    BY <1>4, <2>1 DEF StartOnboarding, SaveSession, Sessions, SessionStatuses
  <2>3. RowsTyped'
    BY <1>3, <1>4, <2>2 DEF StartOnboarding, core, slack, history, Typed, RowsTyped
  <2> QED
    BY <1>2, <1>4, <2>3 DEF StartOnboarding
<1>5. CASE ApproveBrand
  <2> DEFINE version == IF session.version = 0 THEN brand.version + 1 ELSE session.version
  <2>1. version \in Nat
    BY <1>1
  <2>2. session' \in Sessions
    BY <1>1, <1>5 DEF ApproveBrand, SaveSession, Sessions, SessionStatuses
  <2>3. UpsertBrand(version, session.draft)
    BY <1>5 DEF ApproveBrand
  <2> HIDE DEF version
  <2>4. brand' \in [version : Nat, content : Contents] /\ activated' \subseteq Nat \X Contents
    BY <1>1, <2>1, <2>3 DEF UpsertBrand, Typed, RowsTyped
  <2>5. RowsTyped'
    BY <1>3, <1>5, <2>2, <2>4 DEF ApproveBrand, core, slack, Typed, RowsTyped
  <2> QED
    BY <1>2, <1>5, <2>5 DEF ApproveBrand
<1>6. CASE RejectBrand
  <2>1. session' \in Sessions
    BY <1>1, <1>6 DEF RejectBrand, SaveSession, Sessions, SessionStatuses
  <2>2. RowsTyped'
    BY <1>3, <1>6, <2>1 DEF RejectBrand, core, slack, history, Typed, RowsTyped
  <2> QED
    BY <1>2, <1>6, <2>2 DEF RejectBrand
<1>7. ASSUME NEW a \in Answers, Reply(a)
      PROVE  Typed'
  <2>1. session' \in Sessions
    BY <1>1, <1>7 DEF Reply, SaveSession, Recorded, Sessions
  <2>2. acked' \subseteq Answers \X Nat
    BY <1>1, <1>7 DEF Reply, Typed, RowsTyped
  <2>3. RowsTyped'
    BY <1>3, <1>7, <2>1, <2>2 DEF Reply, core, slack, Typed, RowsTyped
  <2> QED
    BY <1>2, <1>7, <2>3 DEF Reply
<1>8. ASSUME NEW e \in Executions, NEW allow \in BOOLEAN, DecideOnly(e, allow)
      PROVE  Typed'
  <2>1. /\ approval' \in [Executions -> {"none", "pending", "approved", "denied"}]
        /\ bypassed' \subseteq Executions
    BY <1>8 DEF DecideOnly, Typed, RowsTyped
  <2>2. RowsTyped'
    BY <1>3, <1>8, <2>1 DEF DecideOnly, rows, slack, history, Typed, RowsTyped
  <2> QED
    BY <1>2, <1>8, <2>2 DEF DecideOnly
<1> QED
  BY <1>4, <1>5, <1>6, <1>7, <1>8

LEMMA RestartTyped ==
  ASSUME Typed, Restart
  PROVE  Typed'
<1> DEFINE mine == {t \in Tasks : pc[t] # "idle" /\ job[t].op # "shell"}
<1>1. /\ pc' = [t \in Tasks |-> IF t \in mine THEN "idle" ELSE pc[t]]
      /\ job' = [t \in Tasks |-> IF t \in mine THEN NoJob ELSE job[t]]
      /\ failures < MaxFailures /\ failures' = failures + 1
      /\ hits' = [e \in Executions |-> hits[e] + IF \E t \in mine : Exec(t) = e THEN 2 ELSE 0]
      /\ UNCHANGED <<core, rows, slack, requests, raced, acked, activated>>
  BY DEF Restart
<1> HIDE DEF mine
<1>2. hits' \in [Executions -> Nat] /\ failures' \in 0..MaxFailures
  BY <1>1, BoundsAssumption DEF Typed, RowsTyped
<1>3. RowsTyped'
  BY <1>1, <1>2 DEF core, rows, slack, Typed, RowsTyped
<1>4. \A t \in Tasks : JobTyped(t)'
  BY <1>1 DEF Typed, JobTyped
<1>5. pc' \in [Tasks -> Labels] /\ job' = [t \in Tasks |-> job'[t]]
  BY <1>1 DEF Typed, Labels
<1> QED
  BY <1>3, <1>4, <1>5 DEF Typed

LEMMA NextTyped == Typed /\ [Next]_vars => Typed'
<1> SUFFICES ASSUME Typed, [Next]_vars PROVE Typed'
  OBVIOUS
<1>1. ASSUME NEW t \in Tasks, Step(t)
      PROVE  Typed'
  BY <1>1, ServeTyped, FailureTyped, RunTyped, RetrieveTyped, GiveUpTyped, RequestTyped, PostTyped,
     ReturnTyped, SealTyped, ShowTyped, ToldTyped
     DEF Step
<1>2. CASE UNCHANGED vars
  BY <1>2 DEF vars, core, rows, slack, history, Typed, RowsTyped, JobTyped
<1> QED
  BY <1>1, <1>2, HandleTyped, AtOnceTyped, RestartTyped DEF Next

\* The rows, the sessions and the handlers of Nova are of their kinds: a
\* handler at a call holds what the code after the call uses.
THEOREM NovaTypes == Spec => []TypeOK
<1>1. Spec => []Typed
  BY InitTyped, NextTyped, PTL DEF Spec
<1> QED
  BY <1>1, TypedIsTypeOK, PTL

-----------------------------------------------------------------------------
(* Sessions and the copies of them that handlers hold *)

LEMMA AlwaysTyped == Spec => []Typed
BY InitTyped, NextTyped, PTL DEF Spec

\* A step of a handler makes nobody hold a session, nor another one.
LEMMA HoldersKept ==
  ASSUME Typed, NEW t \in Tasks, Step(t), NEW u \in Tasks, Holding(u)'
  PROVE  /\ Holding(u) /\ job'[u].copy = job[u].copy
         /\ job'[u].op = job[u].op
<1>1. CASE UNCHANGED job
  BY <1>1 DEF Holding
<1>2. CASE End(t)
  <2>1. job'[u] = job[u] \/ job'[u] = NoJob
    BY <1>2 DEF End, Typed
  <2> QED
    BY <2>1 DEF Holding, NoJob
<1>3. CASE RetrieveAnswered(t) /\ job' = [job EXCEPT ![t].outcome = "blocked"]
  <2>1. job[t] \in DraftRuns \cup Syntheses
    BY <1>3, JobOf DEF RetrieveAnswered, Answered, DecideSteps, ShellSteps
  <2>2. job'[t] = [job[t] EXCEPT !.outcome = "blocked"] /\ \A v \in Tasks \ {t} : job'[v] = job[v]
    BY <1>3 DEF Typed
  <2>3. /\ job'[t].op = job[t].op /\ job'[t].then = job[t].then /\ job'[t].copy = job[t].copy
    BY <2>1, <2>2 DEF DraftRuns, Syntheses
  <2> QED
    BY <2>2, <2>3 DEF Holding
<1>4. CASE RequestContinued(t) /\ job[t].then = "post"
  <2> PICK linked : job' = [job EXCEPT ![t].copy = linked]
    BY <1>4 DEF RequestContinued
  <2>1. job[t] \in DraftRuns
    BY <1>4, JobOf DEF RequestContinued, DecideSteps, ShellSteps, Syntheses
  <2>2. job'[t] = [job[t] EXCEPT !.copy = linked] /\ \A v \in Tasks \ {t} : job'[v] = job[v]
    BY DEF Typed
  <2>3. job'[t].op = "run" /\ job'[t].then = "post"
    BY <1>4, <2>1, <2>2 DEF DraftRuns
  <2> QED
    BY <2>2, <2>3 DEF Holding
<1>5. UNCHANGED job \/ End(t)
        \/ (RetrieveAnswered(t) /\ job' = [job EXCEPT ![t].outcome = "blocked"])
        \/ (RequestContinued(t) /\ job[t].then = "post")
  BY DEF Step, Serve, Refused, Break, Raise, OpenAnswered, StartAnswered, RetrieveAnswered, ModelAnswered,
         GiveUpAnswered, RequestContinued, PostContinued, CompleteAnswered, FinishAnswered, RunReturns,
         FailAnswered, SealAnswered, ShowDecision, Told, Untold
<1> QED
  BY <1>1, <1>2, <1>3, <1>4, <1>5

\* Who saves a session, and which.
LEMMA SessionSaved ==
  ASSUME Typed, NEW t \in Tasks, Step(t)
  PROVE  /\ UNCHANGED <<brand, requests, acked, activated>>
         /\ \/ session' = session
            \/ pc[t] = "tell" /\ Holding(t) /\ session' = job[t].copy
            \/ /\ RunReturns(t) /\ Holding(t) /\ job[t].op = "run"
               /\ session' = [job[t].copy EXCEPT
                    !.draft = IF pc[t] = "record" THEN Exec(t) ELSE Empty,
                    !.version = NextVersion(t), !.phase = Awaiting, !.status = "proposed"]
<1>1. CASE Told(t)
  <2>1. Holding(t)
    BY <1>1, JobOf DEF Told, Holding, RunSteps, InSkill, DecideSteps, ShellSteps
  <2> QED
    BY <1>1, <2>1 DEF Told, SaveSession, history
<1>2. CASE RunReturns(t)
  BY <1>2 DEF RunReturns, Holding, Propose, SaveSession, history
<1>3. UNCHANGED <<brand, requests, acked, activated>>
  BY DEF Step, Serve, Refused, Break, Raise, OpenAnswered, StartAnswered, RetrieveAnswered, ModelAnswered,
         GiveUpAnswered, RequestContinued, PostContinued, CompleteAnswered, FinishAnswered, RunReturns,
         FailAnswered, SealAnswered, ShowDecision, Told, Untold, Quiet, rows, history
<1>4. Told(t) \/ RunReturns(t) \/ session' = session
  BY DEF Step, Serve, Refused, Break, Raise, OpenAnswered, StartAnswered, RetrieveAnswered, ModelAnswered,
         GiveUpAnswered, RequestContinued, PostContinued, CompleteAnswered, FinishAnswered,
         FailAnswered, SealAnswered, ShowDecision, Untold, Quiet, rows
<1> QED
  BY <1>1, <1>2, <1>3, <1>4

\* A handler that begins holds the session as it is, or the next phase of it.
LEMMA HandlerHolds ==
  ASSUME Typed, NEW t \in Tasks, Handle(t), NEW u \in Tasks, Holding(u)'
  PROVE  \/ Holding(u) /\ job'[u] = job[u]
         \/ u = t /\ job'[u].op = "run" /\ job'[u].copy = session
         \/ /\ u = t /\ job'[u].op = "next" /\ session.phase < Phases
            /\ job'[u].copy = [session EXCEPT !.phase = @ + 1]
<1> DEFINE Begun(locals) == job' = [job EXCEPT ![t] = locals]
           next == [op |-> "next", exec |-> 0, copy |-> [session EXCEPT !.phase = @ + 1]]
<1>1. CASE u # t
  BY <1>1 DEF Handle, Generate, CronGenerate, SlackDecide, ShellDecide, SayNext, Regenerate, Begin,
               Typed, Holding
<1>2. CASE \E skill \in {"social", "drafting"}, then \in {"return", "post"}, e \in Executions :
             Begun(RunOf(skill, then, e, NoItem))
  BY <1>1, <1>2 DEF Typed, Holding, RunOf
<1>3. CASE \E e \in Executions, allow \in BOOLEAN :
             \/ Begun([op |-> "decide", exec |-> e, allow |-> allow, outcome |-> "blocked"])
             \/ Begun([op |-> "shell", exec |-> e, allow |-> allow])
  BY <1>1, <1>3 DEF Typed, Holding
<1>4. CASE \E e \in Executions : Begun(RunOf("drafting", "propose", e, session))
  BY <1>1, <1>4 DEF Typed, RunOf
<1>5. CASE session.phase < Phases /\ Begun(next)
  BY <1>1, <1>5 DEF Typed
<1>6. \/ \E skill \in {"social", "drafting"}, then \in {"return", "post"}, e \in Executions :
           Begun(RunOf(skill, then, e, NoItem))
      \/ \E e \in Executions, allow \in BOOLEAN :
           \/ Begun([op |-> "decide", exec |-> e, allow |-> allow, outcome |-> "blocked"])
           \/ Begun([op |-> "shell", exec |-> e, allow |-> allow])
      \/ \E e \in Executions : Begun(RunOf("drafting", "propose", e, session))
      \/ session.phase < Phases /\ Begun(next)
  <2>1. ASSUME NEW e \in Executions, Generate(t, e) \/ CronGenerate(t, e)
        PROVE  \E skill \in {"social", "drafting"}, then \in {"return", "post"} :
                 Begun(RunOf(skill, then, e, NoItem))
    BY <2>1 DEF Generate, CronGenerate, Begin
  <2>2. ASSUME NEW e \in Executions, NEW allow \in BOOLEAN, SlackDecide(t, e, allow) \/ ShellDecide(t, e, allow)
        PROVE  \/ Begun([op |-> "decide", exec |-> e, allow |-> allow, outcome |-> "blocked"])
               \/ Begun([op |-> "shell", exec |-> e, allow |-> allow])
    BY <2>2 DEF SlackDecide, ShellDecide, Begin
  <2>3. SayNext(t) \/ Regenerate(t) =>
          \/ \E e \in Executions : Begun(RunOf("drafting", "propose", e, session))
          \/ session.phase < Phases /\ Begun(next)
    BY DEF SayNext, Regenerate, Begin
  <2> HIDE DEF Begun, next
  <2> QED
    BY <2>1, <2>2, <2>3 DEF Handle
<1> HIDE DEF Begun, next
<1> QED
  BY <1>2, <1>3, <1>4, <1>5, <1>6

LEMMA RestartHolds ==
  ASSUME Typed, Restart, NEW u \in Tasks, Holding(u)'
  PROVE  Holding(u) /\ job'[u] = job[u]
BY DEF Restart, Holding, NoJob

\* A session with the same thread and answers remembers as much.
LEMMA RemembersAs ==
  ASSUME NEW s, NEW r, Remembers(s), r.thread = s.thread, r.answers = s.answers,
         UNCHANGED acked, requests' = requests \/ requests' = requests + 1,
         requests \in Nat, s.thread \in Nat
  PROVE  r.thread <= requests' /\ \A k \in acked' : k[2] = r.thread => k[1] \in r.answers
BY DEF Remembers

LEMMA AnswersStep ==
  ASSUME Typed, AnswersInv, NEW t \in Tasks, Step(t)
  PROVE  AnswersInv'
<1>1. UNCHANGED <<requests, acked>>
  BY SessionSaved
<1>2. \A u \in Tasks : Holding(u)' => Remembers(job[u].copy) /\ job'[u].copy = job[u].copy
  BY HoldersKept DEF AnswersInv
<1>3. \/ session'.thread = session.thread /\ session'.answers = session.answers
      \/ \E u \in Tasks : /\ Holding(u) /\ session'.thread = job[u].copy.thread
                          /\ session'.answers = job[u].copy.answers
  <2>1. CASE session' = session
    BY <2>1
  <2>2. CASE Holding(t) /\ session' = job[t].copy
    BY <2>2
  <2>3. ASSUME Holding(t),
               session' = [job[t].copy EXCEPT
                    !.draft = IF pc[t] = "record" THEN Exec(t) ELSE Empty,
                    !.version = NextVersion(t), !.phase = Awaiting, !.status = "proposed"]
        PROVE  /\ Holding(t) /\ session'.thread = job[t].copy.thread
               /\ session'.answers = job[t].copy.answers
    <3>1. job[t].copy \in Sessions
      BY <2>3, CopyTyped
    <3> QED
      BY <2>3, <3>1 DEF Sessions
  <2> QED
    BY <2>1, <2>2, <2>3, SessionSaved
<1>4. /\ session'.thread <= requests
      /\ \A k \in acked : k[2] = session'.thread => k[1] \in session'.answers
  BY <1>3 DEF AnswersInv, Remembers
<1> QED
  BY <1>1, <1>2, <1>4 DEF AnswersInv, Remembers

LEMMA AnswersHandle ==
  ASSUME Typed, AnswersInv, NEW t \in Tasks, Handle(t)
  PROVE  AnswersInv'
<1>1. requests' = requests + 1 /\ UNCHANGED <<acked, session>> /\ requests \in Nat
  BY DEF Handle, Generate, CronGenerate, SlackDecide, ShellDecide, SayNext, Regenerate, Begin,
         rows, history, Typed, RowsTyped
<1>2. session \in Sessions /\ session.thread \in Nat
  BY DEF Typed, RowsTyped, Sessions
<1>3. ASSUME NEW u \in Tasks, Holding(u)'
      PROVE  \E s \in Sessions : /\ Remembers(s) /\ job'[u].copy.thread = s.thread
                                 /\ job'[u].copy.answers = s.answers
  <2>1. CASE Holding(u) /\ job'[u] = job[u]
    BY <2>1, CopyTyped DEF AnswersInv
  <2>2. CASE job'[u].copy = session
    BY <1>2, <2>2 DEF AnswersInv
  <2>3. CASE job'[u].copy = [session EXCEPT !.phase = @ + 1]
    <3>1. job'[u].copy.thread = session.thread /\ job'[u].copy.answers = session.answers
      BY <1>2, <2>3 DEF Sessions
    <3> QED
      BY <1>2, <3>1 DEF AnswersInv
  <2> QED
    BY <1>3, <2>1, <2>2, <2>3, HandlerHolds
<1>4. \A s \in Sessions : s.thread \in Nat
  BY DEF Sessions
<1>5. \A u \in Tasks : Holding(u)' => Remembers(job[u].copy)'
  BY <1>1, <1>3, <1>4 DEF Remembers
<1>6. \A k \in acked : k[2] \in Nat
  BY DEF Typed, RowsTyped
<1> QED
  BY <1>1, <1>2, <1>5, <1>6 DEF AnswersInv, Remembers

LEMMA AnswersAtOnce ==
  ASSUME Typed, AnswersInv,
         \/ StartOnboarding \/ ApproveBrand \/ RejectBrand \/ \E a \in Answers : Reply(a)
         \/ \E e \in Executions, allow \in BOOLEAN : DecideOnly(e, allow)
  PROVE  AnswersInv'
<1>0. AtOnce /\ UNCHANGED job
  BY DEF StartOnboarding, ApproveBrand, RejectBrand, Reply, DecideOnly
<1>1. requests' = requests + 1 /\ requests \in Nat /\ UNCHANGED job
  BY <1>0 DEF AtOnce, Typed, RowsTyped
<1>2. session \in Sessions /\ session.thread \in Nat
  BY DEF Typed, RowsTyped, Sessions
<1>3. \A k \in acked : k[2] \in Nat
  BY DEF Typed, RowsTyped
<1>4. \A u \in Tasks : Holding(u) => job[u].copy.thread \in Nat
  BY CopyTyped DEF Sessions
<1>5. CASE StartOnboarding
  <2>1. session'.thread = requests + 1 /\ UNCHANGED acked
    BY <1>5 DEF StartOnboarding, SaveSession, NoSession, history
  <2> QED
    BY <1>1, <1>3, <1>4, <2>1 DEF AnswersInv, Remembers, Holding
<1>6. CASE ApproveBrand \/ RejectBrand
  <2>1. session'.thread = session.thread /\ session'.answers = session.answers /\ UNCHANGED acked
    BY <1>2, <1>6 DEF ApproveBrand, RejectBrand, SaveSession, history, Sessions
  <2> QED
    BY <1>1, <1>2, <1>3, <1>4, <2>1 DEF AnswersInv, Remembers, Holding
<1>7. ASSUME NEW a \in Answers, Reply(a)
      PROVE  AnswersInv'
  <2>1. session'.thread = session.thread /\ session'.answers = session.answers \cup {a}
    BY <1>2, <1>7 DEF Reply, SaveSession, Recorded, Sessions
  <2>2. CASE \E u \in Tasks : Holding(u)
    <3>1. UNCHANGED acked
      BY <1>7, <2>2 DEF Reply
    <3> QED
      BY <1>1, <1>2, <1>3, <1>4, <2>1, <3>1 DEF AnswersInv, Remembers, Holding
  <2>3. CASE ~ \E u \in Tasks : Holding(u)
    <3>1. acked' = acked \cup {<<a, session.thread>>}
      BY <1>7, <2>3 DEF Reply
    <3>2. ~ \E u \in Tasks : Holding(u)'
      BY <1>1, <2>3 DEF Holding
    <3> QED
      BY <1>1, <1>2, <1>3, <2>1, <3>1, <3>2 DEF AnswersInv, Remembers
  <2> QED
    BY <2>2, <2>3
<1>8. ASSUME NEW e \in Executions, NEW allow \in BOOLEAN, DecideOnly(e, allow)
      PROVE  AnswersInv'
  <2>1. UNCHANGED <<session, acked>>
    BY <1>8 DEF DecideOnly, rows, history
  <2> QED
    BY <1>1, <1>2, <1>3, <1>4, <2>1 DEF AnswersInv, Remembers, Holding
<1> QED
  BY <1>5, <1>6, <1>7, <1>8

LEMMA InitAnswers == Init => AnswersInv
BY DEF Init, AnswersInv, Remembers, NoSession, Holding, NoJob

LEMMA NextAnswers == Typed /\ AnswersInv /\ [Next]_vars => AnswersInv'
<1> SUFFICES ASSUME Typed, AnswersInv, [Next]_vars PROVE AnswersInv'
  OBVIOUS
<1>1. CASE Restart
  <2>1. UNCHANGED <<session, acked, requests>>
    BY <1>1 DEF Restart, rows
  <2> QED
    BY <1>1, <2>1, RestartHolds DEF AnswersInv, Remembers
<1>2. CASE UNCHANGED vars
  BY <1>2 DEF vars, rows, history, AnswersInv, Remembers, Holding
<1> QED
  BY <1>1, <1>2, AnswersStep, AnswersHandle, AnswersAtOnce DEF Next

\* An answer acknowledged while no handler held the session is never lost to
\* a handler that saves the session later (reply, next and synthesize_session
\* each save the whole row): a copy is taken after the answer was stored, or
\* belongs to an earlier thread.
THEOREM AnswersAreKept == Spec => []AnswersKept
<1>1. Init => Typed /\ AnswersInv
  BY InitTyped, InitAnswers
<1>2. Typed /\ AnswersInv /\ [Next]_vars => (Typed /\ AnswersInv)'
  BY NextTyped, NextAnswers
<1>3. Typed /\ AnswersInv => AnswersKept
  BY DEF AnswersInv, Remembers, AnswersKept
<1> QED
  BY <1>1, <1>2, <1>3, PTL DEF Spec

-----------------------------------------------------------------------------
(* Owners of executions *)

\* What a step of t may do to an execution in the core: only open starts one,
\* only an approved decision resumes one, nothing leaves a terminal status,
\* and a decision is final.
CoreKept(t, e) ==
  /\ e # Exec(t) => status'[e] = status[e] /\ approval'[e] = approval[e]
  /\ status[e] # Absent => status'[e] # Absent
  /\ status[e] \in TerminalStatuses => status'[e] = status[e]
  /\ approval[e] \in {"approved", "denied"} => approval'[e] = approval[e]
  /\ approval[e] # "none" => approval'[e] # "none"
  /\ approval[e] = "none" /\ approval'[e] # "none" => Exec(t) = e /\ pc[t] = "request"
  /\ status'[e] = "running" => approval'[e] \in {"none", "approved"}
  /\ status'[e] = "running" /\ approval'[e] = "none" =>
       \/ status[e] = "running" /\ approval[e] = "none"
       \/ Exec(t) = e /\ pc[t] = "open"
  /\ e \in cards' => e \in cards \/ (Exec(t) = e /\ pc[t] = "post")

\* What the core answers to a handler at each call.
LEMMA OwnEffect ==
  ASSUME Typed, OwnerInv, NEW t \in Tasks, Accepted(t), Effect(t), pc[t] \in Calls,
         NEW e, e = Exec(t)
  PROVE  /\ e \in Executions
         /\ pc[t] = "open" => status[e] = Absent /\ status'[e] = "running" /\ approval'[e] = "none"
         /\ pc[t] = "request" => status'[e] = "waiting_approval" /\ approval'[e] = "pending"
                                 /\ approval[e] = "none"
         /\ pc[t] = "finish" => status'[e] = "completed"
         /\ pc[t] \in {"close", "seal"} => status'[e] \in {"blocked", "failed"}
         /\ pc[t] \in {"decide", "shell"} =>
              /\ approval[e] = "pending"
              /\ approval'[e] = IF job[t].allow THEN "approved" ELSE "denied"
              /\ status[e] # "running" /\ status[e] # Absent
              /\ status'[e] = status[e] \/ (/\ status[e] = "waiting_approval"
                                            /\ status'[e] = "running" /\ job[t].allow)
         /\ pc[t] \notin {"request", "decide", "shell"} => approval'[e] = approval[e]
         /\ pc[t] \notin {"open", "request", "finish", "close", "seal", "decide", "shell"} =>
              status'[e] = status[e]
         /\ pc[t] \notin {"open", "record", "post", "decide", "shell"} =>
              status[e] \notin TerminalStatuses
         /\ pc[t] # "open" => status[e] # Absent
<1>1. e \in Executions /\ job[t].op \in {"run", "decide", "shell"}
  BY AtCall
<1>2. status'[e] = Target(t)
  BY <1>1 DEF Effect, Typed, RowsTyped
<1>3. approval'[e] = CASE pc[t] = "request" -> "pending"
                       [] pc[t] \in {"decide", "shell"} -> IF job[t].allow THEN "approved" ELSE "denied"
                       [] OTHER -> approval[e]
  BY <1>1 DEF Effect, Typed, RowsTyped
<1>4. RunKnows(t) /\ DeciderKnows(t) /\ CoreKnows(e)
  BY <1>1 DEF OwnerInv
<1>5. /\ pc[t] = "open" => job[t].op = "run"
      /\ pc[t] = "request" => job[t].op = "run"
      /\ pc[t] \in {"decide", "shell"} => job[t].op \in {"decide", "shell"}
      /\ pc[t] \notin {"decide", "shell", "give_up", "close"} => job[t].op = "run"
  BY <1>1, JobOf DEF RunSteps, DecideSteps, ShellSteps, InSkill, Calls
<1>6. pc[t] = "open" => status[e] = Absent /\ approval[e] = "none" /\ Target(t) = "running"
  BY <1>4, <1>5 DEF RunKnows, CoreKnows, Target
<1>7. pc[t] # "open" => status[e] # Absent
  BY <1>1, <1>4 DEF RunKnows, DeciderKnows, Decides, CoreKnows
<1>8. pc[t] = "request" => approval[e] = "none"
  BY <1>4, <1>5 DEF RunKnows, Before
<1>9. pc[t] \in {"decide", "shell"} =>
        /\ approval[e] = "pending" /\ status[e] # "running"
        /\ Target(t) = status[e] \/ (/\ status[e] = "waiting_approval"
                                     /\ Target(t) = "running" /\ job[t].allow)
  BY <1>4 DEF Accepted, Decidable, CoreKnows, Target
<1>10. pc[t] = "close" => Target(t) \in {"blocked", "failed"}
  <2>1. pc[t] = "close" => job[t] \in DraftRuns \cup Syntheses \cup SlackDecisions
    BY DEF Typed, JobTyped, DecideSteps, ShellSteps
  <2> QED
    BY <2>1 DEF Target, DraftRuns, Syntheses, SlackDecisions
<1>11. /\ pc[t] = "request" => Target(t) = "waiting_approval"
       /\ pc[t] = "finish" => Target(t) = "completed"
       /\ pc[t] = "seal" => Target(t) = "failed"
       /\ pc[t] \notin {"open", "request", "finish", "close", "seal", "decide", "shell"} =>
            Target(t) = status[e]
  BY DEF Target
<1>12. pc[t] \notin {"open", "record", "post", "decide", "shell"} =>
         status[e] \notin TerminalStatuses
  BY DEF Accepted
<1>13. /\ pc[t] = "request" => approval'[e] = "pending"
       /\ pc[t] \in {"decide", "shell"} =>
            approval'[e] = IF job[t].allow THEN "approved" ELSE "denied"
       /\ pc[t] \notin {"request", "decide", "shell"} => approval'[e] = approval[e]
  BY <1>3
<1> QED
  BY <1>1, <1>2, <1>6, <1>7, <1>8, <1>9, <1>10, <1>11, <1>12, <1>13

LEMMA EffectKeeps ==
  ASSUME Typed, OwnerInv, NEW t \in Tasks, Accepted(t), Effect(t), pc[t] \in Calls
  PROVE  \A e \in Executions : CoreKept(t, e)
<1> SUFFICES ASSUME NEW e \in Executions PROVE CoreKept(t, e)
  OBVIOUS
<1>1. e # Exec(t) => status'[e] = status[e] /\ approval'[e] = approval[e]
  BY DEF Effect, Typed, RowsTyped
<1>2. e \in cards' => e \in cards \/ (Exec(t) = e /\ pc[t] = "post")
  BY DEF Effect
<1>3. CoreKnows(e)
  BY DEF OwnerInv
<1>4. CASE e # Exec(t)
  BY <1>1, <1>2, <1>3, <1>4 DEF CoreKept, CoreKnows
<1>5. CASE e = Exec(t)
  <2>1. "running" \notin TerminalStatuses /\ Absent \notin TerminalStatuses /\ Absent # "running"
        /\ Absent \notin {"waiting_approval", "completed", "failed", "blocked"}
        /\ "waiting_approval" \notin TerminalStatuses
    BY DEF TerminalStatuses, Absent
  <2>2. approval[e] \in {"none", "pending", "approved", "denied"}
    BY DEF Typed, RowsTyped
  <2>3. CASE pc[t] \in {"open", "request", "finish", "close", "seal", "decide", "shell"}
    BY <1>2, <1>3, <1>5, <2>1, <2>2, <2>3, OwnEffect, Zenon DEF CoreKept, CoreKnows
  <2>4. CASE pc[t] \notin {"open", "request", "finish", "close", "seal", "decide", "shell"}
    BY <1>2, <1>3, <1>5, <2>1, <2>4, OwnEffect DEF CoreKept, CoreKnows
  <2> QED
    BY <2>3, <2>4
<1> QED
  BY <1>4, <1>5

LEMMA CoreUnchanged ==
  ASSUME Typed, OwnerInv, NEW t \in Tasks, UNCHANGED <<core, cards>>
  PROVE  \A e \in Executions : CoreKept(t, e)
BY DEF core, OwnerInv, CoreKnows, CoreKept

\* What a handler that goes on after its call knows of its execution.
OwnRun(t) ==
  job[t].op = "run" =>
    /\ pc[t] # "open" /\ status[Exec(t)] # Absent
    /\ pc[t] \in Before \cup {"record"} => approval[Exec(t)] = "none"
    /\ pc[t] \in After => approval[Exec(t)] # "none"
    /\ pc[t] = "record" => status[Exec(t)] = "completed"
    /\ pc[t] \in Closing /\ status[Exec(t)] = "running" /\ approval[Exec(t)] = "none" =>
         hits[Exec(t)] >= 1

OwnDecision(t) ==
  Decides(t) /\ pc[t] \in {"decided", "updating"} =>
    approval[Exec(t)] = IF job[t].allow THEN "approved" ELSE "denied"

\* A step of a handler keeps what the others know.
LEMMA OwnerAssemble ==
  ASSUME Typed, Typed', OwnerInv, NEW t \in Tasks,
         \A u \in Tasks \ {t} : pc'[u] = pc[u] /\ job'[u] = job[u],
         \/ pc'[t] = "idle" /\ job'[t] = NoJob
         \/ job'[t].op = job[t].op /\ job'[t].exec = job[t].exec,
         \A e \in Executions : CoreKept(t, e) /\ hits'[e] >= hits[e],
         \A e \in Executions : item'[e] = item[e] \/ status'[e] # Absent,
         OwnRun(t)', OwnDecision(t)',
         \A e \in Executions :
           job[t].op = "run" /\ Exec(t) = e /\ status'[e] = "running" /\ approval'[e] = "none" =>
             \/ hits'[e] >= 2
             \/ job'[t].op = "run" /\ pc'[t] \in Before \cup Closing
  PROVE  OwnerInv'
<1>1. \A u \in Tasks : RunKnows(u) /\ DeciderKnows(u)
  BY DEF OwnerInv
<1>2. \A e \in Executions : CoreKnows(e)
  BY DEF OwnerInv
<1>3. \A e \in Executions : hits[e] \in Nat /\ hits'[e] \in Nat
  BY DEF Typed, RowsTyped
<1>4. \A u \in Tasks : /\ job'[u].op \in {"run", "decide", "shell"} =>
                            job'[u].op = job[u].op /\ Exec(u)' = Exec(u) /\ Exec(u) \in Executions
                       /\ Exec(u)' \in Executions => Exec(u)' = Exec(u)
                       /\ Exec(u)' \in Executions <=> job'[u].op \in {"run", "decide", "shell"}
  <2> SUFFICES ASSUME NEW u \in Tasks
               PROVE  /\ job'[u].op \in {"run", "decide", "shell"} =>
                            job'[u].op = job[u].op /\ Exec(u)' = Exec(u) /\ Exec(u) \in Executions
                      /\ Exec(u)' \in Executions => Exec(u)' = Exec(u)
                      /\ Exec(u)' \in Executions <=> job'[u].op \in {"run", "decide", "shell"}
    OBVIOUS
  <2>1. Exec(u)' \in Executions <=> job'[u].op \in {"run", "decide", "shell"}
    <3>1. JobTyped(u)'
      BY DEF Typed
    <3> QED
      BY <3>1 DEF JobTyped, NoJob, DraftRuns, Syntheses, SlackDecisions, ShellDecisions,
                  Announcements, Exec, Executions
  <2>2. CASE u = t
    BY <2>1, <2>2, JobOf DEF Exec, NoJob
  <2>3. CASE u # t
    BY <2>1, <2>3, JobOf DEF Exec
  <2> QED
    BY <2>2, <2>3
<1>5. ASSUME NEW u \in Tasks, job'[u].op = "run"
      PROVE  \A v \in Tasks : Runs(v, Exec(u))' => v = u
  BY <1>1, <1>4, <1>5 DEF RunKnows, Runs
<1>6. ASSUME NEW u \in Tasks \ {t}
      PROVE  RunKnows(u)'
  <2> SUFFICES ASSUME job'[u].op = "run" PROVE RunKnows(u)'
    BY DEF RunKnows
  <2>1. /\ pc'[u] = pc[u] /\ job[u].op = "run" /\ Exec(u)' = Exec(u) /\ Exec(u) \in Executions
    BY <1>4
  <2> PICK e \in Executions : e = Exec(u)
    BY <2>1
  <2>2. RunKnows(u) /\ CoreKept(t, e) /\ CoreKnows(e) /\ hits'[e] >= hits[e]
    BY <1>1, <1>2
  <2>3. pc[u] = "open" => /\ Exec(t) # e
                          /\ \A v \in Tasks : Exec(v)' = e => v = u
    BY <1>4, <2>1, <2>2 DEF RunKnows
  <2>4. pc[u] = "open" <=> status'[e] = Absent
    BY <2>1, <2>2, <2>3 DEF RunKnows, CoreKept
  <2>5. approval[e] = "none" /\ approval'[e] # "none" => FALSE
    <3> SUFFICES ASSUME approval[e] = "none", approval'[e] # "none" PROVE FALSE
      OBVIOUS
    <3>1. Exec(t) = e /\ pc[t] = "request"
      BY <2>2 DEF CoreKept
    <3>2. job[t].op = "run"
      BY <3>1, JobOf DEF DecideSteps, ShellSteps
    <3> QED
      BY <2>1, <2>2, <3>1, <3>2 DEF RunKnows, Runs
  <2>6. pc[u] \in After => approval'[e] # "none"
    BY <2>1, <2>2 DEF RunKnows, CoreKept
  <2>7. pc[u] = "record" => status'[e] = "completed"
    BY <2>1, <2>2 DEF RunKnows, CoreKept, TerminalStatuses
  <2>8. pc[u] \in Closing /\ status'[e] = "running" /\ approval'[e] = "none" => hits'[e] >= 1
    <3> SUFFICES ASSUME pc[u] \in Closing, status'[e] = "running", approval'[e] = "none"
                 PROVE  hits'[e] >= 1
      OBVIOUS
    <3>1. ~(Exec(t) = e /\ pc[t] = "open")
      <4> SUFFICES ASSUME Exec(t) = e, pc[t] = "open" PROVE FALSE
        OBVIOUS
      <4>1. job[t].op = "run"
        BY JobOf DEF DecideSteps, ShellSteps
      <4> QED
        BY <1>1, <2>1, <4>1 DEF RunKnows
    <3>2. status[e] = "running" /\ approval[e] = "none"
      BY <2>2, <3>1 DEF CoreKept
    <3>3. hits[e] >= 1
      BY <2>1, <2>2, <3>2 DEF RunKnows
    <3> QED
      BY <1>3, <2>2, <3>3
  <2>9. pc[u] \in Before \cup {"open", "record"} => approval'[e] = "none"
    BY <2>1, <2>2, <2>5 DEF RunKnows
  <2> QED
    BY <1>5, <2>1, <2>3, <2>4, <2>6, <2>7, <2>8, <2>9 DEF RunKnows
<1>7. RunKnows(t)'
  <2>1. job'[t].op = "run" => pc'[t] # "open"
    BY DEF OwnRun
  <2> QED
    BY <1>5, <2>1 DEF RunKnows, OwnRun
<1>8. ASSUME NEW u \in Tasks
      PROVE  DeciderKnows(u)'
  <2> SUFFICES ASSUME Decides(u)' PROVE DeciderKnows(u)'
    BY DEF DeciderKnows
  <2>1. Decides(u) /\ Exec(u)' = Exec(u) /\ Exec(u) \in Executions
    BY <1>4 DEF Decides
  <2> PICK e \in Executions : e = Exec(u)
    BY <2>1
  <2>2. DeciderKnows(u) /\ CoreKept(t, e)
    BY <1>1
  <2>3. approval'[e] # "none"
    BY <2>1, <2>2 DEF DeciderKnows, CoreKept
  <2>4. CASE u = t
    BY <2>1, <2>3, <2>4 DEF DeciderKnows, OwnDecision
  <2>5. CASE u # t
    <3>1. pc'[u] = pc[u] /\ job'[u].allow = job[u].allow
      BY <2>5
    <3>2. pc[u] \in {"decided", "updating"} => approval'[e] = approval[e]
      BY <2>1, <2>2 DEF DeciderKnows, CoreKept
    <3> QED
      BY <2>1, <2>2, <2>3, <3>1, <3>2 DEF DeciderKnows
  <2> QED
    BY <2>4, <2>5
<1>9. ASSUME NEW e \in Executions
      PROVE  CoreKnows(e)'
  <2>1. CoreKept(t, e) /\ CoreKnows(e) /\ hits'[e] >= hits[e]
    BY <1>2
  <2>2. status'[e] = Absent => approval'[e] = "none" /\ item'[e] = NoItem
    <3> SUFFICES ASSUME status'[e] = Absent PROVE approval'[e] = "none" /\ item'[e] = NoItem
      OBVIOUS
    <3>1. status[e] = Absent /\ item'[e] = item[e] /\ approval[e] = "none"
      BY <2>1 DEF CoreKept, CoreKnows
    <3>2. ~(Exec(t) = e /\ pc[t] = "request")
      <4> SUFFICES ASSUME Exec(t) = e, pc[t] = "request" PROVE FALSE
        OBVIOUS
      <4>1. job[t].op = "run"
        BY JobOf DEF DecideSteps, ShellSteps
      <4> QED
        BY <1>1, <3>1, <4>1 DEF RunKnows
    <3> QED
      BY <2>1, <3>1, <3>2 DEF CoreKept, CoreKnows
  <2>3. e \in cards' => approval'[e] # "none"
    <3>1. CASE e \in cards
      BY <2>1, <3>1 DEF CoreKept, CoreKnows
    <3>2. CASE Exec(t) = e /\ pc[t] = "post"
      <4>1. job[t].op = "run"
        BY <3>2, JobOf DEF DecideSteps, ShellSteps
      <4> QED
        BY <1>1, <2>1, <3>2, <4>1 DEF RunKnows, After, CoreKept
    <3> QED
      BY <2>1, <3>1, <3>2 DEF CoreKept
  <2>4. status'[e] = "running" => approval'[e] \in {"none", "approved"}
    BY <2>1 DEF CoreKept
  <2>5. status'[e] = "running" /\ approval'[e] = "none" =>
          \/ hits'[e] >= 2
          \/ \E u \in Tasks : Runs(u, e)' /\ pc'[u] \in Before \cup Closing
    <3> SUFFICES ASSUME status'[e] = "running", approval'[e] = "none"
                 PROVE  \/ hits'[e] >= 2
                        \/ \E u \in Tasks : Runs(u, e)' /\ pc'[u] \in Before \cup Closing
      OBVIOUS
    <3>1. CASE job[t].op = "run" /\ Exec(t) = e
      <4>1. CASE hits'[e] >= 2
        BY <4>1
      <4>2. CASE job'[t].op = "run" /\ pc'[t] \in Before \cup Closing
        <5>1. Exec(t)' = e
          BY <1>4, <3>1, <4>2
        <5> QED
          BY <4>2, <5>1 DEF Runs
      <4> QED
        BY <3>1, <4>1, <4>2
    <3>2. CASE ~(job[t].op = "run" /\ Exec(t) = e)
      <4>1. ~(Exec(t) = e /\ pc[t] = "open")
        BY <3>2, JobOf DEF DecideSteps, ShellSteps
      <4>2. status[e] = "running" /\ approval[e] = "none"
        BY <2>1, <4>1 DEF CoreKept
      <4>3. CASE hits[e] >= 2
        BY <1>3, <2>1, <4>3
      <4>4. ASSUME NEW u \in Tasks, Runs(u, e), pc[u] \in Before \cup Closing
            PROVE  Runs(u, e)' /\ pc'[u] \in Before \cup Closing
        <5>1. u # t
          BY <3>2, <4>4 DEF Runs
        <5> QED
          BY <4>4, <5>1 DEF Runs, Exec
      <4> QED
        BY <2>1, <4>2, <4>3, <4>4 DEF CoreKnows
    <3> QED
      BY <3>1, <3>2
  <2> QED
    BY <2>2, <2>3, <2>4, <2>5 DEF CoreKnows
<1> QED
  BY <1>6, <1>7, <1>8, <1>9 DEF OwnerInv

LEMMA MovesOne ==
  ASSUME Typed, NEW t \in Tasks, NEW label, NEW locals, Moves(t, label, locals)
  PROVE  /\ pc'[t] = label /\ job'[t] = locals
         /\ \A u \in Tasks \ {t} : pc'[u] = pc[u] /\ job'[u] = job[u]
BY DEF Typed, Moves

\* A run goes from one call to the next.
LEMMA OwnerGoes ==
  ASSUME Typed, Typed', OwnerInv, NEW t \in Tasks, NEW label, NEW locals, Moves(t, label, locals),
         job[t].op = "run", locals.op = "run", locals.exec = job[t].exec,
         Answered(t, pc[t]), pc[t] \in Calls,
         \A e \in Executions : hits'[e] >= hits[e],
         \A e \in Executions : e # Exec(t) => item'[e] = item[e],
         \/ pc[t] \in Before \cup {"open"} /\ label \in Before \ {"finish", "record"} /\ pc[t] \notin {"finish", "close", "request"}
         \/ pc[t] = "open" /\ label = "fail" /\ hits'[Exec(t)] >= 1
         \/ pc[t] = "complete" /\ label = "finish"
         \/ pc[t] = "finish" /\ label = "record"
         \/ pc[t] = "fail" /\ label = "seal"
         \/ pc[t] = "request" /\ label = "requested"
         \/ pc[t] = "post" /\ label = "posted"
  PROVE  OwnerInv'
<1>1. pc'[t] = label /\ job'[t] = locals
      /\ \A u \in Tasks \ {t} : pc'[u] = pc[u] /\ job'[u] = job[u]
  BY MovesOne
<1>2. Accepted(t) /\ Effect(t)
  BY DEF Answered
<1>3. \A e \in Executions : CoreKept(t, e)
  BY <1>2, EffectKeeps
<1> PICK e \in Executions : e = Exec(t)
  BY AtCall
<1>4. status'[e] # Absent
  BY <1>2, <1>3, OwnEffect DEF CoreKept, Absent
<1>5. RunKnows(t)
  BY DEF OwnerInv
<1>6. /\ pc[t] \in (Before \cup {"open"}) \ {"request"} => approval'[e] = "none"
      /\ pc[t] = "finish" => status'[e] = "completed"
      /\ pc[t] = "request" => status'[e] # "running" /\ approval'[e] # "none"
      /\ pc[t] = "post" => approval'[e] # "none"
      /\ pc[t] = "fail" => status'[e] = status[e] /\ approval'[e] = approval[e]
  <2>1. pc[t] \in (Before \cup {"open"}) \ {"request"} => approval'[e] = "none"
    BY <1>2, <1>5, OwnEffect DEF RunKnows, Before
  <2>2. pc[t] = "post" => approval'[e] # "none"
    BY <1>2, <1>5, OwnEffect DEF RunKnows, After
  <2> QED
    BY <1>2, <2>1, <2>2, OwnEffect
<1>7. hits'[e] \in Nat /\ hits[e] \in Nat /\ hits'[e] >= hits[e]
  BY DEF Typed, RowsTyped
<1>8. Exec(t)' = e
  BY <1>1 DEF Exec
<1>9. OwnRun(t)'
  <2>1. label \in Before \cup {"record"} => approval'[e] = "none"
    BY <1>6 DEF Before
  <2>2. label \in After => approval'[e] # "none"
    BY <1>6 DEF After, Before
  <2>3. label = "record" => status'[e] = "completed"
    BY <1>6 DEF Before
  <2>4. label \in Closing /\ status'[e] = "running" /\ approval'[e] = "none" => hits'[e] >= 1
    BY <1>5, <1>6, <1>7 DEF Closing, Before, RunKnows
  <2>5. label # "open"
    BY DEF Before
  <2> QED
    BY <1>1, <1>4, <1>8, <2>1, <2>2, <2>3, <2>4, <2>5 DEF OwnRun
<1>10. OwnDecision(t)'
  BY <1>1 DEF OwnDecision, Decides
<1>11. status'[e] = "running" /\ approval'[e] = "none" => label \in Before \cup Closing
  BY <1>6 DEF Before, Closing
<1> QED
  BY <1>1, <1>3, <1>4, <1>9, <1>10, <1>11, OwnerAssemble DEF Exec

\* A handler ends.
LEMMA OwnerEnds ==
  ASSUME Typed, Typed', OwnerInv, NEW t \in Tasks, End(t),
         \A e \in Executions : CoreKept(t, e) /\ hits'[e] >= hits[e],
         \A e \in Executions : item'[e] = item[e] \/ status'[e] # Absent,
         \A e \in Executions :
           job[t].op = "run" /\ Exec(t) = e /\ status'[e] = "running" /\ approval'[e] = "none" =>
             hits'[e] >= 2
  PROVE  OwnerInv'
<1>1. Moves(t, "idle", NoJob)
  BY GotoMoves
<1>2. pc'[t] = "idle" /\ job'[t] = NoJob
      /\ \A u \in Tasks \ {t} : pc'[u] = pc[u] /\ job'[u] = job[u]
  BY <1>1, MovesOne
<1>3. OwnRun(t)' /\ OwnDecision(t)'
  BY <1>2 DEF OwnRun, OwnDecision, Decides, NoJob
<1> QED
  BY <1>2, <1>3, OwnerAssemble

\* A decision goes on.
LEMMA OwnerDecides ==
  ASSUME Typed, Typed', OwnerInv, NEW t \in Tasks, NEW label, Moves(t, label, job[t]),
         job[t].op \in {"decide", "shell"},
         \A e \in Executions : CoreKept(t, e) /\ hits'[e] >= hits[e],
         \A e \in Executions : item'[e] = item[e] \/ status'[e] # Absent,
         label \in {"decided", "updating"} =>
           approval'[Exec(t)] = IF job[t].allow THEN "approved" ELSE "denied"
  PROVE  OwnerInv'
<1>1. pc'[t] = label /\ job'[t] = job[t]
      /\ \A u \in Tasks \ {t} : pc'[u] = pc[u] /\ job'[u] = job[u]
  BY MovesOne
<1>2. OwnRun(t)' /\ OwnDecision(t)'
  BY <1>1 DEF OwnRun, OwnDecision, Decides, Exec
<1> QED
  BY <1>1, <1>2, OwnerAssemble

LEMMA OwnerServe ==
  ASSUME Typed, Typed', OwnerInv, NEW t \in Tasks, Serve(t)
  PROVE  OwnerInv'
<1>1. \A e \in Executions : item'[e] = item[e] /\ hits'[e] = hits[e] /\ hits[e] \in Nat
  BY DEF Serve, rows, Quiet, Typed, RowsTyped
<1>2. CASE Answered(t, "request") /\ Goto(t, "requested")
  <2>1. Moves(t, "requested", job[t]) /\ pc[t] = "request" /\ job[t].op = "run"
    BY <1>2, GotoMoves, JobOf DEF Serve, Answered, DecideSteps, ShellSteps
  <2> QED
    BY <1>1, <1>2, <2>1, OwnerGoes DEF Calls, InSkill
<1>3. CASE Answered(t, "post") /\ Goto(t, "posted")
  <2>1. Moves(t, "posted", job[t]) /\ pc[t] = "post" /\ job[t].op = "run"
    BY <1>3, GotoMoves, JobOf DEF Serve, Answered, DecideSteps, ShellSteps
  <2> QED
    BY <1>1, <1>3, <2>1, OwnerGoes DEF Calls
<1>4. ASSUME NEW from \in {"decide", "shell"}, NEW to \in {"decided", "updating"},
             Answered(t, from), Goto(t, to)
      PROVE  OwnerInv'
  <2>1. Moves(t, to, job[t]) /\ pc[t] = from /\ job[t].op \in {"decide", "shell"}
    BY <1>4, GotoMoves, JobOf DEF Serve, Answered, RunSteps, InSkill
  <2>2. Accepted(t) /\ Effect(t) /\ pc[t] \in Calls
    BY <1>4 DEF Answered, Calls
  <2>3. approval'[Exec(t)] = IF job[t].allow THEN "approved" ELSE "denied"
    BY <2>1, <2>2, OwnEffect
  <2> QED
    BY <1>1, <2>1, <2>2, <2>3, EffectKeeps, OwnerDecides
<1> QED
  BY <1>2, <1>3, <1>4 DEF Serve

\* The calls of a run that go on to another.
LEMMA OwnerRun ==
  ASSUME Typed, Typed', OwnerInv, NEW t \in Tasks,
         \/ OpenAnswered(t) \/ StartAnswered(t) \/ ModelAnswered(t) \/ CompleteAnswered(t)
         \/ FinishAnswered(t) \/ FailAnswered(t)
  PROVE  OwnerInv'
<1>1. \A e \in Executions : hits[e] \in Nat
  BY DEF Typed, RowsTyped
<1>2. ASSUME NEW from \in {"open", "start", "model", "complete", "finish", "fail"},
             Answered(t, from), NEW to, Goto(t, to), UNCHANGED job,
             \A e \in Executions : hits'[e] >= hits[e],
             \A e \in Executions : e # Exec(t) => item'[e] = item[e],
             \/ from \in {"open", "start", "model"}
                /\ to \in {"start", "model", "retrieve", "give_up", "request", "complete"}
             \/ from = "open" /\ to = "fail" /\ hits'[Exec(t)] >= 1
             \/ from = "complete" /\ to = "finish"
             \/ from = "finish" /\ to = "record"
             \/ from = "fail" /\ to = "seal"
      PROVE  OwnerInv'
  <2>1. Moves(t, to, job[t]) /\ pc[t] = from /\ job[t].op = "run"
    BY <1>2, GotoMoves, JobOf DEF Answered, DecideSteps, ShellSteps
  <2> QED
    BY <1>2, <2>1, OwnerGoes DEF Calls, InSkill, Before
<1>3. CASE OpenAnswered(t)
  <2>1. Exec(t) \in Executions
    BY <1>3, AtCall DEF OpenAnswered, Answered, Calls
  <2>2. \A e \in Executions : hits'[e] >= hits[e] /\ item'[e] = item[e]
    BY <1>1, <1>3, <2>1 DEF OpenAnswered, rows, Typed, RowsTyped
  <2>3. (Goto(t, "fail") /\ hits'[Exec(t)] >= 1) \/ Goto(t, "start")
    BY <1>1, <1>3, <2>1 DEF OpenAnswered, Typed, RowsTyped
  <2> QED
    BY <1>2, <1>3, <2>2, <2>3 DEF OpenAnswered
<1>4. CASE StartAnswered(t)
  BY <1>1, <1>2, <1>4 DEF StartAnswered, Quiet
<1>5. CASE ModelAnswered(t)
  <2>1. \A e \in Executions : e # Exec(t) => item'[e] = item[e]
    BY <1>5 DEF ModelAnswered, SaveItem, Typed, RowsTyped
  <2> QED
    BY <1>1, <1>2, <1>5, <2>1 DEF ModelAnswered, Quiet
<1>6. CASE CompleteAnswered(t)
  BY <1>1, <1>2, <1>6 DEF CompleteAnswered, AfterComplete, Quiet
<1>7. CASE FinishAnswered(t)
  BY <1>1, <1>2, <1>7 DEF FinishAnswered, rows, Quiet
<1>8. CASE FailAnswered(t)
  BY <1>1, <1>2, <1>8 DEF FailAnswered, rows, Quiet
<1> QED
  BY <1>3, <1>4, <1>5, <1>6, <1>7, <1>8

LEMMA OwnerRetrieve ==
  ASSUME Typed, Typed', OwnerInv, NEW t \in Tasks, RetrieveAnswered(t) \/ GiveUpAnswered(t)
  PROVE  OwnerInv'
<1>1. \A e \in Executions : hits[e] \in Nat /\ hits'[e] = hits[e] /\ item'[e] = item[e]
  BY DEF RetrieveAnswered, GiveUpAnswered, rows, Quiet, Typed, RowsTyped
<1>2. CASE RetrieveAnswered(t)
  <2>1. pc[t] = "retrieve" /\ job[t].op = "run" /\ Answered(t, pc[t])
        /\ job[t] \in DraftRuns \cup Syntheses
    BY <1>2, JobOf DEF RetrieveAnswered, Answered, DecideSteps, ShellSteps
  <2>2. CASE Goto(t, "model") /\ UNCHANGED job
    <3>1. Moves(t, "model", job[t])
      BY <2>2, GotoMoves
    <3> QED
      BY <1>1, <2>1, <3>1, OwnerGoes DEF Calls, InSkill, Before
  <2>3. CASE Goto(t, "give_up") /\ job' = [job EXCEPT ![t].outcome = "blocked"]
    <3> DEFINE blocked == [job[t] EXCEPT !.outcome = "blocked"]
    <3>1. blocked.op = "run" /\ blocked.exec = job[t].exec
      BY <2>1 DEF DraftRuns, Syntheses
    <3>2. Moves(t, "give_up", blocked)
      BY <2>3 DEF Typed, Moves, Goto
    <3> HIDE DEF blocked
    <3> QED
      BY <1>1, <2>1, <3>1, <3>2, OwnerGoes DEF Calls, InSkill, Before
  <2> QED
    BY <1>2, <2>2, <2>3 DEF RetrieveAnswered
<1>3. CASE GiveUpAnswered(t)
  <2>1. pc[t] = "give_up" /\ job[t].op \in {"run", "decide"} /\ Answered(t, pc[t])
        /\ Moves(t, "close", job[t])
    BY <1>3, JobOf, GotoMoves DEF GiveUpAnswered, Answered, ShellSteps
  <2>2. CASE job[t].op = "run"
    BY <1>1, <2>1, <2>2, OwnerGoes DEF Calls, InSkill, Before
  <2>3. CASE job[t].op = "decide"
    <3>1. Accepted(t) /\ Effect(t) /\ pc[t] \in Calls
      BY <2>1 DEF Answered, Calls, InSkill
    <3> QED
      BY <1>1, <2>1, <2>3, <3>1, EffectKeeps, OwnerDecides
  <2> QED
    BY <2>1, <2>2, <2>3
<1> QED
  BY <1>2, <1>3

\* What run does when its draft waits for approval.
LEMMA OwnerRequest ==
  ASSUME Typed, Typed', OwnerInv, NEW t \in Tasks, RequestContinued(t) \/ PostContinued(t)
  PROVE  OwnerInv'
<1>1. job[t].op = "run"
  BY JobOf DEF RequestContinued, PostContinued, DecideSteps, ShellSteps
<1> PICK e \in Executions : e = Exec(t)
  BY AtCall DEF RequestContinued, PostContinued
<1>2. approval[e] # "none" /\ status[e] # Absent
  BY <1>1 DEF RequestContinued, PostContinued, OwnerInv, RunKnows, After
<1>3. UNCHANGED <<core, cards>> /\ hits' = hits
  BY DEF RequestContinued, PostContinued, Quiet
<1>4. \A d \in Executions : CoreKept(t, d) /\ hits'[d] >= hits[d]
  BY <1>3, CoreUnchanged DEF Typed, RowsTyped
<1>5. \A d \in Executions : item'[d] = item[d] \/ status'[d] # Absent
  BY <1>2, <1>3 DEF RequestContinued, PostContinued, SaveItem, core, Typed, RowsTyped
<1>6. approval'[e] # "none" /\ status'[e] # Absent
  BY <1>2, <1>3 DEF core
<1>7. CASE End(t)
  BY <1>4, <1>5, <1>6, <1>7, OwnerEnds
<1>8. CASE RequestContinued(t) /\ job[t].then = "post" /\ Goto(t, "post")
  <2> PICK linked : job' = [job EXCEPT ![t].copy = linked]
    BY <1>8 DEF RequestContinued
  <2>1. job[t] \in DraftRuns
    BY <1>1, <1>8, JobOf DEF Syntheses
  <2>2. pc'[t] = "post" /\ \A u \in Tasks \ {t} : pc'[u] = pc[u] /\ job'[u] = job[u]
    BY <1>8 DEF Typed, Goto
  <2>3. job'[t].op = "run" /\ job'[t].exec = job[t].exec
    BY <2>1 DEF DraftRuns, Typed
  <2>4. OwnRun(t)'
    <3>1. Exec(t)' = e
      BY <2>3 DEF Exec
    <3> QED
      BY <1>6, <2>2, <3>1 DEF OwnRun, Before, After, Closing
  <2>5. OwnDecision(t)'
    BY <2>2 DEF OwnDecision
  <2> QED
    BY <1>1, <1>4, <1>5, <1>6, <2>2, <2>3, <2>4, <2>5, OwnerAssemble
<1> QED
  BY <1>7, <1>8 DEF RequestContinued, PostContinued

LEMMA OwnerEnd ==
  ASSUME Typed, Typed', OwnerInv, NEW t \in Tasks, RunReturns(t) \/ SealAnswered(t)
  PROVE  OwnerInv'
<1>1. \A e \in Executions : hits[e] \in Nat /\ hits'[e] = hits[e] /\ item'[e] = item[e]
  BY DEF RunReturns, SealAnswered, history, Quiet, Typed, RowsTyped
<1>2. pc[t] \in {"record", "close", "seal"} /\ Accepted(t) /\ Effect(t) /\ pc[t] \in Calls
      /\ End(t)
  BY DEF RunReturns, SealAnswered, Answered, Calls, InSkill
<1>3. RunKnows(t)
  BY DEF OwnerInv
<1>4. job[t].op = "run" => status'[Exec(t)] # "running"
  BY <1>2, <1>3, OwnEffect DEF RunKnows
<1> QED
  BY <1>1, <1>2, <1>4, EffectKeeps, OwnerEnds

LEMMA OwnerShow ==
  ASSUME Typed, Typed', OwnerInv, NEW t \in Tasks, ShowDecision(t)
  PROVE  OwnerInv'
<1>1. job[t].op \in {"decide", "shell"}
  BY JobOf DEF ShowDecision, RunSteps, InSkill
<1> PICK e \in Executions : e = Exec(t)
  BY AtCall DEF ShowDecision
<1>2. status[e] # Absent
  BY <1>1 DEF OwnerInv, DeciderKnows, Decides, CoreKnows
<1>3. UNCHANGED <<core, cards>> /\ hits' = hits
  BY DEF ShowDecision, Quiet
<1>4. \A d \in Executions : CoreKept(t, d) /\ hits'[d] >= hits[d]
  BY <1>3, CoreUnchanged DEF Typed, RowsTyped
<1>5. \A d \in Executions : item'[d] = item[d] \/ status'[d] # Absent
  BY <1>2, <1>3 DEF ShowDecision, SaveItem, core, Typed, RowsTyped
<1>6. CASE End(t)
  BY <1>1, <1>4, <1>5, <1>6, OwnerEnds
<1>7. CASE Goto(t, "give_up") /\ UNCHANGED job
  <2>1. Moves(t, "give_up", job[t])
    BY <1>7, GotoMoves
  <2> QED
    BY <1>1, <1>4, <1>5, <2>1, OwnerDecides
<1> QED
  BY <1>6, <1>7 DEF ShowDecision

\* The core serves every call of a run whose execution is running.
LEMMA RunningIsServed ==
  ASSUME Typed, NEW t \in Tasks, job[t].op = "run", pc[t] \in Calls, status[Exec(t)] = "running"
  PROVE  Accepted(t)
<1>1. pc[t] \in InSkill \cup {"open", "post", "fail", "seal"}
  BY JobOf DEF Calls, RunSteps
<1>2. "running" \notin TerminalStatuses
  BY DEF TerminalStatuses
<1>3. pc[t] = "close" => Target(t) \in {"failed", "blocked"}
  <2>1. job[t] \in DraftRuns \cup Syntheses
    BY JobOf
  <2> QED
    BY <2>1 DEF Target, DraftRuns, Syntheses
<1>4. /\ pc[t] = "request" => Target(t) = "waiting_approval"
      /\ pc[t] = "seal" => Target(t) = "failed"
      /\ pc[t] \notin {"open", "request", "close", "finish", "seal"} => Target(t) = "running"
  BY <1>1 DEF Target, InSkill
<1>5. \A s \in {"running", "waiting_approval", "failed", "blocked"} : CanMove("running", s)
  BY DEF CanMove, Transitions
<1>6. pc[t] \notin {"open", "record", "post", "finish"} => CanMove(status[Exec(t)], Target(t))
  BY <1>3, <1>4, <1>5
<1> QED
  BY <1>1, <1>2, <1>6 DEF Accepted, InSkill

\* The error paths: an error counts, and a run whose execution still runs
\* goes on to close it unless it is the second.
LEMMA OwnerRaise ==
  ASSUME Typed, Typed', OwnerInv, NEW t \in Tasks, NEW lost \in BOOLEAN, Raise(t, lost),
         pc[t] \in Calls, UNCHANGED item,
         \A e \in Executions : CoreKept(t, e) /\ hits'[e] >= hits[e],
         job[t].op = "run" /\ status'[Exec(t)] = "running" =>
           /\ hits'[Exec(t)] >= 1
           /\ pc[t] = "open" => hits'[Exec(t)] >= 2
           /\ pc[t] \in Closing /\ approval'[Exec(t)] = "none" => hits'[Exec(t)] >= 2
  PROVE  OwnerInv'
<1> PICK e \in Executions : e = Exec(t)
  BY AtCall
<1>1. RunKnows(t) /\ CoreKept(t, e)
  BY DEF OwnerInv
<1>2. CASE job[t].op = "run" /\ pc[t] \in InSkill /\ Caught(lost)
  <2>1. Moves(t, "fail", job[t])
    BY <1>2, GotoMoves DEF Raise
  <2>2. pc'[t] = "fail" /\ job'[t] = job[t]
        /\ \A u \in Tasks \ {t} : pc'[u] = pc[u] /\ job'[u] = job[u]
    BY <2>1, MovesOne
  <2>3. status[e] # Absent
    BY <1>1, <1>2 DEF RunKnows, InSkill
  <2>4. OwnRun(t)' /\ OwnDecision(t)'
    BY <1>1, <1>2, <2>2, <2>3 DEF OwnRun, OwnDecision, Exec, CoreKept, Before, After
  <2> QED
    BY <1>2, <2>2, <2>4, OwnerAssemble DEF Closing
<1>3. CASE ~(job[t].op = "run" /\ pc[t] \in InSkill /\ Caught(lost))
  <2>1. End(t)
    BY <1>3 DEF Raise
  <2>2. ASSUME job[t].op = "run", status'[e] = "running", approval'[e] = "none"
        PROVE  hits'[e] >= 2
    <3>1. pc[t] \in {"open", "post"} \cup Closing
      BY <1>3, <2>2, JobOf DEF Caught, Calls, RunSteps, Closing
    <3>2. pc[t] # "post"
      BY <1>1, <2>2 DEF RunKnows, CoreKept, After
    <3> QED
      BY <2>2, <3>1, <3>2
  <2> QED
    BY <2>1, <2>2, OwnerEnds
<1> QED
  BY <1>2, <1>3

LEMMA OwnerFailure ==
  ASSUME Typed, Typed', OwnerInv, NEW t \in Tasks, Refused(t) \/ Break(t)
  PROVE  OwnerInv'
<1>1. \A e \in Executions : hits[e] \in Nat
  BY DEF Typed, RowsTyped
<1>2. CASE Refused(t)
  <2>1. pc[t] \in Calls /\ ~Accepted(t) /\ Raise(t, FALSE) /\ UNCHANGED <<core, cards>>
        /\ UNCHANGED <<item, hits>>
    BY <1>2 DEF Refused, Quiet
  <2>2. ~(job[t].op = "run" /\ status'[Exec(t)] = "running")
    BY <2>1, RunningIsServed DEF core
  <2>3. \A e \in Executions : CoreKept(t, e) /\ hits'[e] >= hits[e]
    BY <1>1, <2>1, CoreUnchanged
  <2> QED
    BY <2>1, <2>2, <2>3, OwnerRaise
<1>3. CASE Break(t)
  <2> PICK lost, effect \in BOOLEAN :
         /\ effect => lost /\ Accepted(t)
         /\ IF effect THEN Effect(t) ELSE UNCHANGED <<core, cards>>
         /\ Raise(t, lost)
    BY <1>3 DEF Break
  <2>1. pc[t] \in Calls /\ UNCHANGED item
    BY <1>3 DEF Break
  <2> PICK e \in Executions : e = Exec(t)
    BY <2>1, AtCall
  <2>2. \A d \in Executions : CoreKept(t, d)
    BY <2>1, EffectKeeps, CoreUnchanged
  <2>3. /\ hits'[e] = hits[e] + IF pc[t] = "open" THEN 2 ELSE 1
        /\ \A d \in Executions \ {e} : hits'[d] = hits[d]
    BY <1>3 DEF Break, Typed, RowsTyped
  <2>4. hits'[e] >= 1 /\ (pc[t] = "open" => hits'[e] >= 2)
        /\ \A d \in Executions : hits'[d] >= hits[d]
    BY <1>1, <2>3
  <2>5. ASSUME job[t].op = "run", status'[e] = "running", pc[t] \in Closing, approval'[e] = "none"
        PROVE  hits'[e] >= 2
    <3>1. CoreKept(t, e) /\ RunKnows(t)
      BY <2>2 DEF OwnerInv
    <3>2. status[e] = "running" /\ approval[e] = "none"
      BY <2>5, <3>1 DEF CoreKept, Closing
    <3>3. hits[e] >= 1
      BY <2>5, <3>1, <3>2 DEF RunKnows
    <3> QED
      BY <1>1, <2>3, <2>5, <3>3 DEF Closing
  <2> QED
    BY <2>1, <2>2, <2>4, <2>5, OwnerRaise
<1> QED
  BY <1>2, <1>3

LEMMA OwnerTold ==
  ASSUME Typed, Typed', OwnerInv, NEW t \in Tasks, Told(t) \/ Untold(t)
  PROVE  OwnerInv'
<1>1. UNCHANGED <<core, cards, item, hits>> /\ End(t)
  BY DEF Told, Untold, rows, slack, history
<1>2. job[t].op # "run"
  BY JobOf DEF Told, Untold, RunSteps, InSkill
<1>3. \A e \in Executions : CoreKept(t, e) /\ hits'[e] >= hits[e]
  BY <1>1, CoreUnchanged DEF Typed, RowsTyped
<1> QED
  BY <1>1, <1>2, <1>3, OwnerEnds

\* What a handler begins with.
LEMMA HandlerBegins ==
  ASSUME Typed, OwnerInv, NEW t \in Tasks, Handle(t)
  PROVE  /\ pc[t] = "idle" /\ UNCHANGED <<core, rows, slack, hits, raced>>
         /\ \A u \in Tasks \ {t} : pc'[u] = pc[u] /\ job'[u] = job[u]
         /\ \/ /\ pc'[t] = "open" /\ job'[t].op = "run"
               /\ \E e \in Executions : Fresh(e) /\ job'[t].exec = e
            \/ /\ pc'[t] \in {"decide", "shell"} /\ job'[t].op \in {"decide", "shell"}
               /\ \E e \in Executions : approval[e] # "none" /\ job'[t].exec = e
            \/ pc'[t] = "tell" /\ job'[t].op = "next" /\ job'[t].exec = 0
<1> DEFINE Starts(label, locals) ==
             /\ pc[t] = "idle" /\ UNCHANGED <<core, rows, slack, hits, raced>>
             /\ \A u \in Tasks \ {t} : pc'[u] = pc[u] /\ job'[u] = job[u]
             /\ pc'[t] = label /\ job'[t] = locals
<1>1. ASSUME NEW label, NEW locals, Begin(t, locals, label),
             UNCHANGED <<core, rows, slack, failures, history>>
      PROVE  Starts(label, locals)
  BY <1>1 DEF Begin, Goto, Typed, history
<1>2. ASSUME NEW skill, NEW then, NEW e \in Executions, NEW copy, Fresh(e),
             Begin(t, RunOf(skill, then, e, copy), "open"),
             UNCHANGED <<core, rows, slack, failures, history>>
      PROVE  /\ Starts("open", RunOf(skill, then, e, copy)) /\ Fresh(e)
             /\ RunOf(skill, then, e, copy).op = "run" /\ RunOf(skill, then, e, copy).exec = e
  BY <1>1, <1>2 DEF RunOf
<1> HIDE DEF Starts
<1>3. ASSUME NEW e \in Executions, Generate(t, e) \/ CronGenerate(t, e)
      PROVE  \E locals : Starts("open", locals) /\ Fresh(e) /\ locals.op = "run" /\ locals.exec = e
  BY <1>2, <1>3 DEF Generate, CronGenerate
<1>4. ASSUME NEW e \in Executions, NEW allow \in BOOLEAN, SlackDecide(t, e, allow) \/ ShellDecide(t, e, allow)
      PROVE  \E label \in {"decide", "shell"} : \E locals :
               /\ Starts(label, locals) /\ approval[e] # "none"
               /\ locals.op \in {"decide", "shell"} /\ locals.exec = e
  <2>1. CASE SlackDecide(t, e, allow)
    <3> DEFINE locals == [op |-> "decide", exec |-> e, allow |-> allow, outcome |-> "blocked"]
    <3>1. Starts("decide", locals) /\ approval[e] # "none"
      BY <1>1, <2>1 DEF SlackDecide, OwnerInv, CoreKnows
    <3>2. locals.op = "decide" /\ locals.exec = e
      OBVIOUS
    <3> HIDE DEF locals
    <3> QED
      BY <3>1, <3>2
  <2>2. CASE ShellDecide(t, e, allow)
    <3> DEFINE locals == [op |-> "shell", exec |-> e, allow |-> allow]
    <3>1. Starts("shell", locals) /\ approval[e] # "none"
      BY <1>1, <2>2 DEF ShellDecide
    <3>2. locals.op = "shell" /\ locals.exec = e
      OBVIOUS
    <3> HIDE DEF locals
    <3> QED
      BY <3>1, <3>2
  <2> QED
    BY <1>4, <2>1, <2>2
<1>5. ASSUME NEW e \in Executions, Fresh(e), Begin(t, RunOf("drafting", "propose", e, session), "open"),
             UNCHANGED <<core, rows, slack, failures, history>>
      PROVE  \E locals : Starts("open", locals) /\ Fresh(e) /\ locals.op = "run" /\ locals.exec = e
  BY <1>2, <1>5
<1>6. SayNext(t) \/ Regenerate(t) =>
        \/ \E e \in Executions : \E locals :
             Starts("open", locals) /\ Fresh(e) /\ locals.op = "run" /\ locals.exec = e
        \/ \E locals : Starts("tell", locals) /\ locals.op = "next" /\ locals.exec = 0
  <2>1. CASE SayNext(t) /\ session.phase < Phases
    <3> DEFINE locals == [op |-> "next", exec |-> 0, copy |-> [session EXCEPT !.phase = @ + 1]]
    <3>1. CASE Begin(t, locals, "tell")
      <4>1. Starts("tell", locals)
        BY <1>1, <2>1, <3>1 DEF SayNext
      <4>2. locals.op = "next" /\ locals.exec = 0
        OBVIOUS
      <4> HIDE DEF locals
      <4> QED
        BY <4>1, <4>2
    <3>2. CASE \E e \in Executions : Fresh(e) /\ Begin(t, RunOf("drafting", "propose", e, session), "open")
      BY <1>5, <2>1, <3>2 DEF SayNext
    <3> QED
      BY <2>1, <3>1, <3>2 DEF SayNext
  <2>2. CASE SayNext(t) /\ ~(session.phase < Phases)
    BY <1>5, <2>2 DEF SayNext
  <2>3. CASE Regenerate(t)
    BY <1>5, <2>3 DEF Regenerate
  <2> QED
    BY <2>1, <2>2, <2>3
<1>7. \/ \E e \in Executions : \E locals :
           Starts("open", locals) /\ Fresh(e) /\ locals.op = "run" /\ locals.exec = e
      \/ \E e \in Executions, label \in {"decide", "shell"} : \E locals :
           /\ Starts(label, locals) /\ approval[e] # "none"
           /\ locals.op \in {"decide", "shell"} /\ locals.exec = e
      \/ \E locals : Starts("tell", locals) /\ locals.op = "next" /\ locals.exec = 0
  BY <1>3, <1>4, <1>6 DEF Handle
<1> QED
  BY <1>7 DEF Starts

LEMMA OwnerHandle ==
  ASSUME Typed, Typed', OwnerInv, NEW t \in Tasks, Handle(t)
  PROVE  OwnerInv'
<1>1. /\ pc[t] = "idle" /\ UNCHANGED <<status, approval, item, cards, hits>>
      /\ \A u \in Tasks \ {t} : pc'[u] = pc[u] /\ job'[u] = job[u]
  BY HandlerBegins DEF core, rows, slack
<1>2. Exec(t) = 0 /\ job[t].op = "none" /\ 0 \notin Executions
  BY <1>1, JobOf DEF NoJob, Exec, Executions
<1>3. \A e \in Executions : Fresh(e) => status[e] = Absent /\ approval[e] = "none"
                                        /\ \A u \in Tasks : Exec(u) # e
  BY DEF Fresh, Busy, OwnerInv, CoreKnows
<1>4. \A u \in Tasks : RunKnows(u) /\ DeciderKnows(u)
  BY DEF OwnerInv
<1>5. \A u \in Tasks \ {t} : Exec(u)' = Exec(u) /\ (\A e : Runs(u, e)' <=> Runs(u, e))
  BY <1>1 DEF Exec, Runs
<1>6. ASSUME NEW e \in Executions
      PROVE  CoreKnows(e)'
  <2>1. CoreKnows(e)
    BY DEF OwnerInv
  <2>2. \A u \in Tasks : Runs(u, e) => u # t
    BY <1>2 DEF Runs
  <2> QED
    BY <1>1, <1>5, <2>1, <2>2 DEF CoreKnows
<1>7. CASE /\ pc'[t] = "open" /\ job'[t].op = "run"
           /\ \E e \in Executions : Fresh(e) /\ job'[t].exec = e
  <2> PICK e \in Executions : Fresh(e) /\ job'[t].exec = e
    BY <1>7
  <2>1. Exec(t)' = e /\ status[e] = Absent /\ approval[e] = "none" /\ \A u \in Tasks : Exec(u) # e
    BY <1>3 DEF Exec
  <2>2. RunKnows(t)'
    BY <1>1, <1>5, <1>7, <2>1 DEF RunKnows, Runs, After, Closing
  <2>3. \A u \in Tasks \ {t} : RunKnows(u)'
    BY <1>1, <1>4, <1>5, <2>1 DEF RunKnows, Runs
  <2>4. \A u \in Tasks : DeciderKnows(u)'
    BY <1>1, <1>4, <1>5, <1>7 DEF DeciderKnows, Decides
  <2> QED
    BY <1>6, <2>2, <2>3, <2>4 DEF OwnerInv
<1>8. CASE /\ pc'[t] \in {"decide", "shell"} /\ job'[t].op \in {"decide", "shell"}
           /\ \E e \in Executions : approval[e] # "none" /\ job'[t].exec = e
  <2> PICK e \in Executions : approval[e] # "none" /\ job'[t].exec = e
    BY <1>8
  <2>1. Exec(t)' = e /\ status[e] # Absent
    BY DEF Exec, OwnerInv, CoreKnows
  <2>2. RunKnows(t)' /\ DeciderKnows(t)'
    BY <1>1, <1>8, <2>1 DEF RunKnows, DeciderKnows
  <2>3. \A u \in Tasks \ {t} : RunKnows(u)'
    BY <1>1, <1>4, <1>5, <1>8, <2>1 DEF RunKnows, Runs
  <2>4. \A u \in Tasks \ {t} : DeciderKnows(u)'
    BY <1>1, <1>4, <1>5 DEF DeciderKnows, Decides
  <2> QED
    BY <1>6, <2>2, <2>3, <2>4 DEF OwnerInv
<1>9. CASE pc'[t] = "tell" /\ job'[t].op = "next" /\ job'[t].exec = 0
  <2>1. Exec(t)' = 0
    BY <1>9 DEF Exec
  <2>2. RunKnows(t)' /\ DeciderKnows(t)'
    BY <1>9 DEF RunKnows, DeciderKnows, Decides
  <2>3. \A u \in Tasks \ {t} : job[u].op = "run" => Exec(u) \in Executions
    BY JobOf
  <2>4. \A u \in Tasks \ {t} : RunKnows(u)'
    BY <1>1, <1>2, <1>4, <1>5, <1>9, <2>1, <2>3 DEF RunKnows, Runs
  <2>5. \A u \in Tasks \ {t} : DeciderKnows(u)'
    BY <1>1, <1>4, <1>5 DEF DeciderKnows, Decides
  <2> QED
    BY <1>6, <2>2, <2>4, <2>5 DEF OwnerInv
<1> QED
  BY <1>7, <1>8, <1>9, HandlerBegins

\* A restart leaves the handlers of the session route, and counts as two
\* errors for the executions of the others.
LEMMA OwnerRestart ==
  ASSUME Typed, OwnerInv, Restart
  PROVE  OwnerInv'
<1> DEFINE mine == {t \in Tasks : pc[t] # "idle" /\ job[t].op # "shell"}
<1>1. /\ pc' = [t \in Tasks |-> IF t \in mine THEN "idle" ELSE pc[t]]
      /\ job' = [t \in Tasks |-> IF t \in mine THEN NoJob ELSE job[t]]
      /\ hits' = [e \in Executions |-> hits[e] + IF \E t \in mine : Exec(t) = e THEN 2 ELSE 0]
      /\ UNCHANGED <<status, approval, item, cards>>
  BY DEF Restart, core, rows, slack
<1>2. ASSUME NEW t \in Tasks
      PROVE  job'[t].op # "run" /\ (Decides(t)' => pc'[t] = pc[t] /\ job'[t] = job[t])
  <2>1. CASE t \in mine
    BY <1>1, <2>1 DEF NoJob, Decides
  <2>2. CASE t \notin mine
    BY <1>1, <2>2, JobOf DEF NoJob
  <2> QED
    BY <2>1, <2>2
<1>3. \A t \in Tasks : RunKnows(t)' /\ DeciderKnows(t)'
  BY <1>1, <1>2 DEF OwnerInv, RunKnows, DeciderKnows, Decides, Exec
<1>4. ASSUME NEW e \in Executions
      PROVE  CoreKnows(e)'
  <2>1. CoreKnows(e)
    BY DEF OwnerInv
  <2>2. hits[e] \in Nat
    BY DEF Typed, RowsTyped
  <2>3. ASSUME NEW t \in Tasks, Runs(t, e)
        PROVE  hits'[e] >= 2
    <3>1. t \in mine
      BY <2>3, JobOf DEF Runs
    <3> HIDE DEF mine
    <3> QED
      BY <1>1, <2>2, <2>3, <3>1 DEF Runs
  <2>4. hits'[e] >= hits[e] /\ hits'[e] \in Nat
    BY <1>1, <2>2
  <2> HIDE DEF mine
  <2> QED
    BY <1>1, <2>1, <2>2, <2>3, <2>4 DEF CoreKnows
<1> QED
  BY <1>3, <1>4 DEF OwnerInv

LEMMA OwnerSame ==
  ASSUME OwnerInv, UNCHANGED <<status, approval, item, cards, pc, job, hits>>
  PROVE  OwnerInv'
BY DEF OwnerInv, RunKnows, DeciderKnows, CoreKnows, Runs, Decides, Exec

\* A decision on the approvals route: nobody has decided the execution yet.
LEMMA OwnerBypass ==
  ASSUME Typed, OwnerInv, NEW e \in Executions, NEW allow \in BOOLEAN, DecideOnly(e, allow)
  PROVE  OwnerInv'
<1>1. /\ approval[e] = "pending" /\ approval'[e] \in {"approved", "denied"}
      /\ \A d \in Executions \ {e} : approval'[d] = approval[d]
      /\ UNCHANGED <<status, item, cards, pc, job, hits>>
  BY DEF DecideOnly, Decidable, rows, slack, history, Typed, RowsTyped
<1>2. status[e] # "running"
  BY <1>1 DEF OwnerInv, CoreKnows
<1>3. ASSUME NEW t \in Tasks
      PROVE  RunKnows(t)' /\ DeciderKnows(t)'
  <2>1. RunKnows(t) /\ DeciderKnows(t)
    BY DEF OwnerInv
  <2>2. job[t].op \in {"run", "decide", "shell"} => Exec(t) \in Executions
    BY JobOf
  <2>3. RunKnows(t)'
    BY <1>1, <1>2, <2>1, <2>2 DEF RunKnows, Runs, Exec
  <2>4. DeciderKnows(t)'
    BY <1>1, <2>1, <2>2 DEF DeciderKnows, Decides, Exec
  <2> QED
    BY <2>3, <2>4
<1>4. ASSUME NEW d \in Executions
      PROVE  CoreKnows(d)'
  <2>1. CoreKnows(d)
    BY DEF OwnerInv
  <2> QED
    BY <1>1, <1>2, <2>1 DEF CoreKnows, Runs, Exec
<1> QED
  BY <1>3, <1>4 DEF OwnerInv

LEMMA InitOwner == Init => OwnerInv
<1> SUFFICES ASSUME Init PROVE OwnerInv
  OBVIOUS
<1>1. \A t \in Tasks : job[t].op = "none"
  BY DEF Init, NoJob
<1>2. \A e \in Executions : CoreKnows(e)
  BY DEF Init, CoreKnows, Absent
<1> QED
  BY <1>1, <1>2 DEF OwnerInv, RunKnows, DeciderKnows, Decides

LEMMA NextOwner == Typed /\ OwnerInv /\ [Next]_vars => OwnerInv'
<1> SUFFICES ASSUME Typed, OwnerInv, [Next]_vars PROVE OwnerInv'
  OBVIOUS
<1>1. Typed'
  BY NextTyped
<1>2. ASSUME NEW t \in Tasks, Step(t)
      PROVE  OwnerInv'
  BY <1>1, <1>2, OwnerServe, OwnerFailure, OwnerRun, OwnerRetrieve, OwnerRequest, OwnerEnd, OwnerShow,
     OwnerTold
     DEF Step
<1>3. CASE StartOnboarding \/ ApproveBrand \/ RejectBrand \/ \E a \in Answers : Reply(a)
  BY <1>3, OwnerSame DEF StartOnboarding, ApproveBrand, RejectBrand, Reply, core, slack, history
<1>4. CASE UNCHANGED vars
  BY <1>4, OwnerSame DEF vars, core, rows, slack, history
<1> QED
  BY <1>1, <1>2, <1>3, <1>4, OwnerHandle, OwnerBypass, OwnerRestart DEF Next

\* No single error leaves an execution open that nobody works on: the except
\* clauses of run take every error to the closing of the execution, whatever
\* else Slack and the shell decide meanwhile.
THEOREM OneErrorIsClosed == Spec => []UnsealedIsExplained
<1>1. Init => Typed /\ OwnerInv
  BY InitTyped, InitOwner
<1>2. Typed /\ OwnerInv /\ [Next]_vars => (Typed /\ OwnerInv)'
  BY NextTyped, NextOwner
<1>3. Typed /\ OwnerInv => UnsealedIsExplained
  <2> SUFFICES ASSUME Typed, OwnerInv, NEW e \in Executions, ~Busy(e), status[e] = "running"
               PROVE  approval[e] = "approved" \/ hits[e] >= 2
    BY DEF UnsealedIsExplained
  <2> QED
    BY DEF OwnerInv, CoreKnows, Busy, Runs
<1> QED
  BY <1>1, <1>2, <1>3, PTL DEF Spec

-----------------------------------------------------------------------------
(* Brands *)

\* A step of a handler changes the core by a call that is served, if at all.
LEMMA CoreSteps ==
  ASSUME Typed, NEW t \in Tasks, Step(t)
  PROVE  \/ UNCHANGED <<core, cards>>
         \/ Accepted(t) /\ Effect(t) /\ pc[t] \in Calls
<1>1. CASE Break(t)
  BY <1>1 DEF Break
<1>2. CASE ~Break(t)
  <2>1. \/ UNCHANGED <<core, cards>>
        \/ \E label \in Calls : Answered(t, label)
    BY <1>2 DEF Step, Serve, Refused, OpenAnswered, StartAnswered, RetrieveAnswered, ModelAnswered,
         GiveUpAnswered, RequestContinued, PostContinued, CompleteAnswered, FinishAnswered, RunReturns,
         FailAnswered, SealAnswered, ShowDecision, Told, Untold, Quiet, slack, Calls, InSkill
  <2> QED
    BY <2>1 DEF Answered
<1> QED
  BY <1>1, <1>2

LEMMA StepKeeps ==
  ASSUME Typed, OwnerInv, NEW t \in Tasks, Step(t)
  PROVE  \A e \in Executions : CoreKept(t, e)
BY CoreSteps, EffectKeeps, CoreUnchanged

LEMMA FinishedStays ==
  ASSUME Typed, OwnerInv, [Next]_vars, NEW draft, Finished(draft)
  PROVE  draft \in Executions => status'[draft] = "completed"
<1>1. ASSUME NEW t \in Tasks, Step(t), draft \in Executions
      PROVE  status'[draft] = "completed"
  BY <1>1, StepKeeps DEF Finished, CoreKept, TerminalStatuses
<1>2. ASSUME NEW t \in Tasks, Handle(t)
      PROVE  status' = status
  BY <1>2, HandlerBegins DEF core
<1>3. (\A t \in Tasks : ~Handle(t) /\ ~Step(t)) => status' = status
  BY DEF Next, DecideOnly, StartOnboarding, ApproveBrand, RejectBrand, Reply, Restart, vars, core
<1> QED
  BY <1>1, <1>2, <1>3 DEF Finished

\* Brand and session after a step that leaves the brand alone.
LEMMA BrandSame ==
  ASSUME Typed, OwnerInv, BrandInv, [Next]_vars, UNCHANGED <<brand, activated>>,
         session'.version \in {0, brand.version, brand.version + 1},
         session'.version = brand.version /\ brand.version > 0 => session'.draft = brand.content,
         session'.version # 0 => session'.phase = Awaiting,
         session'.draft \in Executions => status'[session'.draft] = "completed",
         \A u \in Tasks : Holding(u)' => Finished(job'[u].copy.draft),
         \A u \in Tasks : job'[u].op = "next" => job'[u].copy.version = 0
  PROVE  BrandInv'
<1>1. \A k \in activated : k[2] \in Executions => status'[k[2]] = "completed"
  BY FinishedStays DEF BrandInv, BrandHistory, Finished
<1>2. BrandHistory'
  BY <1>1 DEF BrandInv, BrandHistory
<1>3. \A u \in Tasks : Holding(u)' =>
        (job'[u].copy.draft \in Executions => status'[job'[u].copy.draft] = "completed")
  BY FinishedStays
<1> QED
  BY <1>2, <1>3 DEF BrandInv, Finished

LEMMA BrandStep ==
  ASSUME Typed, OwnerInv, BrandInv, NEW t \in Tasks, Step(t)
  PROVE  BrandInv'
<1>1. [Next]_vars
  BY DEF Next
<1>2. UNCHANGED <<brand, activated>>
  BY SessionSaved
<1>3. \A u \in Tasks : Holding(u)' => Finished(job'[u].copy.draft)
  BY HoldersKept DEF BrandInv
<1>4. \A u \in Tasks : job'[u].op = "next" => job'[u].copy.version = 0
  <2> SUFFICES ASSUME NEW u \in Tasks, job'[u].op = "next" PROVE job'[u].copy.version = 0
    OBVIOUS
  <2>1. Holding(u)'
    BY DEF Holding
  <2> QED
    BY <2>1, HoldersKept DEF BrandInv
<1>5. brand.version \in Nat
  BY DEF Typed, RowsTyped
<1>6. CASE session' = session
  <2>1. Finished(session.draft)
    BY DEF BrandInv
  <2>2. session'.draft \in Executions => status'[session'.draft] = "completed"
    BY <1>1, <1>6, <2>1, FinishedStays
  <2> QED
    BY <1>1, <1>2, <1>3, <1>4, <1>6, <2>2, BrandSame DEF BrandInv
<1>7. CASE pc[t] = "tell" /\ Holding(t) /\ session' = job[t].copy
  <2>1. job[t].op = "next"
    BY <1>7, JobOf DEF Holding, RunSteps, InSkill
  <2>2. session'.version = 0 /\ Finished(session'.draft)
    BY <1>7, <2>1 DEF BrandInv
  <2>3. session'.draft \in Executions => status'[session'.draft] = "completed"
    BY <1>1, <2>2, FinishedStays
  <2> QED
    BY <1>1, <1>2, <1>3, <1>4, <1>5, <2>2, <2>3, BrandSame
<1>8. CASE /\ RunReturns(t) /\ Holding(t) /\ job[t].op = "run"
           /\ session' = [job[t].copy EXCEPT
                !.draft = IF pc[t] = "record" THEN Exec(t) ELSE Empty,
                !.version = NextVersion(t), !.phase = Awaiting, !.status = "proposed"]
  <2>1. job[t].copy \in Sessions
    BY <1>8, CopyTyped
  <2>2. /\ session'.version = brand.version + 1 /\ session'.phase = Awaiting
        /\ session'.draft = IF pc[t] = "record" THEN Exec(t) ELSE Empty
    BY <1>8, <2>1 DEF Sessions, NextVersion
  <2>3. pc[t] = "record" => Finished(Exec(t))
    BY <1>8 DEF OwnerInv, RunKnows, Finished
  <2>4. session'.draft \in Executions => status'[session'.draft] = "completed"
    BY <1>1, <2>2, <2>3, FinishedStays, Numbers
  <2> QED
    BY <1>1, <1>2, <1>3, <1>4, <1>5, <2>2, <2>4, BrandSame
<1> QED
  BY <1>6, <1>7, <1>8, SessionSaved

LEMMA BrandHandle ==
  ASSUME Typed, OwnerInv, BrandInv, NEW t \in Tasks, Handle(t)
  PROVE  BrandInv'
<1>1. [Next]_vars
  BY DEF Next
<1>2. UNCHANGED <<brand, session, activated>>
  BY DEF Handle, Generate, CronGenerate, SlackDecide, ShellDecide, SayNext, Regenerate, rows, history
<1>3. session \in Sessions /\ Finished(session.draft)
  BY DEF BrandInv, Typed, RowsTyped
<1>4. session.phase < Phases => session.version = 0
  BY <1>3, PhasesAssumption DEF BrandInv, Awaiting, Sessions
<1>5. ASSUME NEW u \in Tasks, Holding(u)'
      PROVE  /\ Finished(job'[u].copy.draft)
             /\ job'[u].op = "next" => job'[u].copy.version = 0
  <2>1. CASE Holding(u) /\ job'[u] = job[u]
    BY <2>1 DEF BrandInv
  <2>2. CASE job'[u].op = "run" /\ job'[u].copy = session
    BY <1>3, <2>2
  <2>3. CASE /\ job'[u].op = "next" /\ session.phase < Phases
             /\ job'[u].copy = [session EXCEPT !.phase = @ + 1]
    BY <1>3, <1>4, <2>3 DEF Sessions
  <2> QED
    BY <1>5, <2>1, <2>2, <2>3, HandlerHolds
<1>6. \A u \in Tasks : job'[u].op = "next" => Holding(u)'
  BY DEF Holding
<1>7. session'.draft \in Executions => status'[session'.draft] = "completed"
  BY <1>1, <1>2, <1>3, FinishedStays
<1> QED
  BY <1>1, <1>2, <1>5, <1>6, <1>7, BrandSame DEF BrandInv

\* Approving a proposal numbers it after the brand, or repeats the brand.
LEMMA BrandApprove ==
  ASSUME Typed, OwnerInv, BrandInv, ApproveBrand
  PROVE  BrandInv'
<1> DEFINE version == IF session.version = 0 THEN brand.version + 1 ELSE session.version
<1>1. /\ brand' = [version |-> version, content |-> session.draft]
      /\ activated' = activated \cup {<<version, session.draft>>}
      /\ session' = [session EXCEPT !.status = "approved"]
      /\ UNCHANGED <<status, job>>
  BY DEF ApproveBrand, UpsertBrand, SaveSession, core
<1>2. session \in Sessions /\ brand.version \in Nat /\ activated \subseteq Nat \X Contents
      /\ brand \in [version : Nat, content : Contents]
  BY DEF Typed, RowsTyped
<1>3. /\ session'.version = session.version /\ session'.draft = session.draft
      /\ session'.phase = session.phase /\ session.version \in Nat
  BY <1>1, <1>2 DEF Sessions
<1>4. version = brand.version + 1 \/ (version = brand.version /\ brand.version > 0
                                      /\ session.draft = brand.content /\ session.version = version)
  BY <1>2, <1>3 DEF BrandInv
<1>5. Finished(session.draft)
  BY DEF BrandInv
<1>6. brand'.version = version /\ brand'.content = session.draft
  BY <1>1
<1>7. BrandHistory'
  <2>1. \A k \in activated' : k[2] \in Executions => status'[k[2]] = "completed"
    <3>1. \A k \in activated : k[2] \in Executions => status[k[2]] = "completed"
      BY DEF BrandInv, BrandHistory
    <3> HIDE DEF version
    <3> QED
      BY <1>1, <1>5, <3>1 DEF Finished
  <2>2. \A k \in activated : k[1] \in 1..brand.version /\ k[1] \in Nat
    BY <1>2 DEF BrandInv, BrandHistory
  <2>3. \A n \in 1..brand.version : \E k \in activated : k[1] = n
    BY DEF BrandInv, BrandHistory
  <2>4. \A k, l \in activated : k[1] = l[1] => k = l
    BY DEF BrandInv, BrandHistory
  <2>5. CASE version = brand.version + 1
    <3> HIDE DEF version
    <3>1. \A k \in activated : k[1] # version
      BY <1>2, <2>2, <2>5
    <3>2. \A k, l \in activated' : k[1] = l[1] => k = l
      BY <1>1, <2>4, <3>1
    <3>3. \A n \in 1..version : \E k \in activated' : k[1] = n
      <4> SUFFICES ASSUME NEW n \in 1..version PROVE \E k \in activated' : k[1] = n
        OBVIOUS
      <4>1. CASE n = version
        <5>1. <<version, session.draft>> \in activated' /\ <<version, session.draft>>[1] = version
          BY <1>1
        <5> QED
          BY <4>1, <5>1
      <4>2. CASE n # version
        <5>1. n \in 1..brand.version
          BY <1>2, <2>5, <4>2
        <5> QED
          BY <1>1, <2>3, <5>1
      <4> QED
        BY <4>1, <4>2
    <3>4. \A k \in activated' : k[1] \in 1..version
      BY <1>1, <1>2, <2>2, <2>5
    <3>5. {k[1] : k \in activated'} = 1..version
      BY <3>3, <3>4
    <3> QED
      BY <1>6, <2>1, <3>2, <3>5 DEF BrandHistory
  <2>6. CASE version = brand.version /\ brand.version > 0 /\ session.draft = brand.content
    <3>1. activated' = activated
      BY <1>1, <2>6 DEF BrandInv
    <3> QED
      BY <1>6, <2>1, <2>6, <3>1 DEF BrandInv, BrandHistory
  <2> QED
    BY <1>4, <2>5, <2>6
<1>8. \A u \in Tasks : Holding(u)' => Finished(job[u].copy.draft)'
  BY <1>1 DEF BrandInv, Holding, Finished
<1>9. Finished(session.draft)'
  BY <1>1, <1>3, <1>5 DEF Finished
<1>10. <<brand'.version, brand'.content>> \in activated'
  BY <1>1, <1>6
<1>11. /\ session'.version \in {0, brand'.version, brand'.version + 1}
       /\ session'.version = brand'.version /\ brand'.version > 0 => session'.draft = brand'.content
       /\ session'.version # 0 => session'.phase = Awaiting
  BY <1>2, <1>3, <1>4, <1>6 DEF BrandInv
<1>12. \A u \in Tasks : job'[u].op = "next" => job'[u].copy.version = 0
  BY <1>1 DEF BrandInv
<1> QED
  BY <1>1, <1>7, <1>8, <1>9, <1>10, <1>11, <1>12 DEF BrandInv, Finished, Holding

LEMMA BrandAtOnce ==
  ASSUME Typed, OwnerInv, BrandInv, StartOnboarding \/ RejectBrand \/ \E a \in Answers : Reply(a)
  PROVE  BrandInv'
<1>1. [Next]_vars
  BY DEF Next
<1>2. UNCHANGED <<brand, activated, job>>
  BY DEF StartOnboarding, RejectBrand, Reply, history
<1>3. session \in Sessions /\ brand.version \in Nat
  BY DEF Typed, RowsTyped
<1>4. \/ session'.version = 0 /\ session'.draft = Empty
      \/ /\ session'.version = session.version /\ session'.draft = session.draft
         /\ session'.phase = session.phase
  <2>1. CASE StartOnboarding
    BY <2>1 DEF StartOnboarding, SaveSession, NoSession
  <2>2. CASE RejectBrand
    BY <1>3, <2>2 DEF RejectBrand, SaveSession, Sessions
  <2>3. ASSUME NEW a \in Answers, Reply(a)
        PROVE  /\ session'.version = session.version /\ session'.draft = session.draft
               /\ session'.phase = session.phase
    BY <1>3, <2>3 DEF Reply, SaveSession, Sessions
  <2> QED
    BY <2>1, <2>2, <2>3
<1>5. \A u \in Tasks : Holding(u)' => Finished(job'[u].copy.draft)
  BY <1>2 DEF BrandInv, Holding
<1>6. Finished(session.draft) /\ Empty \notin Executions
  BY Numbers DEF BrandInv
<1>7. session'.draft \in Executions => status'[session'.draft] = "completed"
  BY <1>1, <1>4, <1>6, FinishedStays
<1> QED
  BY <1>1, <1>2, <1>3, <1>4, <1>5, <1>7, BrandSame DEF BrandInv

LEMMA InitBrand == Init => BrandInv
<1> SUFFICES ASSUME Init PROVE BrandInv
  OBVIOUS
<1>1. CASE brand = NoBrand
  <2>1. brand.version = 0 /\ activated = {}
    BY <1>1 DEF Init, NoBrand
  <2> QED
    BY <2>1, Numbers DEF Init, BrandInv, BrandHistory, NoSession, NoJob, Holding, Finished
<1>2. CASE brand = [version |-> 1, content |-> Seed]
  <2>1. brand.version = 1 /\ brand.content = Seed /\ activated = {<<1, Seed>>}
    BY <1>2 DEF Init, NoBrand
  <2>2. BrandHistory
    <3>1. {k[1] : k \in activated} = {1} /\ 1..1 = {1}
      BY <2>1
    <3> QED
      BY <2>1, <3>1, Numbers DEF BrandHistory
  <2> QED
    BY <2>1, <2>2, Numbers DEF Init, BrandInv, NoSession, NoJob, Holding, Finished
<1> QED
  BY <1>1, <1>2 DEF Init

LEMMA NextBrand == Typed /\ OwnerInv /\ BrandInv /\ [Next]_vars => BrandInv'
<1> SUFFICES ASSUME Typed, OwnerInv, BrandInv, [Next]_vars PROVE BrandInv'
  OBVIOUS
<1>1. CASE \/ Restart \/ UNCHANGED vars
            \/ \E e \in Executions, allow \in BOOLEAN : DecideOnly(e, allow)
  <2>1. UNCHANGED <<brand, session, activated>>
    BY <1>1 DEF Restart, DecideOnly, vars, rows, history
  <2>2. \A u \in Tasks : job'[u].op = "next" => Holding(u)'
    BY DEF Holding
  <2>3. \A u \in Tasks : Holding(u)' => Holding(u) /\ job'[u] = job[u]
    BY <1>1, RestartHolds DEF DecideOnly, vars, Holding
  <2>4. session'.draft \in Executions => status'[session'.draft] = "completed"
    BY <2>1, FinishedStays DEF BrandInv
  <2> QED
    BY <2>1, <2>2, <2>3, <2>4, BrandSame DEF BrandInv
<1> QED
  BY <1>1, BrandStep, BrandHandle, BrandApprove, BrandAtOnce DEF Next

\* A version of the brand names one content for ever, versions have no gaps,
\* and a content that was drafted is that of a completed execution: a session
\* that proposes a version was numbered after the brand that is in force, for
\* every later activation either is this proposal's or replaced the session.
THEOREM BrandsAreNumbered == Spec => []BrandHistory
<1>1. Init => Typed /\ OwnerInv /\ BrandInv
  BY InitTyped, InitOwner, InitBrand
<1>2. Typed /\ OwnerInv /\ BrandInv /\ [Next]_vars => (Typed /\ OwnerInv /\ BrandInv)'
  BY NextTyped, NextOwner, NextBrand
<1>3. BrandInv => BrandHistory
  BY DEF BrandInv
<1> QED
  BY <1>1, <1>2, <1>3, PTL DEF Spec

-----------------------------------------------------------------------------
(* What the rows of Nova tell *)

\* A step of a handler is its own, and about its execution.
LEMMA StepMoves ==
  ASSUME Typed, NEW t \in Tasks, Step(t)
  PROVE  /\ \A u \in Tasks \ {t} : pc'[u] = pc[u] /\ job'[u] = job[u]
         /\ \/ pc'[t] = "idle" /\ job'[t] = NoJob
            \/ job'[t].op = job[t].op /\ job'[t].exec = job[t].exec
<1>1. CASE UNCHANGED job /\ \E label : Goto(t, label)
  BY <1>1 DEF Goto, Typed
<1>2. CASE End(t)
  BY <1>2 DEF End, Typed
<1>3. CASE RetrieveAnswered(t) /\ job' = [job EXCEPT ![t].outcome = "blocked"] /\ Goto(t, "give_up")
  <2>1. job[t] \in DraftRuns \cup Syntheses
    BY <1>3, JobOf DEF RetrieveAnswered, Answered, DecideSteps, ShellSteps
  <2>2. job'[t] = [job[t] EXCEPT !.outcome = "blocked"] /\ \A u \in Tasks \ {t} : job'[u] = job[u]
    BY <1>3 DEF Typed
  <2>3. job'[t].op = job[t].op /\ job'[t].exec = job[t].exec
    BY <2>1, <2>2 DEF DraftRuns, Syntheses
  <2> QED
    BY <1>3, <2>2, <2>3 DEF Goto, Typed
<1>4. CASE RequestContinued(t) /\ job[t].then = "post" /\ Goto(t, "post")
  <2> PICK linked : job' = [job EXCEPT ![t].copy = linked]
    BY <1>4 DEF RequestContinued
  <2>1. job[t] \in DraftRuns \cup Syntheses
    BY <1>4, JobOf DEF RequestContinued, DecideSteps, ShellSteps
  <2>2. job'[t] = [job[t] EXCEPT !.copy = linked] /\ \A u \in Tasks \ {t} : job'[u] = job[u]
    BY DEF Typed
  <2>3. job'[t].op = job[t].op /\ job'[t].exec = job[t].exec
    BY <2>1, <2>2 DEF DraftRuns, Syntheses
  <2> QED
    BY <1>4, <2>2, <2>3 DEF Goto, Typed
<1>5. \/ UNCHANGED job /\ \E label : Goto(t, label)
      \/ End(t)
      \/ RetrieveAnswered(t) /\ job' = [job EXCEPT ![t].outcome = "blocked"] /\ Goto(t, "give_up")
      \/ RequestContinued(t) /\ job[t].then = "post" /\ Goto(t, "post")
  BY DEF Step, Serve, Refused, Break, Raise, OpenAnswered, StartAnswered, RetrieveAnswered, ModelAnswered,
         GiveUpAnswered, RequestContinued, PostContinued, CompleteAnswered, FinishAnswered, RunReturns,
         FailAnswered, SealAnswered, ShowDecision, Told, Untold
<1> QED
  BY <1>1, <1>2, <1>3, <1>4, <1>5

LEMMA StepRows ==
  ASSUME Typed, OwnerInv, NEW t \in Tasks, Step(t)
  PROVE  /\ \A d \in Executions : d # Exec(t) =>
              /\ status'[d] = status[d] /\ approval'[d] = approval[d] /\ item'[d] = item[d]
              /\ row'[d] = row[d] /\ hits'[d] = hits[d]
         /\ \A d \in Executions : hits[d] \in Nat /\ hits'[d] \in Nat /\ hits'[d] >= hits[d]
         /\ raced \subseteq raced' /\ bypassed' = bypassed
<1>1. \A d \in Executions : d # Exec(t) => status'[d] = status[d] /\ approval'[d] = approval[d]
  BY StepKeeps DEF CoreKept
<1>2. \A d \in Executions : d # Exec(t) => item'[d] = item[d]
  BY DEF Step, Serve, Refused, Break, OpenAnswered, StartAnswered, RetrieveAnswered, ModelAnswered,
         GiveUpAnswered, RequestContinued, PostContinued, CompleteAnswered, FinishAnswered, RunReturns,
         FailAnswered, SealAnswered, ShowDecision, Told, Untold, rows, SaveItem, Typed, RowsTyped
<1>3. \A d \in Executions : d # Exec(t) => row'[d] = row[d]
  BY DEF Step, Serve, Refused, Break, Raise, OpenAnswered, StartAnswered, RetrieveAnswered, ModelAnswered,
         GiveUpAnswered, RequestContinued, PostContinued, CompleteAnswered, FinishAnswered, RunReturns,
         FailAnswered, SealAnswered, ShowDecision, Told, Untold, rows, PersistRun, Typed, RowsTyped
<1>4. /\ \A d \in Executions : d # Exec(t) => hits'[d] = hits[d]
      /\ \A d \in Executions : hits[d] \in Nat /\ hits'[d] \in Nat /\ hits'[d] >= hits[d]
  <2>1. CASE hits' = hits
    BY <2>1 DEF Typed, RowsTyped
  <2>2. CASE Break(t)
    BY <2>2 DEF Break, Typed, RowsTyped
  <2>3. CASE hits' = [hits EXCEPT ![Exec(t)] = @ + 1]
    BY <2>3 DEF Typed, RowsTyped
  <2> QED
    BY <2>1, <2>2, <2>3
       DEF Step, Serve, Refused, OpenAnswered, StartAnswered, RetrieveAnswered, ModelAnswered,
           GiveUpAnswered, RequestContinued, PostContinued, CompleteAnswered, FinishAnswered, RunReturns,
           FailAnswered, SealAnswered, ShowDecision, Told, Untold, history, Quiet
<1>5. raced \subseteq raced'
  BY DEF Step, Serve, Refused, Break, OpenAnswered, StartAnswered, RetrieveAnswered, ModelAnswered,
         GiveUpAnswered, RequestContinued, PostContinued, CompleteAnswered, FinishAnswered, RunReturns,
         FailAnswered, SealAnswered, ShowDecision, NoteRace, Told, Untold, history
<1>6. bypassed' = bypassed
  BY CoreSteps DEF core, Effect
<1> QED
  BY <1>1, <1>2, <1>3, <1>4, <1>5, <1>6

\* What a step of t leaves of the rows of other executions, and what is then
\* to be shown of its own.
LEMMA StoryAssemble ==
  ASSUME Typed, Typed', OwnerInv, StoryInv, NEW t \in Tasks, Step(t),
         \A e \in Executions : e = Exec(t) => NoLie(e, item[e].status)' /\ RestTells(e)',
         \A u \in Tasks : Exec(u) = Exec(t) =>
           /\ RunTells(u)'
           /\ pc'[u] \in {"post", "posted"} => NoLie(Exec(u), job[u].copy.status)'
  PROVE  StoryInv'
<1>1. /\ \A u \in Tasks \ {t} : pc'[u] = pc[u] /\ job'[u] = job[u]
      /\ (pc'[t] = "idle" /\ job'[t] = NoJob) \/ (job'[t].op = job[t].op /\ job'[t].exec = job[t].exec)
  BY StepMoves
<1>2. /\ \A d \in Executions : d # Exec(t) =>
           /\ status'[d] = status[d] /\ approval'[d] = approval[d] /\ item'[d] = item[d]
           /\ row'[d] = row[d] /\ hits'[d] = hits[d]
      /\ raced \subseteq raced' /\ bypassed' = bypassed
  BY StepRows
<1>3. Exec(t)' = Exec(t) \/ (Exec(t)' = 0 /\ job'[t].op = "none")
  BY <1>1 DEF Exec, NoJob
<1>4. ASSUME NEW d \in Executions, d # Exec(t), NEW s, Tells(d, s)
      PROVE  \/ s = Shown(approval'[d])
             \/ /\ s = "pending_approval"
                /\ \/ d \in raced' \cup bypassed'
                   \/ \E u \in Tasks : pc'[u] \in {"decided", "updating"} /\ Exec(u)' = d
  <2>1. ASSUME NEW u \in Tasks, pc[u] \in {"decided", "updating"}, Exec(u) = d
        PROVE  pc'[u] \in {"decided", "updating"} /\ Exec(u)' = d
    BY <1>1, <1>4, <2>1 DEF Exec
  <2> QED
    BY <1>2, <1>4, <2>1 DEF Tells
<1>5. ASSUME NEW d \in Executions, d # Exec(t)
      PROVE  NoLie(d, item[d].status)' /\ RestTells(d)'
  <2>1. NoLie(d, item[d].status) /\ RestTells(d)
    BY DEF StoryInv
  <2>2. NoLie(d, item[d].status)'
    BY <1>2, <1>5, <2>1 DEF NoLie
  <2>3. RestTells(d)'
    <3> SUFFICES ASSUME hits'[d] = 0, status'[d] # Absent, \A u \in Tasks : ~Runs(u, d)'
                 PROVE  IF approval'[d] = "none"
                          THEN /\ item'[d] = NoItem
                               /\ row'[d] = IF status'[d] = "completed" THEN "completed" ELSE "failed"
                          ELSE item'[d].linked /\ row'[d] = "waiting_approval" /\ Tells(d, item[d].status)'
      BY DEF RestTells
    <3>1. \A u \in Tasks : ~Runs(u, d)
      BY <1>1, <1>5 DEF Runs, Exec
    <3>2. hits[d] = 0 /\ status[d] # Absent
      BY <1>2, <1>5
    <3>3. IF approval[d] = "none"
            THEN item[d] = NoItem /\ row[d] = IF status[d] = "completed" THEN "completed" ELSE "failed"
            ELSE item[d].linked /\ row[d] = "waiting_approval" /\ Tells(d, item[d].status)
      BY <2>1, <3>1, <3>2 DEF RestTells
    <3>4. Tells(d, item[d].status) => Tells(d, item[d].status)'
      BY <1>2, <1>4, <1>5 DEF Tells
    <3> QED
      BY <1>2, <1>5, <3>3, <3>4
  <2> QED
    BY <2>2, <2>3
<1>6. ASSUME NEW u \in Tasks, Exec(u) # Exec(t)
      PROVE  /\ RunTells(u)'
             /\ pc'[u] \in {"post", "posted"} => NoLie(Exec(u), job[u].copy.status)'
  <2>1. pc'[u] = pc[u] /\ job'[u] = job[u] /\ Exec(u)' = Exec(u)
    BY <1>1, <1>6 DEF Exec
  <2>2. RunTells(u) /\ (pc[u] \in {"post", "posted"} => NoLie(Exec(u), job[u].copy.status))
    BY DEF StoryInv
  <2>3. CASE Exec(u) \in Executions
    <3> PICK d \in Executions : d = Exec(u)
      BY <2>3
    <3>1. /\ status'[d] = status[d] /\ approval'[d] = approval[d] /\ item'[d] = item[d]
          /\ row'[d] = row[d] /\ hits'[d] = hits[d]
      BY <1>2, <1>6
    <3>2. Tells(d, item[d].status) => Tells(d, item[d].status)'
      BY <1>4, <1>6, <3>1 DEF Tells
    <3>3. Tells(d, job[u].copy.status) => Tells(d, job[u].copy.status)'
      BY <1>4, <1>6, <2>1, <3>1 DEF Tells
    <3>4. RunTells(u)'
      BY <2>1, <2>2, <3>1, <3>2, <3>3 DEF RunTells
    <3> QED
      BY <2>1, <2>2, <3>1, <3>4 DEF NoLie
  <2>4. CASE Exec(u) \notin Executions
    <3>1. job[u].op # "run" /\ pc[u] \notin {"post", "posted"}
      BY <2>4, JobOf DEF RunSteps
    <3> QED
      BY <2>1, <3>1 DEF RunTells
  <2> QED
    BY <2>3, <2>4
<1> QED
  BY <1>5, <1>6 DEF StoryInv

\* A run is alone with its execution but for those who decide.
LEMMA StoryRun ==
  ASSUME Typed, Typed', OwnerInv, StoryInv, NEW t \in Tasks, Step(t), job[t].op = "run",
         NEW e \in Executions, e = Exec(t),
         NoLie(e, item[e].status)', RestTells(e)', RunTells(t)',
         pc'[t] \in {"post", "posted"} => NoLie(e, job[t].copy.status)'
  PROVE  StoryInv'
<1>1. \A u \in Tasks \ {t} : pc'[u] = pc[u] /\ job'[u] = job[u]
  BY StepMoves
<1>2. ASSUME NEW u \in Tasks, u # t, Exec(u) = e
      PROVE  job'[u].op # "run" /\ pc'[u] \notin {"post", "posted"}
  <2>1. job[u].op # "run"
    BY <1>2 DEF OwnerInv, RunKnows, Runs
  <2>2. pc[u] \notin {"post", "posted"}
    BY <2>1, JobOf DEF DecideSteps, ShellSteps
  <2> QED
    BY <1>1, <1>2, <2>1, <2>2
<1>3. pc'[t] \in {"post", "posted"} => Exec(t)' = e
  BY StepMoves DEF Exec
<1>4. \A u \in Tasks : Exec(u) = Exec(t) =>
        /\ RunTells(u)'
        /\ pc'[u] \in {"post", "posted"} => NoLie(Exec(u), job[u].copy.status)'
  <2> SUFFICES ASSUME NEW u \in Tasks, Exec(u) = Exec(t)
               PROVE  /\ RunTells(u)'
                      /\ pc'[u] \in {"post", "posted"} => NoLie(Exec(u), job[u].copy.status)'
    OBVIOUS
  <2>1. CASE u = t
    BY <1>3, <2>1 DEF NoLie
  <2>2. CASE u # t
    BY <1>2, <2>2 DEF RunTells
  <2> QED
    BY <2>1, <2>2
<1>5. \A d \in Executions : d = Exec(t) => NoLie(d, item[d].status)' /\ RestTells(d)'
  OBVIOUS
<1> QED
  BY <1>4, <1>5, StoryAssemble

\* A step that leaves the approval alone.
LEMMA StillTells ==
  ASSUME Typed, OwnerInv, NEW t \in Tasks, Step(t), NEW e \in Executions, approval'[e] = approval[e],
         pc[t] \notin {"decided", "updating"}
  PROVE  /\ \A s : Tells(e, s) => \/ s = Shown(approval'[e])
                                  \/ /\ s = "pending_approval"
                                     /\ \/ e \in raced' \cup bypassed'
                                        \/ \E u \in Tasks : pc'[u] \in {"decided", "updating"} /\ Exec(u)' = e
         /\ \A s : NoLie(e, s) => (s \in {"approved", "rejected"} => s = Shown(approval'[e]))
<1>1. \A u \in Tasks \ {t} : pc'[u] = pc[u] /\ job'[u] = job[u]
  BY StepMoves
<1>2. raced \subseteq raced' /\ bypassed' = bypassed
  BY StepRows
<1> QED
  BY <1>1, <1>2 DEF Tells, NoLie, Exec

\* No step turns an item that tells the truth into a lie: a decision is final.
LEMMA StillNoLie ==
  ASSUME Typed, OwnerInv, NEW t \in Tasks, Step(t), NEW e \in Executions
  PROVE  \A s : NoLie(e, s) => (s \in {"approved", "rejected"} => s = Shown(approval'[e]))
<1>1. CoreKept(t, e)
  BY StepKeeps
<1>2. approval[e] \in {"none", "pending", "approved", "denied"}
  BY DEF Typed, RowsTyped
<1>3. CASE approval[e] \in {"approved", "denied"}
  BY <1>1, <1>3 DEF CoreKept, NoLie
<1>4. CASE approval[e] \in {"none", "pending"}
  BY <1>4 DEF NoLie, Shown
<1> QED
  BY <1>2, <1>3, <1>4

\* A run that goes on ..
LEMMA StoryGoes ==
  ASSUME Typed, Typed', OwnerInv, StoryInv, NEW t \in Tasks, Step(t), job[t].op = "run",
         NEW e \in Executions, e = Exec(t), pc'[t] # "idle",
         NoLie(e, item'[e].status), RunTells(t)',
         pc'[t] \in {"post", "posted"} => NoLie(e, job'[t].copy.status)
  PROVE  StoryInv'
<1>1. job'[t].op = "run" /\ Exec(t)' = e
  <2>1. job'[t].op = job[t].op /\ job'[t].exec = job[t].exec
    BY StepMoves
  <2> QED
    BY <2>1 DEF Exec
<1>2. RestTells(e)'
  BY <1>1 DEF RestTells, Runs
<1>3. NoLie(e, item[e].status)'
  BY StillNoLie DEF NoLie
<1>4. pc'[t] \in {"post", "posted"} => NoLie(e, job[t].copy.status)'
  BY StillNoLie DEF NoLie
<1> QED
  BY <1>2, <1>3, <1>4, StoryRun

\* .. and one that ends.
LEMMA StoryEnds ==
  ASSUME Typed, Typed', OwnerInv, StoryInv, NEW t \in Tasks, Step(t), job[t].op = "run",
         NEW e \in Executions, e = Exec(t), End(t),
         NoLie(e, item'[e].status), RestTells(e)'
  PROVE  StoryInv'
<1>1. pc'[t] = "idle" /\ job'[t].op = "none"
  BY DEF End, Typed, NoJob
<1>2. RunTells(t)'
  BY <1>1 DEF RunTells
<1>3. NoLie(e, item[e].status)'
  BY StillNoLie DEF NoLie
<1> QED
  BY <1>1, <1>2, <1>3, StoryRun

\* A call of a run that fails: an error was raised.
LEMMA StoryFails ==
  ASSUME Typed, Typed', OwnerInv, StoryInv, NEW t \in Tasks, Refused(t) \/ Break(t), job[t].op = "run"
  PROVE  StoryInv'
<1> PICK e \in Executions : e = Exec(t)
  BY JobOf
<1>1. Step(t) /\ pc[t] \in Calls /\ UNCHANGED item
  BY DEF Step, Refused, Break
<1>2. \E lost \in BOOLEAN : Raise(t, lost)
  BY DEF Refused, Break
<1>3. hits'[e] # 0
  <2>1. hits[e] \in Nat
    BY DEF Typed, RowsTyped
  <2>2. CASE Break(t)
    BY <2>1, <2>2 DEF Break, Typed, RowsTyped
  <2>3. CASE Refused(t)
    <3>1. ~Accepted(t) /\ hits' = hits
      BY <2>3 DEF Refused, Quiet
    <3>2. pc[t] \notin {"open", "record", "post"}
      BY <3>1 DEF Accepted
    <3>3. status[e] # "running"
      BY <1>1, <3>1, RunningIsServed
    <3>4. pc[t] \in Before \cup Closing
      BY <1>1, <3>2, JobOf DEF Calls, InSkill, RunSteps, Before, Closing
    <3>5. RunTells(t)
      BY DEF StoryInv
    <3> QED
      BY <3>1, <3>3, <3>4, <3>5 DEF RunTells
  <2> QED
    BY <2>2, <2>3
<1>4. NoLie(e, item[e].status)
  BY DEF StoryInv
<1>5. CASE End(t)
  <2>1. RestTells(e)'
    BY <1>3 DEF RestTells
  <2> QED
    BY <1>1, <1>4, <1>5, <2>1, StoryEnds
<1>6. CASE Goto(t, "fail") /\ UNCHANGED job
  <2>1. pc'[t] = "fail" /\ Exec(t)' = e
    BY <1>6, GotoMoves, MovesOne DEF Exec
  <2>2. RunTells(t)'
    BY <1>3, <2>1 DEF RunTells
  <2> QED
    BY <1>1, <1>4, <2>1, <2>2, StoryGoes
<1> QED
  BY <1>2, <1>5, <1>6 DEF Raise

\* The calls of a run up to its approval or its end.
LEMMA StoryCalls ==
  ASSUME Typed, Typed', OwnerInv, StoryInv, NEW t \in Tasks, job[t].op = "run",
         \/ OpenAnswered(t) \/ StartAnswered(t) \/ RetrieveAnswered(t) \/ ModelAnswered(t)
         \/ GiveUpAnswered(t) \/ CompleteAnswered(t) \/ FinishAnswered(t) \/ FailAnswered(t)
  PROVE  StoryInv'
<1> PICK e \in Executions : e = Exec(t)
  BY JobOf
<1>1. Step(t) /\ Accepted(t) /\ Effect(t) /\ pc[t] \in Calls
  BY DEF Step, OpenAnswered, StartAnswered, RetrieveAnswered, ModelAnswered, GiveUpAnswered,
         CompleteAnswered, FinishAnswered, FailAnswered, Answered, Calls, InSkill
<1>2. hits[e] \in Nat /\ item \in [Executions -> Items] /\ row = [d \in Executions |-> row[d]]
      /\ hits = [d \in Executions |-> hits[d]]
  BY DEF Typed, RowsTyped
<1>3. /\ RunTells(t) /\ NoLie(e, item[e].status)
      /\ CoreKnows(e)
  BY DEF StoryInv, OwnerInv
<1>4. /\ pc[t] = "open" => status[e] = Absent /\ status'[e] = "running"
      /\ pc[t] = "finish" => status'[e] = "completed"
      /\ pc[t] \in {"start", "retrieve", "model", "give_up", "complete", "fail"} => status'[e] = status[e]
  BY <1>1, OwnEffect
<1>5. ASSUME NEW label \in RunSteps \ {"post", "posted"}, Goto(t, label),
             \/ UNCHANGED job
             \/ job' = [job EXCEPT ![t].outcome = "blocked"],
             NoLie(e, item'[e].status),
             hits'[e] = 0 =>
               /\ label \notin Closing /\ label \notin After
               /\ label \in Before => status'[e] = "running"
               /\ label \in (Before \ {"request"}) \cup {"record"} => item'[e] = NoItem
               /\ label = "request" => item'[e] = [status |-> "pending_approval", linked |-> FALSE]
               /\ label = "close" => row'[e] = "failed"
               /\ label \in {"finish", "record"} => row'[e] = "completed"
      PROVE  StoryInv'
  <2>1. pc'[t] = label /\ label # "idle"
    BY <1>5 DEF Goto, Typed, RunSteps, InSkill
  <2>2. Exec(t)' = e
    BY <1>1, <2>1, StepMoves DEF Exec
  <2>3. RunTells(t)'
    BY <1>5, <2>1, <2>2 DEF RunTells
  <2> QED
    BY <1>1, <1>5, <2>1, <2>3, StoryGoes
<1>6. /\ {"start", "retrieve", "model", "give_up", "close", "request", "complete", "finish", "record",
          "fail", "seal"} \subseteq RunSteps \ {"post", "posted"}
      /\ {"start", "retrieve", "model", "give_up", "close", "request", "complete", "finish"} = Before
  BY DEF RunSteps, InSkill, Before
<1>7. CASE OpenAnswered(t)
  <2>1. pc[t] = "open" /\ item' = item /\ item[e] = NoItem
    BY <1>3, <1>4, <1>7 DEF OpenAnswered, Answered, rows, CoreKnows
  <2>2. CASE Goto(t, "start") /\ UNCHANGED hits
    BY <1>3, <1>4, <1>5, <1>6, <1>7, <2>1, <2>2 DEF OpenAnswered, Closing, After
  <2>3. CASE Goto(t, "fail") /\ hits' = [hits EXCEPT ![Exec(t)] = @ + 1]
    <3>1. hits'[e] # 0
      BY <1>2, <2>3
    <3> QED
      BY <1>3, <1>5, <1>6, <1>7, <2>1, <2>3, <3>1 DEF OpenAnswered
  <2> QED
    BY <1>7, <2>2, <2>3 DEF OpenAnswered
<1>8. CASE StartAnswered(t) \/ RetrieveAnswered(t)
  <2>1. /\ pc[t] \in {"start", "retrieve"} /\ item' = item /\ hits' = hits
        /\ UNCHANGED job \/ job' = [job EXCEPT ![t].outcome = "blocked"]
        /\ Goto(t, "model") \/ Goto(t, "retrieve") \/ Goto(t, "give_up")
    BY <1>8 DEF StartAnswered, RetrieveAnswered, Answered, rows, Quiet
  <2>2. hits[e] = 0 => status'[e] = "running" /\ item[e] = NoItem
    BY <1>3, <1>4, <1>6, <2>1 DEF RunTells
  <2> QED
    BY <1>3, <1>5, <1>6, <2>1, <2>2 DEF Closing, After
<1>9. CASE ModelAnswered(t)
  <2>1. pc[t] = "model" /\ hits' = hits /\ UNCHANGED job
    BY <1>9 DEF ModelAnswered, Answered, Quiet
  <2>2. hits[e] = 0 => status'[e] = "running" /\ item[e] = NoItem
    BY <1>3, <1>4, <1>6, <2>1 DEF RunTells
  <2>3. CASE (Goto(t, "give_up") \/ Goto(t, "complete")) /\ UNCHANGED item
    BY <1>3, <1>5, <1>6, <2>1, <2>2, <2>3 DEF Closing, After
  <2>4. CASE /\ SaveItem(Exec(t), [status |-> "pending_approval", linked |-> FALSE])
             /\ Goto(t, "request")
    <3>1. item'[e] = [status |-> "pending_approval", linked |-> FALSE]
      BY <1>2, <2>4 DEF SaveItem
    <3>2. NoLie(e, item'[e].status)
      BY <3>1 DEF NoLie
    <3> QED
      BY <1>5, <1>6, <2>1, <2>2, <2>4, <3>1, <3>2 DEF Closing, After
  <2> QED
    BY <1>9, <2>3, <2>4 DEF ModelAnswered
<1>10. CASE GiveUpAnswered(t)
  <2>1. /\ pc[t] = "give_up" /\ hits' = hits /\ UNCHANGED <<job, item>> /\ Goto(t, "close")
        /\ row' = [row EXCEPT ![Exec(t)] = "failed"]
    BY <1>10 DEF GiveUpAnswered, Answered, Quiet, PersistRun
  <2>2. hits[e] = 0 => status'[e] = "running" /\ item[e] = NoItem
    BY <1>3, <1>4, <1>6, <2>1 DEF RunTells
  <2>3. row'[e] = "failed"
    BY <1>2, <2>1
  <2> QED
    BY <1>3, <1>5, <1>6, <2>1, <2>2, <2>3 DEF Closing, After
<1>11. CASE CompleteAnswered(t)
  <2>1. /\ pc[t] = "complete" /\ hits' = hits /\ UNCHANGED <<job, item>> /\ Goto(t, "finish")
        /\ row' = [row EXCEPT ![Exec(t)] = "completed"]
    BY <1>11 DEF CompleteAnswered, AfterComplete, Answered, Quiet, PersistRun
  <2>2. hits[e] = 0 => status'[e] = "running" /\ item[e] = NoItem
    BY <1>3, <1>4, <1>6, <2>1 DEF RunTells
  <2>3. row'[e] = "completed"
    BY <1>2, <2>1
  <2> QED
    BY <1>3, <1>5, <1>6, <2>1, <2>2, <2>3 DEF Closing, After
<1>12. CASE FinishAnswered(t)
  <2>1. /\ pc[t] = "finish" /\ hits' = hits /\ UNCHANGED <<job, item, row>> /\ Goto(t, "record")
    BY <1>12 DEF FinishAnswered, Answered, Quiet, rows
  <2>2. hits[e] = 0 => row[e] = "completed" /\ item[e] = NoItem
    BY <1>3, <1>6, <2>1 DEF RunTells
  <2> QED
    BY <1>3, <1>5, <1>6, <2>1, <2>2 DEF Closing, After
<1>13. CASE FailAnswered(t)
  <2>1. /\ pc[t] = "fail" /\ hits' = hits /\ UNCHANGED <<job, item>> /\ Goto(t, "seal")
    BY <1>13 DEF FailAnswered, Answered, Quiet, rows
  <2>2. hits'[e] # 0
    BY <1>3, <2>1 DEF RunTells, Closing
  <2> QED
    BY <1>3, <1>5, <1>6, <2>1, <2>2
<1> QED
  BY <1>7, <1>8, <1>9, <1>10, <1>11, <1>12, <1>13

\* The request for an approval, the post of the draft, and what is saved when
\* their answers arrive.
LEMMA StoryServed ==
  ASSUME Typed, Typed', OwnerInv, StoryInv, NEW t \in Tasks, job[t].op = "run", Serve(t)
  PROVE  StoryInv'
<1> PICK e \in Executions : e = Exec(t)
  BY JobOf
<1>1. Step(t) /\ Accepted(t) /\ Effect(t) /\ pc[t] \in Calls /\ UNCHANGED <<item, row, job, hits>>
  BY DEF Step, Serve, Answered, Calls, InSkill, rows, Quiet
<1>2. /\ RunTells(t) /\ NoLie(e, item[e].status)
      /\ pc[t] \in {"post", "posted"} => NoLie(e, job[t].copy.status)
  BY DEF StoryInv
<1>3. Exec(t)' = e
  BY <1>1 DEF Exec
<1>4. CASE Answered(t, "request") /\ Goto(t, "requested")
  <2>1. pc[t] = "request" /\ pc'[t] = "requested" /\ approval'[e] = "pending"
    BY <1>1, <1>4, OwnEffect DEF Answered, Goto, Typed
  <2>2. hits[e] = 0 => item[e].status = "pending_approval"
    BY <1>2, <2>1 DEF RunTells
  <2>3. hits[e] = 0 => Tells(e, item[e].status)'
    BY <1>1, <2>1, <2>2 DEF Tells, Shown
  <2>4. RunTells(t)'
    BY <1>1, <1>3, <2>1, <2>3 DEF RunTells, Closing, Before, After
  <2> QED
    BY <1>1, <1>2, <2>1, <2>4, StoryGoes
<1>5. CASE Answered(t, "post") /\ Goto(t, "posted")
  <2>1. pc[t] = "post" /\ pc'[t] = "posted" /\ approval'[e] = approval[e]
    BY <1>1, <1>5, OwnEffect DEF Answered, Goto, Typed
  <2>2. /\ Tells(e, item[e].status) => Tells(e, item[e].status)'
        /\ Tells(e, job[t].copy.status) => Tells(e, job[t].copy.status)'
    BY <1>1, <2>1, StillTells DEF Tells
  <2>3. hits[e] = 0 => /\ Tells(e, item[e].status) /\ Tells(e, job[t].copy.status)
                       /\ item[e].linked /\ row[e] = "waiting_approval" /\ job[t].copy.linked
    BY <1>2, <2>1 DEF RunTells, After
  <2>4. RunTells(t)'
    BY <1>1, <1>3, <2>1, <2>2, <2>3 DEF RunTells, Closing, Before, After
  <2> QED
    BY <1>1, <1>2, <2>1, <2>4, StoryGoes
<1>6. pc[t] \notin {"decide", "shell"}
  BY JobOf DEF RunSteps, InSkill
<1> QED
  BY <1>4, <1>5, <1>6 DEF Serve, Answered

LEMMA StoryLinked ==
  ASSUME Typed, Typed', OwnerInv, StoryInv, NEW t \in Tasks, RequestContinued(t)
  PROVE  StoryInv'
<1> PICK e \in Executions : e = Exec(t)
  BY AtCall DEF RequestContinued
<1>1. /\ Step(t) /\ pc[t] = "requested" /\ UNCHANGED <<status, approval, bypassed, raced, hits>>
      /\ job[t].op = "run"
  BY JobOf DEF Step, RequestContinued, core, Quiet, DecideSteps, ShellSteps
<1> DEFINE linked == [Stored(t) EXCEPT !.linked = TRUE]
<1>2. /\ linked.status = item[e].status /\ linked.linked
      /\ item'[e] = linked /\ row'[e] = "waiting_approval"
  <2>1. item[e] \in Items /\ item \in [Executions -> Items] /\ row = [d \in Executions |-> row[d]]
    BY DEF Typed, RowsTyped
  <2>2. linked.status = item[e].status /\ linked.linked
    BY <2>1 DEF Items, Stored
  <2>3. item' = [item EXCEPT ![e] = linked] /\ row' = [row EXCEPT ![e] = "waiting_approval"]
    BY DEF RequestContinued, SaveItem, PersistRun
  <2> HIDE DEF linked
  <2> QED
    BY <2>1, <2>2, <2>3
<1>3. NoLie(e, item[e].status) /\ RunTells(t) /\ approval[e] # "none"
  BY <1>1 DEF StoryInv, OwnerInv, RunKnows, After
<1>4. hits[e] = 0 => Tells(e, linked.status)
  BY <1>1, <1>2, <1>3 DEF RunTells, After
<1> HIDE DEF linked
<1>5. Tells(e, linked.status) => \/ linked.status = Shown(approval'[e])
                                 \/ /\ linked.status = "pending_approval"
                                    /\ \/ e \in raced' \cup bypassed'
                                       \/ \E u \in Tasks : pc'[u] \in {"decided", "updating"} /\ Exec(u)' = e
  BY <1>1, StillTells
<1>6. CASE End(t)
  <2>1. hits'[e] = 0 => Tells(e, item[e].status)'
    BY <1>1, <1>2, <1>4, <1>5 DEF Tells
  <2>2. RestTells(e)'
    BY <1>1, <1>2, <1>3, <2>1 DEF RestTells
  <2> QED
    BY <1>1, <1>2, <1>3, <1>6, <2>2, StoryEnds
<1>7. CASE Goto(t, "post") /\ job' = [job EXCEPT ![t].copy = linked] /\ job[t].then = "post"
  <2>1. pc'[t] = "post" /\ Exec(t)' = e
    BY <1>1, <1>7, StepMoves DEF Goto, Typed, Exec
  <2>2. job'[t].copy = linked
    <3>1. job[t] \in DraftRuns \cup Syntheses
      BY <1>1, JobOf
    <3>2. job'[t] = [job[t] EXCEPT !.copy = linked]
      BY <1>7 DEF Typed
    <3> QED
      BY <3>1, <3>2 DEF DraftRuns, Syntheses
  <2>3. hits'[e] = 0 => Tells(e, item[e].status)' /\ Tells(e, job[t].copy.status)'
    BY <1>1, <1>2, <1>4, <1>5, <2>2 DEF Tells
  <2>4. RunTells(t)'
    BY <1>2, <2>1, <2>2, <2>3 DEF RunTells, Before, After, Closing
  <2> QED
    BY <1>1, <1>2, <1>3, <2>1, <2>2, <2>4, StoryGoes
<1> QED
  BY <1>6, <1>7 DEF RequestContinued, linked

LEMMA StoryPosted ==
  ASSUME Typed, Typed', OwnerInv, StoryInv, NEW t \in Tasks, PostContinued(t)
  PROVE  StoryInv'
<1> PICK e \in Executions : e = Exec(t)
  BY AtCall DEF PostContinued
<1>1. /\ Step(t) /\ pc[t] = "posted" /\ End(t) /\ UNCHANGED <<status, approval, row, hits>>
      /\ job[t].op = "run"
  BY JobOf DEF Step, PostContinued, core, Quiet, DecideSteps, ShellSteps
<1>2. item'[e] = job[t].copy
  BY DEF PostContinued, SaveItem, Typed, RowsTyped
<1>3. NoLie(e, job[t].copy.status) /\ RunTells(t) /\ approval[e] # "none"
  BY <1>1 DEF StoryInv, OwnerInv, RunKnows, After
<1>4. hits[e] = 0 => job[t].copy.linked /\ row[e] = "waiting_approval" /\ Tells(e, job[t].copy.status)
  BY <1>1, <1>3 DEF RunTells
<1>5. hits'[e] = 0 => Tells(e, item[e].status)'
  BY <1>1, <1>2, <1>4, StillTells DEF Tells
<1>6. RestTells(e)'
  BY <1>1, <1>2, <1>3, <1>4, <1>5 DEF RestTells
<1> QED
  BY <1>1, <1>2, <1>3, <1>6, StoryEnds

\* A run that returns after its last call.
LEMMA StoryReturns ==
  ASSUME Typed, Typed', OwnerInv, StoryInv, NEW t \in Tasks, job[t].op = "run",
         RunReturns(t) \/ SealAnswered(t)
  PROVE  StoryInv'
<1> PICK e \in Executions : e = Exec(t)
  BY JobOf
<1>1. /\ Step(t) /\ Accepted(t) /\ Effect(t) /\ pc[t] \in Calls /\ End(t)
      /\ UNCHANGED <<item, hits>> /\ pc[t] \in {"record", "close", "seal"}
      /\ pc[t] # "seal" => UNCHANGED row
  BY DEF Step, RunReturns, SealAnswered, Answered, Calls, InSkill, Quiet, history
<1>2. NoLie(e, item[e].status) /\ RunTells(t) /\ RunKnows(t)
  BY DEF StoryInv, OwnerInv
<1>3. RestTells(e)'
  <2>1. CASE pc[t] = "seal"
    BY <1>1, <1>2, <2>1 DEF RunTells, Closing, RestTells
  <2>2. CASE pc[t] \in {"record", "close"}
    <3>1. approval[e] = "none" /\ approval'[e] = "none"
      BY <1>1, <1>2, <2>2, OwnEffect DEF RunKnows, Before
    <3>2. hits[e] = 0 => item'[e] = NoItem
                         /\ row'[e] = IF pc[t] = "record" THEN "completed" ELSE "failed"
      BY <1>1, <1>2, <2>2 DEF RunTells, Before
    <3>3. status'[e] = "completed" <=> pc[t] = "record"
      BY <1>1, <1>2, <2>2, OwnEffect DEF RunKnows
    <3> QED
      BY <1>1, <2>2, <3>1, <3>2, <3>3 DEF RestTells
  <2> QED
    BY <1>1, <2>1, <2>2
<1> QED
  BY <1>1, <1>2, <1>3, StoryEnds

\* A step of somebody who decides: a run that is still at work on the
\* execution has its approval, or failed.
LEMMA StoryDecides ==
  ASSUME Typed, Typed', OwnerInv, StoryInv, NEW t \in Tasks, Step(t), Decides(t),
         NEW e \in Executions, e = Exec(t), row'[e] = row[e],
         NoLie(e, item'[e].status),
         item[e].linked => item'[e].linked,
         hits'[e] = 0 =>
           /\ Tells(e, item[e].status) => Tells(e, item[e].status)'
           /\ \A u \in Tasks : pc[u] \in {"post", "posted"} /\ Exec(u) = e =>
                (Tells(e, job[u].copy.status) => Tells(e, job[u].copy.status)')
  PROVE  StoryInv'
<1>1. approval[e] # "none" /\ CoreKept(t, e) /\ CoreKnows(e)
  BY StepKeeps DEF OwnerInv, DeciderKnows
<1>2. approval'[e] # "none" /\ (hits'[e] = 0 => hits[e] = 0)
  BY <1>1, StepRows DEF CoreKept
<1>3. NoLie(e, item[e].status)'
  BY StillNoLie DEF NoLie
<1>4. /\ \A u \in Tasks \ {t} : pc'[u] = pc[u] /\ job'[u] = job[u]
      /\ job'[t].op # "run" /\ pc'[t] \notin {"post", "posted"}
  <2>1. /\ \A u \in Tasks \ {t} : pc'[u] = pc[u] /\ job'[u] = job[u]
        /\ job'[t].op \in {"none", job[t].op}
    BY StepMoves DEF NoJob
  <2>2. job'[t].op # "run"
    BY <2>1 DEF Decides
  <2>3. pc'[t] \in {"post", "posted"} => job'[t].op = "run"
    BY DEF Typed, JobTyped, DecideSteps, ShellSteps, DraftRuns
  <2> QED
    BY <2>1, <2>2, <2>3
<1>5. RestTells(e)'
  <2>1. RestTells(e)
    BY DEF StoryInv
  <2> SUFFICES ASSUME hits'[e] = 0, \A u \in Tasks : ~Runs(u, e)'
               PROVE  item'[e].linked /\ row'[e] = "waiting_approval" /\ Tells(e, item[e].status)'
    BY <1>2 DEF RestTells
  <2>2. \A u \in Tasks : ~Runs(u, e)
    BY <1>4 DEF Runs, Exec, Decides
  <2>3. status[e] # Absent
    BY <1>1 DEF CoreKnows
  <2>4. item[e].linked /\ row[e] = "waiting_approval" /\ Tells(e, item[e].status)
    BY <1>1, <1>2, <2>1, <2>2, <2>3 DEF RestTells
  <2> QED
    BY <2>4
<1>6. ASSUME NEW u \in Tasks, Exec(u) = e
      PROVE  /\ RunTells(u)'
             /\ pc'[u] \in {"post", "posted"} => NoLie(Exec(u), job[u].copy.status)'
  <2>1. CASE u = t
    BY <1>4, <2>1 DEF RunTells
  <2>2. CASE u # t
    <3>1. pc'[u] = pc[u] /\ job'[u] = job[u] /\ Exec(u)' = e
      BY <1>4, <1>6, <2>2 DEF Exec
    <3>2. pc'[u] \in {"post", "posted"} => NoLie(Exec(u), job[u].copy.status)'
      BY <1>6, <3>1, StillNoLie DEF StoryInv, NoLie
    <3>3. ASSUME job[u].op = "run", hits'[e] = 0
          PROVE  RunTells(u)'
      <4>1. RunTells(u) /\ RunKnows(u) /\ hits[e] = 0
        BY <1>2, <3>3 DEF StoryInv, OwnerInv
      <4>2. pc[u] \notin Before \cup {"open", "record"} /\ pc[u] \notin Closing
        BY <1>1, <1>6, <3>3, <4>1 DEF RunKnows, RunTells
      <4>3. /\ pc[u] \in After => Tells(e, item[e].status)
            /\ pc[u] \in {"post", "posted"} =>
                 /\ item[e].linked /\ row[e] = "waiting_approval"
                 /\ job[u].copy.linked /\ Tells(e, job[u].copy.status)
        BY <1>6, <3>3, <4>1 DEF RunTells
      <4>4. /\ pc[u] \in After => Tells(e, item[e].status)'
            /\ pc[u] \in {"post", "posted"} =>
                 /\ item'[e].linked /\ row'[e] = "waiting_approval"
                 /\ job'[u].copy.linked /\ Tells(e, job[u].copy.status)'
        BY <1>6, <3>1, <3>3, <4>3
      <4> QED
        BY <3>1, <4>2, <4>4 DEF RunTells, Before
    <3> QED
      BY <3>1, <3>2, <3>3 DEF RunTells
  <2> QED
    BY <2>1, <2>2
<1>7. \A d \in Executions : d = Exec(t) => NoLie(d, item[d].status)' /\ RestTells(d)'
  BY <1>3, <1>5
<1> QED
  BY <1>6, <1>7, StoryAssemble

\* The decision reaches the core, which has seen none before.
LEMMA StoryDecided ==
  ASSUME Typed, Typed', OwnerInv, StoryInv, NEW t \in Tasks, Decides(t), Serve(t)
  PROVE  StoryInv'
<1> PICK e \in Executions : e = Exec(t)
  BY JobOf DEF Decides
<1>1. Step(t) /\ Accepted(t) /\ Effect(t) /\ UNCHANGED <<item, row, job, hits>>
  BY DEF Step, Serve, Answered, rows, Quiet
<1>2. pc[t] \in {"decide", "shell"}
  BY JobOf DEF Serve, Answered, Decides, DecideSteps, ShellSteps
<1>3. approval[e] = "pending"
  BY <1>1, <1>2 DEF Accepted, Decidable
<1>4. pc'[t] \in {"decided", "updating"} /\ Exec(t)' = e
  BY <1>1, <1>2 DEF Serve, Answered, Goto, Typed, Exec
<1>5. \A s : Tells(e, s) => s = "pending_approval"
  BY <1>3 DEF Tells, Shown
<1>6. Tells(e, item[e].status) => Tells(e, item[e].status)'
  BY <1>1, <1>4, <1>5 DEF Tells
<1>7. ASSUME NEW u \in Tasks, Tells(e, job[u].copy.status)
      PROVE  Tells(e, job[u].copy.status)'
  <2>1. job'[u].copy.status = "pending_approval"
    BY <1>1, <1>5, <1>7
  <2> QED
    BY <1>4, <2>1 DEF Tells
<1>8. NoLie(e, item'[e].status) /\ row'[e] = row[e] /\ item'[e] = item[e]
  BY <1>1 DEF StoryInv
<1> QED
  BY <1>1, <1>6, <1>7, <1>8, StoryDecides

\* A decision that fails or that is refused, and a rejection that goes on to
\* fail the skill.
LEMMA StoryQuits ==
  ASSUME Typed, Typed', OwnerInv, StoryInv, NEW t \in Tasks, Decides(t),
         \/ Refused(t) \/ Break(t) \/ GiveUpAnswered(t) \/ RunReturns(t)
  PROVE  StoryInv'
<1> PICK e \in Executions : e = Exec(t)
  BY JobOf DEF Decides
<1>1. Step(t) /\ UNCHANGED item /\ pc[t] \in Calls
  BY DEF Step, Refused, Break, GiveUpAnswered, RunReturns, Answered, Calls, InSkill
<1>2. pc[t] \in {"decide", "shell", "give_up", "close"}
  <2>1. pc[t] \in DecideSteps \cup ShellSteps
    BY JobOf DEF Decides
  <2> QED
    BY <1>1, <2>1 DEF DecideSteps, ShellSteps, Calls, InSkill
<1>3. row' = row
  BY <1>2 DEF Refused, Break, GiveUpAnswered, RunReturns, Raise, Decides
<1>4. Break(t) => hits'[e] # 0
  <2>1. hits[e] \in Nat
    BY DEF Typed, RowsTyped
  <2> QED
    BY <2>1 DEF Break, Typed, RowsTyped
<1>5. ~Break(t) => approval'[e] = approval[e]
  <2>1. CASE Refused(t)
    BY <2>1 DEF Refused, core
  <2>2. CASE GiveUpAnswered(t) \/ RunReturns(t)
    <3>1. Accepted(t) /\ Effect(t) /\ pc[t] \in {"give_up", "record", "close"}
      BY <2>2 DEF GiveUpAnswered, RunReturns, Answered
    <3> QED
      BY <1>1, <3>1, OwnEffect
  <2> QED
    BY <2>1, <2>2
<1>6. hits'[e] = 0 => \A s : Tells(e, s) =>
         \/ s = Shown(approval'[e])
         \/ /\ s = "pending_approval"
            /\ \/ e \in raced' \cup bypassed'
               \/ \E u \in Tasks : pc'[u] \in {"decided", "updating"} /\ Exec(u)' = e
  BY <1>1, <1>2, <1>4, <1>5, StillTells
<1>7. \A u \in Tasks : pc[u] \in {"post", "posted"} /\ Exec(u) = e => job'[u] = job[u]
  <2>1. pc[t] \notin {"post", "posted"}
    BY <1>2
  <2> QED
    BY <1>1, <2>1, StepMoves
<1>8. hits'[e] = 0 =>
        /\ Tells(e, item[e].status) => Tells(e, item[e].status)'
        /\ \A u \in Tasks : pc[u] \in {"post", "posted"} /\ Exec(u) = e =>
             (Tells(e, job[u].copy.status) => Tells(e, job[u].copy.status)')
  BY <1>1, <1>6, <1>7 DEF Tells
<1>9. NoLie(e, item'[e].status) /\ (item[e].linked => item'[e].linked)
  BY <1>1 DEF StoryInv
<1> QED
  BY <1>1, <1>3, <1>8, <1>9, StoryDecides

\* The decision is shown: the item tells it, and a draft that is being posted
\* is noted.
LEMMA StoryShown ==
  ASSUME Typed, Typed', OwnerInv, StoryInv, NEW t \in Tasks, ShowDecision(t)
  PROVE  StoryInv'
<1> PICK e \in Executions : e = Exec(t)
  BY AtCall DEF ShowDecision
<1>1. Step(t) /\ UNCHANGED <<approval, row>> /\ pc[t] \in {"decided", "updating"}
  BY DEF Step, ShowDecision, core
<1>2. Decides(t)
  BY <1>1, JobOf DEF Decides, RunSteps, InSkill
<1>3. approval[e] = IF job[t].allow THEN "approved" ELSE "denied"
  BY <1>1, <1>2 DEF OwnerInv, DeciderKnows
<1>4. ItemStatus(job[t].allow) = Shown(approval[e])
  BY <1>3 DEF ItemStatus, Shown
<1>5. /\ item[e].linked => item'[e].linked
      /\ \/ item'[e].status = Shown(approval[e])
         \/ item'[e].status = item[e].status /\ item[e].status # "pending_approval"
  <2> DEFINE shown == [item[e] EXCEPT !.status = ItemStatus(job[t].allow)]
  <2>1. item[e] \in Items /\ item \in [Executions -> Items]
    BY DEF Typed, RowsTyped
  <2>2. shown.status = Shown(approval[e]) /\ shown.linked = item[e].linked
    BY <1>4, <2>1 DEF Items
  <2>3. \/ item' = [item EXCEPT ![e] = shown]
        \/ item' = item /\ item[e].status # "pending_approval"
    BY DEF ShowDecision, SaveItem
  <2> HIDE DEF shown
  <2> QED
    BY <2>1, <2>2, <2>3
<1>6. ASSUME NEW u \in Tasks, pc[u] \in {"post", "posted"}, Exec(u) = e, Tells(e, job[u].copy.status)
      PROVE  Tells(e, job[u].copy.status)'
  <2>1. e \in raced'
    BY <1>6 DEF ShowDecision, NoteRace
  <2>2. job'[u] = job[u]
    BY <1>1, <1>6, StepMoves
  <2> QED
    BY <1>1, <1>6, <2>1, <2>2 DEF Tells
<1>7. Tells(e, item[e].status) => Tells(e, item[e].status)'
  BY <1>1, <1>5 DEF Tells
<1>8. NoLie(e, item'[e].status)
  BY <1>5 DEF StoryInv, NoLie
<1> QED
  BY <1>1, <1>2, <1>5, <1>6, <1>7, <1>8, StoryDecides

LEMMA StoryTold ==
  ASSUME Typed, Typed', OwnerInv, StoryInv, NEW t \in Tasks, Told(t) \/ Untold(t)
  PROVE  StoryInv'
<1>1. Step(t) /\ End(t) /\ pc[t] = "tell"
  BY DEF Step, Told, Untold
<1>2. Exec(t) \notin Executions
  BY <1>1, JobOf DEF RunSteps, InSkill, DecideSteps, ShellSteps
<1>3. ASSUME NEW u \in Tasks, Exec(u) = Exec(t)
      PROVE  job'[u].op # "run" /\ pc'[u] \notin {"post", "posted"}
  <2>1. CASE u = t
    BY <1>1, <2>1 DEF End, Typed, NoJob
  <2>2. CASE u # t
    <3>1. pc'[u] = pc[u] /\ job'[u] = job[u] /\ job[u].op \notin {"run", "decide", "shell"}
      BY <1>1, <1>2, <1>3, <2>2, StepMoves, JobOf
    <3> QED
      BY <3>1, JobOf
  <2> QED
    BY <2>1, <2>2
<1>4. \A u \in Tasks : Exec(u) = Exec(t) =>
        /\ RunTells(u)'
        /\ pc'[u] \in {"post", "posted"} => NoLie(Exec(u), job[u].copy.status)'
  BY <1>3 DEF RunTells
<1> QED
  BY <1>1, <1>2, <1>4, StoryAssemble

LEMMA StoryStep ==
  ASSUME Typed, Typed', OwnerInv, StoryInv, NEW t \in Tasks, Step(t)
  PROVE  StoryInv'
<1>1. /\ OpenAnswered(t) \/ StartAnswered(t) \/ RetrieveAnswered(t) \/ ModelAnswered(t)
           \/ CompleteAnswered(t) \/ FinishAnswered(t) \/ FailAnswered(t) \/ SealAnswered(t)
         => job[t].op = "run"
      /\ Serve(t) \/ Refused(t) \/ Break(t) \/ GiveUpAnswered(t) \/ RunReturns(t) =>
           job[t].op = "run" \/ Decides(t)
  <2>1. OpenAnswered(t) \/ StartAnswered(t) \/ RetrieveAnswered(t) \/ ModelAnswered(t)
           \/ CompleteAnswered(t) \/ FinishAnswered(t) \/ FailAnswered(t) \/ SealAnswered(t)
         => pc[t] \in {"open", "start", "retrieve", "model", "complete", "finish", "fail", "seal"}
    BY DEF OpenAnswered, StartAnswered, RetrieveAnswered, ModelAnswered, CompleteAnswered,
           FinishAnswered, FailAnswered, SealAnswered, Answered
  <2>2. Serve(t) \/ Refused(t) \/ Break(t) \/ GiveUpAnswered(t) \/ RunReturns(t) => pc[t] \in Calls
    BY DEF Serve, Refused, Break, GiveUpAnswered, RunReturns, Answered, Calls, InSkill
  <2>3. {"open", "start", "retrieve", "model", "complete", "finish", "fail", "seal"} \subseteq Calls
    BY DEF Calls, InSkill
  <2>4. pc[t] \in Calls => job[t].op \in {"run", "decide", "shell"}
    BY AtCall
  <2>5. job[t].op \in {"decide", "shell"} =>
          pc[t] \notin {"open", "start", "retrieve", "model", "complete", "finish", "fail", "seal"}
    BY JobOf DEF DecideSteps, ShellSteps
  <2> QED
    BY <2>1, <2>2, <2>3, <2>4, <2>5 DEF Decides
<1>2. job[t].op = "run" => ~Decides(t)
  BY DEF Decides
<1> QED
  BY <1>1, StoryCalls, StoryFails, StoryServed, StoryLinked, StoryPosted, StoryReturns, StoryDecided,
     StoryQuits, StoryShown, StoryTold
     DEF Step

LEMMA StorySame ==
  ASSUME StoryInv, UNCHANGED <<status, approval, bypassed, item, row, pc, job, hits, raced>>
  PROVE  StoryInv'
BY DEF StoryInv, RunTells, RestTells, NoLie, Tells, Runs, Exec

LEMMA StoryHandle ==
  ASSUME Typed, OwnerInv, StoryInv, NEW t \in Tasks, Handle(t)
  PROVE  StoryInv'
<1>1. /\ pc[t] = "idle" /\ UNCHANGED <<status, approval, bypassed, item, row, hits, raced>>
      /\ \A u \in Tasks \ {t} : pc'[u] = pc[u] /\ job'[u] = job[u]
      /\ \/ pc'[t] = "open" /\ job'[t].op = "run"
         \/ pc'[t] \in {"decide", "shell", "tell"} /\ job'[t].op \in {"decide", "shell", "next"}
  BY HandlerBegins DEF core, rows
<1>2. job[t].op = "none"
  BY <1>1, JobOf
<1>3. \A d \in Executions : job'[t].op = "run" /\ Exec(t)' = d => status[d] = Absent
  BY HandlerBegins DEF Fresh, Exec
<1>4. \A u \in Tasks \ {t} : Exec(u)' = Exec(u)
  BY <1>1 DEF Exec
<1>5. \A d, s : Tells(d, s) =>
         \/ s = Shown(approval[d])
         \/ /\ s = "pending_approval"
            /\ \/ d \in raced \cup bypassed
               \/ \E u \in Tasks : pc'[u] \in {"decided", "updating"} /\ Exec(u)' = d
  BY <1>1, <1>4 DEF Tells
<1>6. ASSUME NEW d \in Executions
      PROVE  NoLie(d, item[d].status)' /\ RestTells(d)'
  <2>1. NoLie(d, item[d].status) /\ RestTells(d)
    BY DEF StoryInv
  <2>2. NoLie(d, item[d].status)'
    BY <1>1, <2>1 DEF NoLie
  <2>3. ASSUME \A u \in Tasks : ~Runs(u, d)'
        PROVE  \A u \in Tasks : ~Runs(u, d)
    BY <1>1, <1>2, <1>4, <2>3 DEF Runs
  <2>4. Tells(d, item[d].status) => Tells(d, item[d].status)'
    BY <1>1, <1>5 DEF Tells
  <2>5. RestTells(d)'
    BY <1>1, <2>1, <2>3, <2>4 DEF RestTells
  <2> QED
    BY <2>2, <2>5
<1>7. ASSUME NEW u \in Tasks
      PROVE  RunTells(u)' /\ (pc'[u] \in {"post", "posted"} => NoLie(Exec(u), job[u].copy.status)')
  <2>1. CASE u = t
    BY <1>1, <2>1 DEF RunTells, Before, After, Closing
  <2>2. CASE u # t
    <3>1. pc'[u] = pc[u] /\ job'[u] = job[u] /\ Exec(u)' = Exec(u)
      BY <1>1, <1>4, <2>2
    <3>2. RunTells(u) /\ (pc[u] \in {"post", "posted"} => NoLie(Exec(u), job[u].copy.status))
      BY DEF StoryInv
    <3>3. /\ Tells(Exec(u), item[Exec(u)].status) => Tells(Exec(u), item[Exec(u)].status)'
          /\ Tells(Exec(u), job[u].copy.status) => Tells(Exec(u), job[u].copy.status)'
      BY <1>1, <1>5, <3>1 DEF Tells
    <3>4. RunTells(u)'
      BY <1>1, <3>1, <3>2, <3>3 DEF RunTells
    <3> QED
      BY <1>1, <3>1, <3>2, <3>4 DEF NoLie
  <2> QED
    BY <2>1, <2>2
<1> QED
  BY <1>6, <1>7 DEF StoryInv

\* A restart ends every run, and is an error of its execution.
LEMMA StoryRestart ==
  ASSUME Typed, StoryInv, Restart
  PROVE  StoryInv'
<1> DEFINE mine == {t \in Tasks : pc[t] # "idle" /\ job[t].op # "shell"}
<1>1. /\ pc' = [t \in Tasks |-> IF t \in mine THEN "idle" ELSE pc[t]]
      /\ job' = [t \in Tasks |-> IF t \in mine THEN NoJob ELSE job[t]]
      /\ hits' = [e \in Executions |-> hits[e] + IF \E t \in mine : Exec(t) = e THEN 2 ELSE 0]
      /\ UNCHANGED <<status, approval, bypassed, item, row, raced>>
  BY DEF Restart, core, rows, slack
<1>2. ASSUME NEW t \in Tasks
      PROVE  job'[t].op # "run" /\ pc'[t] \notin {"post", "posted"}
  <2>1. CASE t \in mine
    BY <1>1, <2>1 DEF NoJob
  <2>2. CASE t \notin mine
    <3>1. pc'[t] = pc[t] /\ job'[t] = job[t] /\ (pc[t] = "idle" \/ job[t].op = "shell")
      BY <1>1, <2>2
    <3>2. job[t].op \in {"none", "shell"} /\ pc[t] \in {"idle", "shell", "updating"}
      BY <3>1, JobOf DEF ShellSteps
    <3> QED
      BY <3>1, <3>2
  <2> QED
    BY <2>1, <2>2
<1>3. ASSUME NEW e \in Executions
      PROVE  NoLie(e, item[e].status)' /\ RestTells(e)'
  <2>1. NoLie(e, item[e].status) /\ RestTells(e)
    BY DEF StoryInv
  <2>2. NoLie(e, item[e].status)'
    BY <1>1, <2>1 DEF NoLie
  <2>3. ASSUME hits'[e] = 0
        PROVE  hits[e] = 0 /\ \A t \in Tasks : Exec(t) = e => t \notin mine
    <3>1. hits[e] \in Nat
      BY DEF Typed, RowsTyped
    <3> HIDE DEF mine
    <3>2. hits'[e] = hits[e] + IF \E t \in mine : Exec(t) = e THEN 2 ELSE 0
      BY <1>1
    <3> QED
      BY <2>3, <3>1, <3>2
  <2>4. hits'[e] = 0 => \A t \in Tasks : ~Runs(t, e)
    BY <2>3, JobOf DEF Runs
  <2>5. hits'[e] = 0 => (Tells(e, item[e].status) => Tells(e, item[e].status)')
    <3>1. ASSUME hits'[e] = 0, NEW t \in Tasks, Exec(t) = e
          PROVE  pc'[t] = pc[t] /\ Exec(t)' = e
      <4>1. t \notin mine
        BY <2>3, <3>1
      <4> HIDE DEF mine
      <4> QED
        BY <1>1, <3>1, <4>1 DEF Exec
    <3> QED
      BY <1>1, <3>1 DEF Tells
  <2>6. RestTells(e)'
    BY <1>1, <2>1, <2>3, <2>4, <2>5 DEF RestTells
  <2> QED
    BY <2>2, <2>6
<1> QED
  BY <1>2, <1>3 DEF StoryInv, RunTells

\* A decision on the approvals route: what was to be shown is a pending draft.
LEMMA StoryBypass ==
  ASSUME Typed, StoryInv, NEW e \in Executions, NEW allow \in BOOLEAN, DecideOnly(e, allow)
  PROVE  StoryInv'
<1>1. /\ approval[e] = "pending" /\ approval'[e] # "none" /\ e \in bypassed'
      /\ \A d \in Executions \ {e} : approval'[d] = approval[d]
      /\ bypassed \subseteq bypassed'
      /\ UNCHANGED <<status, item, row, pc, job, hits, raced>>
  BY DEF DecideOnly, Decidable, rows, slack, history, Typed, RowsTyped
<1>2. ASSUME NEW d \in Executions, NEW s, Tells(d, s)
      PROVE  \/ s = Shown(approval'[d])
             \/ /\ s = "pending_approval"
                /\ \/ d \in raced' \cup bypassed'
                   \/ \E u \in Tasks : pc'[u] \in {"decided", "updating"} /\ Exec(u)' = d
  <2>1. CASE d = e
    BY <1>1, <1>2, <2>1 DEF Tells, Shown
  <2>2. CASE d # e
    BY <1>1, <1>2, <2>2 DEF Tells, Exec
  <2> QED
    BY <2>1, <2>2
<1>3. ASSUME NEW d \in Executions, NEW s, NoLie(d, s)
      PROVE  s \in {"approved", "rejected"} => s = Shown(approval'[d])
  <2>1. CASE d = e
    BY <1>1, <1>3, <2>1 DEF NoLie, Shown
  <2>2. CASE d # e
    BY <1>1, <1>3, <2>2 DEF NoLie
  <2> QED
    BY <2>1, <2>2
<1>4. ASSUME NEW d \in Executions
      PROVE  NoLie(d, item[d].status)' /\ RestTells(d)'
  <2>1. NoLie(d, item[d].status) /\ RestTells(d)
    BY DEF StoryInv
  <2>2. approval[d] = "none" <=> approval'[d] = "none"
    BY <1>1
  <2>3. Tells(d, item[d].status) => Tells(d, item[d].status)'
    BY <1>1, <1>2 DEF Tells
  <2>4. RestTells(d)'
    BY <1>1, <2>1, <2>2, <2>3 DEF RestTells, Runs, Exec
  <2> QED
    BY <1>1, <1>3, <2>1, <2>4 DEF NoLie
<1>5. ASSUME NEW t \in Tasks
      PROVE  RunTells(t)' /\ (pc'[t] \in {"post", "posted"} => NoLie(Exec(t), job[t].copy.status)')
  <2>1. RunTells(t) /\ (pc[t] \in {"post", "posted"} => NoLie(Exec(t), job[t].copy.status))
    BY DEF StoryInv
  <2>2. Exec(t)' = Exec(t) /\ job'[t] = job[t] /\ pc'[t] = pc[t]
    BY <1>1 DEF Exec
  <2>3. job[t].op = "run" \/ pc[t] \in {"post", "posted"} => Exec(t) \in Executions
    BY JobOf, AtCall DEF Calls
  <2>4. job[t].op = "run" =>
          /\ Tells(Exec(t), item[Exec(t)].status) => Tells(Exec(t), item[Exec(t)].status)'
          /\ Tells(Exec(t), job[t].copy.status) => Tells(Exec(t), job[t].copy.status)'
    BY <1>1, <1>2, <2>2, <2>3 DEF Tells
  <2>5. RunTells(t)'
    BY <1>1, <2>1, <2>2, <2>4 DEF RunTells
  <2>6. pc'[t] \in {"post", "posted"} => NoLie(Exec(t), job[t].copy.status)'
    BY <1>3, <2>1, <2>2, <2>3 DEF NoLie
  <2> QED
    BY <2>5, <2>6
<1> QED
  BY <1>4, <1>5 DEF StoryInv

LEMMA InitStory == Init => StoryInv
<1> SUFFICES ASSUME Init PROVE StoryInv
  OBVIOUS
<1>1. \A t \in Tasks : job[t].op = "none" /\ pc[t] = "idle"
  BY DEF Init, NoJob
<1>2. \A e \in Executions : status[e] = Absent /\ item[e].status = "none"
  BY DEF Init, NoItem
<1> QED
  BY <1>1, <1>2 DEF StoryInv, RunTells, RestTells, NoLie

LEMMA NextStory == Typed /\ OwnerInv /\ StoryInv /\ [Next]_vars => StoryInv'
<1> SUFFICES ASSUME Typed, OwnerInv, StoryInv, [Next]_vars PROVE StoryInv'
  OBVIOUS
<1>1. Typed'
  BY NextTyped
<1>2. CASE StartOnboarding \/ ApproveBrand \/ RejectBrand \/ \E a \in Answers : Reply(a)
  BY <1>2, StorySame DEF StartOnboarding, ApproveBrand, RejectBrand, Reply, core, history
<1>3. CASE UNCHANGED vars
  BY <1>3, StorySame DEF vars, core, rows, history
<1> QED
  BY <1>1, <1>2, <1>3, StoryStep, StoryHandle, StoryBypass, StoryRestart DEF Next

-----------------------------------------------------------------------------
(* While no decision went through Nova or the shell *)

\* Nobody decided, or the approvals route did.
Undecided(e) == approval[e] = "pending" \/ e \in bypassed

\* The draft waits: nobody is beyond the decision, no copy of the item shows
\* one, and without an error the execution waits too.
Waits(e) ==
  Undecided(e) =>
    /\ item[e].status = "pending_approval"
    /\ \A t \in Tasks : Exec(t) = e =>
         /\ Decides(t) => pc[t] \in {"decide", "shell"}
         /\ pc[t] \in {"post", "posted"} => job[t].copy.status = "pending_approval"
    /\ hits[e] = 0 => status[e] = "waiting_approval"

WaitInv ==
  /\ \A e \in Executions : Waits(e)
  /\ \A e \in bypassed : approval[e] \in {"approved", "denied"}
  /\ \A t \in Tasks : pc[t] = "request" => item[Exec(t)].status = "pending_approval"

\* A step that does not ask for the approval and finds the draft waiting.
LEMMA WaitOn ==
  ASSUME Typed, OwnerInv, StoryInv, WaitInv, NEW t \in Tasks, Step(t),
         NEW e \in Executions, e = Exec(t), Undecided(e)
  PROVE  Waits(e)'
<1>1. /\ item[e].status = "pending_approval"
      /\ \A u \in Tasks : Exec(u) = e =>
           /\ Decides(u) => pc[u] \in {"decide", "shell"}
           /\ pc[u] \in {"post", "posted"} => job[u].copy.status = "pending_approval"
      /\ hits[e] = 0 => status[e] = "waiting_approval"
  BY DEF WaitInv, Waits
<1>2. approval[e] # "none" /\ (e \in bypassed => approval[e] \in {"approved", "denied"})
  BY DEF Undecided, WaitInv
<1>3. /\ \A u \in Tasks \ {t} : pc'[u] = pc[u] /\ job'[u] = job[u]
      /\ \/ pc'[t] = "idle" /\ job'[t] = NoJob
         \/ job'[t].op = job[t].op /\ job'[t].exec = job[t].exec
  BY StepMoves
<1>4. /\ hits[e] \in Nat /\ hits'[e] \in Nat /\ hits'[e] >= hits[e] /\ bypassed' = bypassed
  BY StepRows
<1>5. SUFFICES ASSUME Undecided(e)' PROVE Waits(e)'
  BY DEF Waits
<1>6. RunKnows(t) /\ RunTells(t)
  BY DEF OwnerInv, StoryInv
<1>7. CASE job[t].op = "run"
  <2>1. pc[t] \notin Before \cup {"open", "record"}
    BY <1>2, <1>6, <1>7 DEF RunKnows
  <2>2. pc[t] \in {"requested", "post", "posted", "fail", "seal"}
    BY <1>7, <2>1, JobOf DEF RunSteps, InSkill, Before
  <2>3. CASE RequestContinued(t)
    <3> DEFINE linked == [Stored(t) EXCEPT !.linked = TRUE]
    <3>1. item[e] \in Items /\ item \in [Executions -> Items]
      BY DEF Typed, RowsTyped
    <3>2. linked.status = "pending_approval"
      BY <1>1, <3>1 DEF Items, Stored
    <3>3. item' = [item EXCEPT ![e] = linked] /\ UNCHANGED <<status, hits>>
      BY <2>3 DEF RequestContinued, SaveItem, core, Quiet
    <3>4. pc'[t] \in {"post", "posted"} => job'[t].copy.status = "pending_approval"
      <4>1. CASE End(t)
        BY <4>1 DEF End, Typed
      <4>2. CASE job' = [job EXCEPT ![t].copy = linked]
        <5>1. job[t] \in DraftRuns \cup Syntheses
          BY <1>7, JobOf
        <5>2. job'[t] = [job[t] EXCEPT !.copy = linked]
          BY <4>2 DEF Typed
        <5>3. job'[t].copy = linked
          BY <5>1, <5>2 DEF DraftRuns, Syntheses
        <5> QED
          BY <3>2, <5>3
      <4> QED
        BY <2>3, <4>1, <4>2 DEF RequestContinued
    <3>5. item'[e].status = "pending_approval"
      BY <3>1, <3>2, <3>3
    <3>6. ~Decides(t)'
      BY <1>3, <1>7 DEF Decides, NoJob
    <3> QED
      BY <1>1, <1>3, <3>3, <3>4, <3>5, <3>6 DEF Waits, Decides, Exec
  <2>4. CASE ~RequestContinued(t)
    <3>1. \/ PostContinued(t)
          \/ UNCHANGED item /\ (pc'[t] \in {"post", "posted"} => pc[t] = "post" /\ UNCHANGED job)
      <4>1. CASE Serve(t)
        BY <4>1, <2>2 DEF Serve, Answered, Goto, Typed, rows
      <4>2. CASE Refused(t) \/ Break(t)
        BY <4>2 DEF Refused, Break, Raise, Goto, End, Typed
      <4>3. CASE FailAnswered(t) \/ SealAnswered(t)
        BY <4>3 DEF FailAnswered, SealAnswered, Goto, End, Typed, rows
      <4> QED
        BY <2>2, <2>4, <4>1, <4>2, <4>3
           DEF Step, OpenAnswered, StartAnswered, RetrieveAnswered, ModelAnswered, GiveUpAnswered,
               CompleteAnswered, FinishAnswered, RunReturns, ShowDecision, Told, Untold, Answered
    <3>2. item'[e].status = "pending_approval"
      <4>1. CASE PostContinued(t)
        <5>1. pc[t] = "posted" /\ item' = [item EXCEPT ![e] = job[t].copy]
          BY <4>1 DEF PostContinued, SaveItem
        <5> QED
          BY <1>1, <5>1 DEF Typed, RowsTyped
      <4> QED
        BY <1>1, <3>1, <4>1
    <3>3. pc'[t] \in {"post", "posted"} => job'[t].copy.status = "pending_approval"
      <4>1. PostContinued(t) => pc'[t] = "idle"
        BY DEF PostContinued, End, Typed
      <4> QED
        BY <1>1, <3>1, <4>1
    <3>4. ~Decides(t)'
      BY <1>3, <1>7 DEF Decides, NoJob
    <3>5. hits'[e] = 0 => status'[e] = "waiting_approval"
      <4>1. hits'[e] = 0 => hits[e] = 0
        BY <1>4
      <4>2. hits[e] = 0 => pc[t] \notin Closing
        BY <1>6, <1>7 DEF RunTells
      <4>3. pc[t] \in {"requested", "post", "posted"} => status'[e] = status[e]
        <5>1. \/ UNCHANGED status
              \/ Accepted(t) /\ Effect(t) /\ pc[t] \in Calls
          BY CoreSteps DEF core
        <5> QED
          BY <5>1, OwnEffect
      <4> QED
        BY <1>1, <2>2, <4>1, <4>2, <4>3 DEF Closing
    <3> QED
      BY <1>1, <1>3, <3>2, <3>3, <3>4, <3>5 DEF Waits, Decides, Exec
  <2> QED
    BY <2>3, <2>4
<1>8. CASE Decides(t)
  <2>1. pc[t] \in {"decide", "shell"} /\ job[t].op # "run"
    BY <1>1, <1>8 DEF Decides
  <2>2. Refused(t) \/ Break(t)
    <3>1. CASE Serve(t)
      <4>1. Accepted(t) /\ Effect(t) /\ pc[t] \in Calls
        BY <2>1, <3>1 DEF Serve, Answered, Calls
      <4>2. approval[e] = "pending" /\ approval'[e] \in {"approved", "denied"}
        BY <2>1, <4>1, OwnEffect
      <4> QED
        BY <1>2, <1>4, <1>5, <4>2 DEF Undecided
    <3> QED
      BY <2>1, <3>1
         DEF Step, OpenAnswered, StartAnswered, RetrieveAnswered, ModelAnswered, GiveUpAnswered,
             RequestContinued, PostContinued, CompleteAnswered, FinishAnswered, RunReturns,
             FailAnswered, SealAnswered, ShowDecision, Told, Untold, Answered
  <2>3. item' = item /\ pc'[t] = "idle" /\ job'[t] = NoJob
    BY <2>1, <2>2 DEF Refused, Break, Raise, End, Typed
  <2>4. hits'[e] = 0 => status'[e] = status[e]
    <3>1. Break(t) => hits'[e] # 0
      BY <1>4 DEF Break, Typed, RowsTyped
    <3>2. Refused(t) => status' = status
      BY DEF Refused, core
    <3> QED
      BY <2>2, <3>1, <3>2
  <2>5. hits'[e] = 0 => hits[e] = 0
    BY <1>4
  <2> QED
    BY <1>1, <1>3, <2>3, <2>4, <2>5 DEF Waits, Decides, Exec, NoJob
<1> QED
  BY <1>7, <1>8, JobOf DEF Decides

\* The step that asks for the approval finds the draft stored, and nobody who
\* could decide it.
LEMMA WaitBegins ==
  ASSUME Typed, OwnerInv, StoryInv, WaitInv, NEW t \in Tasks, Step(t),
         NEW e \in Executions, e = Exec(t), ~Undecided(e), Undecided(e)'
  PROVE  Waits(e)'
<1>1. approval'[e] = "pending" /\ approval[e] # "pending"
  BY StepRows DEF Undecided
<1>2. Accepted(t) /\ Effect(t) /\ pc[t] \in Calls
  BY <1>1, CoreSteps DEF core
<1>3. pc[t] = "request" /\ status'[e] = "waiting_approval" /\ approval[e] = "none"
  BY <1>1, <1>2, OwnEffect
<1>4. /\ \A u \in Tasks \ {t} : pc'[u] = pc[u] /\ job'[u] = job[u]
      /\ \/ pc'[t] = "idle" /\ job'[t] = NoJob
         \/ job'[t].op = job[t].op /\ job'[t].exec = job[t].exec
  BY StepMoves
<1>5. job[t].op = "run"
  BY <1>3, JobOf DEF DecideSteps, ShellSteps
<1>6. item' = item /\ pc'[t] \notin {"post", "posted"}
  BY <1>3 DEF Step, Serve, Refused, Break, Raise, OpenAnswered, StartAnswered, RetrieveAnswered,
         ModelAnswered, GiveUpAnswered, RequestContinued, PostContinued, CompleteAnswered,
         FinishAnswered, RunReturns, FailAnswered, SealAnswered, ShowDecision, Told, Untold, Answered,
         Goto, End, Typed, rows
<1>7. item[e].status = "pending_approval"
  BY <1>3 DEF WaitInv
<1>8. ~Decides(t)'
  BY <1>4, <1>5 DEF Decides, NoJob
<1>9. ASSUME NEW u \in Tasks, u # t, Exec(u) = e
      PROVE  ~Decides(u) /\ pc[u] \notin {"post", "posted"}
  <2>1. ~Decides(u) /\ job[u].op # "run"
    BY <1>3, <1>5, <1>9 DEF OwnerInv, DeciderKnows, RunKnows, Runs
  <2> QED
    BY <2>1, JobOf DEF Decides
<1>10. \A u \in Tasks : Exec(u)' = e =>
         ~Decides(u)' /\ pc'[u] \notin {"post", "posted"}
  BY <1>4, <1>6, <1>8, <1>9 DEF Decides, Exec
<1> QED
  BY <1>3, <1>6, <1>7, <1>10 DEF Waits

LEMMA WaitStep ==
  ASSUME Typed, OwnerInv, StoryInv, WaitInv, NEW t \in Tasks, Step(t)
  PROVE  WaitInv'
<1>1. /\ \A d \in Executions : d # Exec(t) =>
           status'[d] = status[d] /\ approval'[d] = approval[d] /\ item'[d] = item[d] /\ hits'[d] = hits[d]
      /\ bypassed' = bypassed
  BY StepRows
<1>2. /\ \A u \in Tasks \ {t} : pc'[u] = pc[u] /\ job'[u] = job[u]
      /\ \/ pc'[t] = "idle" /\ job'[t] = NoJob
         \/ job'[t].op = job[t].op /\ job'[t].exec = job[t].exec
  BY StepMoves
<1>3. ASSUME NEW d \in Executions
      PROVE  Waits(d)'
  <2>1. CASE d = Exec(t)
    BY <2>1, WaitOn, WaitBegins DEF Waits
  <2>2. CASE d # Exec(t)
    <3>1. Waits(d)
      BY DEF WaitInv
    <3>2. Undecided(d)' => Undecided(d)
      BY <1>1, <2>2 DEF Undecided
    <3>3. \A u \in Tasks : Exec(u)' = d => Exec(u) = d /\ pc'[u] = pc[u] /\ job'[u] = job[u]
      <4> SUFFICES ASSUME NEW u \in Tasks, Exec(u)' = d
                   PROVE  Exec(u) = d /\ pc'[u] = pc[u] /\ job'[u] = job[u]
        OBVIOUS
      <4>1. CASE u = t
        <5>1. Exec(t)' = 0 \/ Exec(t)' = Exec(t)
          BY <1>2 DEF Exec, NoJob
        <5>2. d # 0
          BY DEF Executions
        <5> QED
          BY <2>2, <4>1, <5>1, <5>2
      <4> QED
        BY <1>2, <4>1 DEF Exec
    <3> QED
      BY <1>1, <2>2, <3>1, <3>2, <3>3 DEF Waits, Decides
  <2> QED
    BY <2>1, <2>2
<1>4. \A e \in bypassed' : approval'[e] \in {"approved", "denied"}
  <2>1. \A e \in Executions : CoreKept(t, e)
    BY StepKeeps
  <2>2. \A e \in bypassed : e \in Executions /\ approval[e] \in {"approved", "denied"}
    BY DEF WaitInv, Typed, RowsTyped
  <2> QED
    BY <1>1, <2>1, <2>2 DEF CoreKept
<1>5. ASSUME NEW u \in Tasks, pc'[u] = "request"
      PROVE  item'[Exec(u)'].status = "pending_approval"
  <2>1. CASE u = t
    <3>1. ModelAnswered(t) /\ SaveItem(Exec(t), [status |-> "pending_approval", linked |-> FALSE])
          /\ UNCHANGED job
      BY <1>5, <2>1
         DEF Step, Serve, Refused, Break, Raise, OpenAnswered, StartAnswered, RetrieveAnswered,
             ModelAnswered, GiveUpAnswered, RequestContinued, PostContinued, CompleteAnswered,
             FinishAnswered, RunReturns, FailAnswered, SealAnswered, ShowDecision, Told, Untold,
             Goto, End, Typed, AfterComplete
    <3>2. Exec(t) \in Executions
      BY <3>1, AtCall DEF ModelAnswered, Answered, Calls, InSkill
    <3> QED
      BY <2>1, <3>1, <3>2 DEF SaveItem, Exec, Typed, RowsTyped
  <2>2. CASE u # t
    <3>1. pc[u] = "request" /\ Exec(u)' = Exec(u) /\ job[u].op = "run" /\ Exec(u) \in Executions
      BY <1>2, <1>5, <2>2, JobOf DEF Exec, DecideSteps, ShellSteps
    <3>2. item[Exec(u)].status = "pending_approval" /\ approval[Exec(u)] = "none"
      BY <3>1 DEF WaitInv, OwnerInv, RunKnows, Before
    <3>3. Exec(t) # Exec(u)
      <4> SUFFICES ASSUME Exec(t) = Exec(u) PROVE FALSE
        OBVIOUS
      <4>1. job[t].op \notin {"run", "decide", "shell"}
        BY <2>2, <3>1, <3>2 DEF OwnerInv, RunKnows, DeciderKnows, Decides, Runs
      <4> QED
        BY <3>1, <4>1, JobOf, Numbers
    <3> QED
      BY <1>1, <3>1, <3>2, <3>3
  <2> QED
    BY <2>1, <2>2
<1> QED
  BY <1>3, <1>4, <1>5 DEF WaitInv

\* A handler that begins, begins with its call.
LEMMA WaitHandle ==
  ASSUME Typed, OwnerInv, WaitInv, NEW t \in Tasks, Handle(t)
  PROVE  WaitInv'
<1>1. /\ UNCHANGED <<status, approval, bypassed, item, hits>>
      /\ \A u \in Tasks \ {t} : pc'[u] = pc[u] /\ job'[u] = job[u]
      /\ \/ pc'[t] = "open" /\ job'[t].op = "run"
         \/ pc'[t] \in {"decide", "shell"} /\ job'[t].op \in {"decide", "shell"}
         \/ pc'[t] = "tell" /\ job'[t].op = "next"
  BY HandlerBegins DEF core, rows
<1>2. /\ Decides(t)' => pc'[t] \in {"decide", "shell"}
      /\ pc'[t] \notin {"post", "posted", "request"}
  BY <1>1 DEF Decides
<1>3. \A u \in Tasks \ {t} : Exec(u)' = Exec(u) /\ (Decides(u)' <=> Decides(u))
  BY <1>1 DEF Exec, Decides
<1> QED
  BY <1>1, <1>2, <1>3 DEF WaitInv, Waits, Undecided

\* A restart ends handlers, and leaves what it does not end as it was.
LEMMA WaitRestart ==
  ASSUME Typed, WaitInv, Restart
  PROVE  WaitInv'
<1>1. UNCHANGED <<status, approval, bypassed, item>>
  BY DEF Restart, core, rows
<1>2. ASSUME NEW t \in Tasks
      PROVE  \/ pc'[t] = "idle" /\ job'[t] = NoJob
             \/ pc'[t] = pc[t] /\ job'[t] = job[t]
  BY DEF Restart
<1>3. ASSUME NEW e \in Executions
      PROVE  hits'[e] = 0 => hits[e] = 0
  <2>1. hits[e] \in Nat
    BY DEF Typed, RowsTyped
  <2> QED
    BY <2>1 DEF Restart
<1>4. ASSUME NEW t \in Tasks
      PROVE  /\ Decides(t)' => Decides(t) /\ pc'[t] = pc[t] /\ Exec(t)' = Exec(t)
             /\ pc'[t] # "idle" => pc'[t] = pc[t] /\ job'[t] = job[t] /\ Exec(t)' = Exec(t)
  BY <1>2 DEF Decides, Exec, NoJob
<1> QED
  BY <1>1, <1>3, <1>4 DEF WaitInv, Waits, Undecided

\* The approvals route decides a draft that waits, and leaves it waiting.
LEMMA WaitBypass ==
  ASSUME Typed, WaitInv, NEW e \in Executions, NEW allow \in BOOLEAN, DecideOnly(e, allow)
  PROVE  WaitInv'
<1>1. /\ approval[e] = "pending" /\ approval'[e] \in {"approved", "denied"}
      /\ \A d \in Executions \ {e} : approval'[d] = approval[d]
      /\ bypassed' = bypassed \cup {e} /\ bypassed \subseteq Executions
      /\ UNCHANGED <<status, item, pc, job, hits>>
  BY DEF DecideOnly, Decidable, rows, slack, history, Typed, RowsTyped
<1>2. \A d \in Executions : Undecided(d)' => Undecided(d)
  BY <1>1 DEF Undecided
<1>3. \A d \in Executions : Waits(d)'
  BY <1>1, <1>2 DEF WaitInv, Waits, Decides, Exec
<1>4. \A d \in bypassed' : approval'[d] \in {"approved", "denied"}
  BY <1>1 DEF WaitInv
<1> QED
  BY <1>1, <1>3, <1>4 DEF WaitInv, Exec

LEMMA WaitSame ==
  ASSUME WaitInv, UNCHANGED <<status, approval, bypassed, item, pc, job, hits>>
  PROVE  WaitInv'
BY DEF WaitInv, Waits, Undecided, Decides, Exec

LEMMA InitWait == Init => WaitInv
BY DEF Init, WaitInv, Waits, Undecided

LEMMA NextWait == Typed /\ OwnerInv /\ StoryInv /\ WaitInv /\ [Next]_vars => WaitInv'
<1> SUFFICES ASSUME Typed, OwnerInv, StoryInv, WaitInv, [Next]_vars PROVE WaitInv'
  OBVIOUS
<1>1. CASE StartOnboarding \/ ApproveBrand \/ RejectBrand \/ \E a \in Answers : Reply(a)
  BY <1>1, WaitSame DEF StartOnboarding, ApproveBrand, RejectBrand, Reply, core, history
<1>2. CASE UNCHANGED vars
  BY <1>2, WaitSame DEF vars, core, rows, history
<1> QED
  BY <1>1, <1>2, WaitStep, WaitHandle, WaitBypass, WaitRestart DEF Next

\* No failure and no race makes an item show a decision the core did not
\* take; a draft decided on the approvals route stays pending, whoever else
\* works on it; and when nobody works on an execution and no error was raised
\* for it, item and run row tell what the core knows, but for an item decided
\* while its draft was being posted, which the save after the post turns
\* back, and for one decided on the approvals route, whose execution goes on
\* waiting.
THEOREM ItemsTellApprovals == Spec => []ItemTellsApproval
<1>1. Init => Typed /\ OwnerInv /\ StoryInv /\ WaitInv
  BY InitTyped, InitOwner, InitStory, InitWait
<1>2. Typed /\ OwnerInv /\ StoryInv /\ WaitInv /\ [Next]_vars
        => (Typed /\ OwnerInv /\ StoryInv /\ WaitInv)'
  BY NextTyped, NextOwner, NextStory, NextWait
<1>3. Typed /\ OwnerInv /\ StoryInv /\ WaitInv => ItemTellsApproval
  <2> SUFFICES ASSUME Typed, OwnerInv, StoryInv, WaitInv, NEW e \in Executions
               PROVE  /\ item[e].status \in {"approved", "rejected"} => item[e].status = Shown(approval[e])
                      /\ e \in bypassed => item[e].status = "pending_approval"
                      /\ ~Busy(e) /\ hits[e] = 0 =>
                           /\ item[e].linked <=> approval[e] # "none"
                           /\ \/ item[e].status = Shown(approval[e])
                              \/ e \in raced \cup bypassed /\ item[e].status = "pending_approval"
                           /\ e \in bypassed => status[e] = "waiting_approval"
                           /\ status[e] # Absent =>
                                row[e] = IF approval[e] # "none" THEN "waiting_approval"
                                         ELSE IF status[e] = "completed" THEN "completed" ELSE "failed"
    BY DEF ItemTellsApproval
  <2>1. NoLie(e, item[e].status) /\ RestTells(e) /\ CoreKnows(e) /\ Waits(e)
    BY DEF StoryInv, OwnerInv, WaitInv
  <2>2. NoItem.status = Shown("none") /\ NoItem.linked = FALSE
    BY DEF NoItem, Shown
  <2>3. e \in bypassed => /\ item[e].status = "pending_approval"
                          /\ hits[e] = 0 => status[e] = "waiting_approval"
    BY <2>1 DEF Waits, Undecided
  <2>4. CASE status[e] = Absent
    BY <2>1, <2>2, <2>3, <2>4 DEF CoreKnows, NoLie
  <2>5. CASE status[e] # Absent
    BY <2>1, <2>2, <2>3, <2>5 DEF NoLie, RestTells, Tells, Busy, Runs
  <2> QED
    BY <2>4, <2>5
<1> QED
  BY <1>1, <1>2, <1>3, PTL DEF Spec
=============================================================================
