-------------------------- MODULE ExecutionProofs --------------------------
(***************************************************************************)
(* Proofs about Execution, for any number of executions, requests,         *)
(* approvals and members.                                                  *)
(*                                                                         *)
(* TypeOK is inductive: what a request does next is typed by the step it   *)
(* is at (AtItsStep), and a step of one request disturbs another only      *)
(* through the rows, which grow or keep what the other one relies on.  On  *)
(* it rest, in this order: the status of an execution, what seals commit   *)
(* to, the lawful story the ledger tells, that the last seal stands, the   *)
(* agreement of the approvals with the evidence about them, and that a     *)
(* grant takes effect.  They name the request in between: the one that is  *)
(* still opening an execution, the one that has decided an approval but    *)
(* not recorded it, and the one that is about to resume the execution.     *)
(***************************************************************************)
EXTENDS Execution, SequenceTheorems, FiniteSetTheorems, TLAPS

-----------------------------------------------------------------------------
(* Requests *)

LEMMA IdleCall ==
  ASSUME TypeOK, NEW w \in Workers, call[w].op = "none"
  PROVE  call[w] = NoCall
BY DEF TypeOK, Requests, WorkOperations

\* A request that is not idle has an execution and the fields of its operation.
LEMMA BusyCall ==
  ASSUME TypeOK, NEW w \in Workers, pc[w] # "idle"
  PROVE  /\ call[w] \in Requests
         /\ Exec(w) \in Executions
         /\ call[w].op \in WorkOperations =>
              call[w] \in [op : WorkOperations, exec : Executions,
                          last : EXECUTION_EVENT_TYPES \cup {"start"}]
         /\ call[w].op = "request_approval" => call[w].user \in Users
         /\ call[w].op \in {"decide", "decide_only"} =>
              /\ call[w].approval \in Approvals
              /\ call[w].user \in Approvers
              /\ call[w].allow \in BOOLEAN
         /\ call[w].op = "finalize" => call[w].outcome \in Outcomes
<1>1. call[w].op \in OperationsAt(pc[w]) /\ pc[w] \in Labels
  BY DEF TypeOK, AtItsStep
<1>2. call[w].op # "none"
  BY <1>1 DEF OperationsAt, Labels, WorkOperations
<1>3. call[w] \in Requests
  BY <1>2 DEF TypeOK, NoCall
<1> QED
  BY <1>3 DEF Requests, Exec, WorkOperations

\* What a step of w must leave alone for another request v to stay as it is.
LEMMA OtherRequest ==
  ASSUME TypeOK, NEW v \in Workers,
         pc'[v] = pc[v], call'[v] = call[v], parent'[v] = parent[v],
         \A e \in Executions : Len(events'[e]) >= Len(events[e]),
         \A e \in Executions : Len(events'[e]) \in Nat,
         \A a \in Approvals : approvals[a] # NoApproval =>
           /\ approvals'[a] # NoApproval
           /\ approvals'[a].exec = approvals[a].exec
           /\ approvals'[a].requester = approvals[a].requester
  PROVE  AtItsStep(v)'
<1>1. AtItsStep(v)
  BY DEF TypeOK
<1>2. pc[v] # "idle" => Exec(v) \in Executions
  BY BusyCall
<1>3. call[v].op \in {"decide", "decide_only"} => call[v].approval \in Approvals
  <2>1. pc[v] = "idle" => call[v].op = "none"
    BY <1>1 DEF AtItsStep, OperationsAt
  <2> QED
    BY <2>1, BusyCall
<1>4. pc[v] # "idle" => parent'[v] <= Len(events'[Exec(v)])
  <2> SUFFICES ASSUME pc[v] # "idle" PROVE parent'[v] <= Len(events'[Exec(v)])
    OBVIOUS
  <2> PICK e \in Executions : e = Exec(v)
    BY <1>2
  <2>1. parent[v] <= Len(events[e]) /\ parent[v] \in Nat
    BY <1>1 DEF AtItsStep, TypeOK
  <2>2. Len(events[e]) \in Nat /\ Len(events'[e]) \in Nat /\ Len(events'[e]) >= Len(events[e])
    BY LenProperties DEF TypeOK
  <2> QED
    BY <2>1, <2>2
<1> QED
  BY <1>1, <1>3, <1>4 DEF AtItsStep, Exec

\* The end of a request.
LEMMA FinishTypes ==
  ASSUME TypeOK, NEW w \in Workers, Finish(w)
  PROVE  /\ pc' \in [Workers -> Labels]
         /\ call' \in [Workers -> Requests \cup {NoCall}]
         /\ seen' \in [Workers -> Statuses \cup {Absent}]
         /\ parent' \in [Workers -> Nat]
         /\ AtItsStep(w)'
         /\ \A v \in Workers \ {w} :
              pc'[v] = pc[v] /\ call'[v] = call[v] /\ parent'[v] = parent[v]
<1>1. pc'[w] = "idle" /\ call'[w] = NoCall
  BY DEF Finish, TypeOK
<1> QED
  BY <1>1 DEF Finish, TypeOK, Labels, AtItsStep, OperationsAt, NoCall

\* A new request.
LEMMA AcceptTypes ==
  ASSUME TypeOK, NEW w \in Workers, NEW request \in Requests, NEW label \in Labels,
         Accept(w, request, label), UNCHANGED parent
  PROVE  /\ pc' = [pc EXCEPT ![w] = label]
         /\ call' = [call EXCEPT ![w] = request]
         /\ pc'[w] = label /\ call'[w] = request
         /\ pc' \in [Workers -> Labels]
         /\ call' \in [Workers -> Requests \cup {NoCall}]
         /\ seen' \in [Workers -> Statuses \cup {Absent}]
         /\ calls' \in 0..MaxCalls
         /\ \A v \in Workers \ {w} :
              pc'[v] = pc[v] /\ call'[v] = call[v] /\ parent'[v] = parent[v]
<1>1. request.exec \in Executions
  BY DEF Requests
<1>2. calls' \in 0..MaxCalls
  BY MaxCallsAssumption DEF Accept, TypeOK
<1> QED
  BY <1>1, <1>2 DEF Accept, Goto, TypeOK

-----------------------------------------------------------------------------
(* Events *)

\* Appending an event with an earlier parent keeps the histories well formed.
LEMMA RecordTypes ==
  ASSUME TypeOK, NEW e \in Executions, NEW type \in EXECUTION_EVENT_TYPES, NEW n \in Nat,
         n <= Len(events[e]), NEW about \in Approvals \cup {"none"},
         Record(e, type, n, about)
  PROVE  /\ events' \in [Executions -> Seq(EventRecords)]
         /\ GraphBuildable'
         /\ Len(events'[e]) = Len(events[e]) + 1
         /\ \A x \in Executions : Len(events'[x]) \in Nat /\ Len(events'[x]) >= Len(events[x])
<1> DEFINE event == Event(type, ParentSet(n), about)
<1>1. events[e] \in Seq(EventRecords) /\ Len(events[e]) \in Nat
  BY LenProperties DEF TypeOK
<1>2. event \in EventRecords /\ event.parents = ParentSet(n)
  BY DEF Event, EventRecords, ParentSet
<1>3. events' = [events EXCEPT ![e] = Append(events[e], event)]
  BY DEF Record, TypeOK
<1> HIDE DEF event
<1>4. /\ Append(events[e], event) \in Seq(EventRecords)
      /\ Len(Append(events[e], event)) = Len(events[e]) + 1
      /\ \A i \in 1..Len(events[e]) : Append(events[e], event)[i] = events[e][i]
      /\ Append(events[e], event)[Len(events[e]) + 1] = event
  BY <1>1, <1>2, AppendProperties
<1>5. events' \in [Executions -> Seq(EventRecords)] /\ events'[e] = Append(events[e], event)
      /\ \A x \in Executions \ {e} : events'[x] = events[x]
  BY <1>3, <1>4 DEF TypeOK
<1>6. \A x \in Executions : Len(events'[x]) \in Nat /\ Len(events'[x]) >= Len(events[x])
  <2> SUFFICES ASSUME NEW x \in Executions
               PROVE  Len(events'[x]) \in Nat /\ Len(events'[x]) >= Len(events[x])
    OBVIOUS
  <2>1. Len(events[x]) \in Nat
    BY LenProperties DEF TypeOK
  <2> QED
    BY <1>1, <1>4, <1>5, <2>1
<1>7. ASSUME NEW x \in Executions, NEW i \in DOMAIN events'[x]
      PROVE  events'[x][i].parents \subseteq 1..(i - 1)
  <2>1. CASE x # e
    BY <1>5, <2>1 DEF TypeOK, GraphBuildable
  <2>2. CASE x = e
    <3>1. i \in 1..(Len(events[e]) + 1)
      BY <1>4, <1>5, <2>2, LenProperties
    <3>2. CASE i \in 1..Len(events[e])
      <4>1. i \in DOMAIN events[e] /\ events'[e][i] = events[e][i]
        BY <1>1, <1>4, <1>5, <3>2, LenProperties
      <4> QED
        BY <2>2, <4>1 DEF TypeOK, GraphBuildable
    <3>3. CASE i = Len(events[e]) + 1
      <4>1. events'[e][i] = event
        BY <1>4, <1>5, <3>3
      <4> QED
        BY <1>1, <1>2, <2>2, <3>3, <4>1 DEF ParentSet
    <3> QED
      BY <1>1, <3>1, <3>2, <3>3
  <2> QED
    BY <2>1, <2>2
<1> QED
  BY <1>4, <1>5, <1>6, <1>7 DEF GraphBuildable

\* A tuple is a sequence of its elements.
LEMMA TupleTypes ==
  ASSUME NEW S, NEW a \in S, NEW b \in S, NEW c \in S, NEW d \in S
  PROVE  <<a, b, c, d>> \in Seq(S) /\ \A e \in S : <<a, b, c, d, e>> \in Seq(S)
OBVIOUS

LEMMA SealType == "audit.checkpoint.sealed" \in EXECUTION_EVENT_TYPES
BY DEF EXECUTION_EVENT_TYPES

LEMMA PreludeTypes ==
  ASSUME NEW outcome \in Outcomes
  PROVE  Append(Prelude(outcome), "audit.checkpoint.sealed") \in Seq(EXECUTION_EVENT_TYPES)
<1>1. CASE outcome = "completed"
  <2>1. <<"validation.started", "validation.passed", "execution.completed",
          "release.started", "release.completed">> \in Seq(EXECUTION_EVENT_TYPES)
    BY TupleTypes DEF EXECUTION_EVENT_TYPES
  <2> QED
    BY <1>1, <2>1, SealType, AppendProperties DEF Prelude
<1>2. CASE outcome = "blocked"
  <2>1. <<"validation.started", "validation.failed", "execution.blocked", "release.blocked">>
          \in Seq(EXECUTION_EVENT_TYPES)
    BY TupleTypes DEF EXECUTION_EVENT_TYPES
  <2> QED
    BY <1>2, <2>1, SealType, AppendProperties DEF Prelude
<1>3. CASE outcome = "failed"
  <2>1. <<"validation.started", "validation.failed", "execution.failed", "release.blocked">>
          \in Seq(EXECUTION_EVENT_TYPES)
    BY TupleTypes DEF EXECUTION_EVENT_TYPES
  <2> QED
    BY <1>3, <2>1, SealType, AppendProperties DEF Prelude
<1> QED
  BY <1>1, <1>2, <1>3 DEF Outcomes

\* Events appended as a chain, each the child of the one before it, the first
\* of an earlier event.
LEMMA ChainedTypes ==
  ASSUME NEW es \in Seq(EventRecords), NEW chain \in Seq(EXECUTION_EVENT_TYPES),
         NEW n \in Nat, n <= Len(es),
         \A i \in DOMAIN es : es[i].parents \subseteq 1..(i - 1)
  PROVE  LET sealed == Chained(es, chain, n)
         IN  /\ sealed \in Seq(EventRecords)
             /\ Len(sealed) \in Nat /\ Len(sealed) >= Len(es)
             /\ \A i \in DOMAIN sealed : sealed[i].parents \subseteq 1..(i - 1)
             /\ Len(sealed) = Len(es) + Len(chain)
             /\ \A i \in 1..Len(es) : sealed[i] = es[i]
             /\ \A i \in 1..Len(chain) : sealed[Len(es) + i].type = chain[i]
<1> DEFINE sealed == Chained(es, chain, n)
           k == Len(chain)
           ev(i) == Event(chain[i], IF i = 1 THEN ParentSet(n) ELSE {Len(es) + i - 1}, "none")
           added == [i \in DOMAIN chain |-> ev(i)]
<1>1. Len(es) \in Nat /\ DOMAIN es = 1..Len(es)
  BY LenProperties
<1>2. k \in Nat /\ DOMAIN chain = 1..k /\ \A i \in 1..k : chain[i] \in EXECUTION_EVENT_TYPES
  BY LenProperties
<1> HIDE DEF k
<1>3. \A i \in 1..k : ev(i) \in EventRecords
  BY <1>1, <1>2 DEF EventRecords, Event, ParentSet
<1>4. \A i \in 1..k : ev(i).parents \subseteq 1..(Len(es) + i - 1) /\ ev(i).type = chain[i]
  BY <1>1, <1>2 DEF Event, ParentSet
<1> HIDE DEF ev
<1>5. /\ added \in [1..k -> EventRecords]
      /\ \A i \in 1..k : /\ added[i].parents \subseteq 1..(Len(es) + i - 1)
                          /\ added[i].type = chain[i]
  BY <1>2, <1>3, <1>4
<1>6. sealed = es \o added
  BY DEF ev, Chained
<1> HIDE DEF added, sealed
<1>7. added \in Seq(EventRecords) /\ Len(added) = k
  <2>1. added \in Seq(EventRecords)
    BY <1>2, <1>5, SeqDef
  <2>2. DOMAIN added = 1..k
    BY <1>5
  <2> QED
    BY <1>2, <2>1, <2>2, LenProperties
<1>8. /\ sealed \in Seq(EventRecords)
      /\ Len(sealed) = Len(es) + k
      /\ \A i \in 1..(Len(es) + k) :
           sealed[i] = IF i <= Len(es) THEN es[i] ELSE added[i - Len(es)]
  <2>1. /\ es \o added \in Seq(EventRecords)
        /\ Len(es \o added) = Len(es) + Len(added)
        /\ \A i \in 1..(Len(es) + Len(added)) :
             (es \o added)[i] = IF i <= Len(es) THEN es[i] ELSE added[i - Len(es)]
    BY <1>7, ConcatProperties
  <2> QED
    BY <1>6, <1>7, <2>1
<1>9. DOMAIN sealed = 1..(Len(es) + k)
  BY <1>8, LenProperties
<1>10. ASSUME NEW i \in 1..(Len(es) + k)
       PROVE  sealed[i].parents \subseteq 1..(i - 1)
  <2>1. CASE i <= Len(es)
    BY <1>1, <1>8, <2>1
  <2>2. CASE ~(i <= Len(es))
    <3>1. i - Len(es) \in 1..k /\ Len(es) + (i - Len(es)) - 1 = i - 1
      BY <1>1, <1>2, <2>2
    <3>2. added[i - Len(es)].parents \subseteq 1..(i - 1)
      BY <1>5, <3>1
    <3> QED
      BY <1>8, <2>2, <3>2
  <2> QED
    BY <2>1, <2>2
<1>11. \A i \in 1..Len(es) : sealed[i] = es[i]
  BY <1>1, <1>2, <1>8
<1>12. \A i \in 1..k : sealed[Len(es) + i].type = chain[i]
  <2> SUFFICES ASSUME NEW i \in 1..k PROVE sealed[Len(es) + i].type = chain[i]
    OBVIOUS
  <2> DEFINE j == Len(es) + i
  <2>1. j \in 1..(Len(es) + k) /\ ~(j <= Len(es)) /\ j - Len(es) = i
    BY <1>1, <1>2
  <2> HIDE DEF j
  <2>2. sealed[j] = added[i]
    BY <1>8, <2>1
  <2> QED
    BY <1>5, <2>2 DEF j
<1>13. Len(sealed) \in Nat /\ Len(sealed) >= Len(es)
  BY <1>1, <1>2, <1>8
<1> QED
  BY <1>8, <1>9, <1>10, <1>11, <1>12, <1>13 DEF k, sealed
-----------------------------------------------------------------------------
(* The invariant *)

\* Rows that a step leaves alone.
LEMMA KeptRows ==
  ASSUME TypeOK
  PROVE  /\ UNCHANGED events =>
              /\ events' \in [Executions -> Seq(EventRecords)]
              /\ GraphBuildable'
              /\ \A e \in Executions : Len(events'[e]) \in Nat /\ Len(events'[e]) >= Len(events[e])
         /\ UNCHANGED approvals =>
              /\ approvals' \in [Approvals -> ApprovalRows \cup {NoApproval}]
              /\ \A a \in Approvals : approvals[a] # NoApproval =>
                   /\ approvals'[a] # NoApproval
                   /\ approvals'[a].exec = approvals[a].exec
                   /\ approvals'[a].requester = approvals[a].requester
<1>1. \A e \in Executions : Len(events[e]) \in Nat
  BY LenProperties DEF TypeOK
<1> QED
  BY <1>1 DEF TypeOK, GraphBuildable

\* The whole of TypeOK after a step of w, from what the step does to the rows
\* and to w.
LEMMA Assemble ==
  ASSUME TypeOK, NEW w \in Workers,
         status' \in [Executions -> Statuses \cup {Absent}],
         events' \in [Executions -> Seq(EventRecords)],
         GraphBuildable',
         \A e \in Executions : Len(events'[e]) \in Nat /\ Len(events'[e]) >= Len(events[e]),
         ledger' \in [Executions -> Seq([type : EntryTypes, graph : Graphs])],
         approvals' \in [Approvals -> ApprovalRows \cup {NoApproval}],
         \A a \in Approvals : approvals[a] # NoApproval =>
           /\ approvals'[a] # NoApproval
           /\ approvals'[a].exec = approvals[a].exec
           /\ approvals'[a].requester = approvals[a].requester,
         pc' \in [Workers -> Labels],
         call' \in [Workers -> Requests \cup {NoCall}],
         seen' \in [Workers -> Statuses \cup {Absent}],
         parent' \in [Workers -> Nat],
         AtItsStep(w)',
         \A v \in Workers \ {w} :
           pc'[v] = pc[v] /\ call'[v] = call[v] /\ parent'[v] = parent[v],
         calls' \in 0..MaxCalls,
         cut' \subseteq Approvals
  PROVE  TypeOK'
<1>1. ASSUME NEW v \in Workers PROVE AtItsStep(v)'
  BY OtherRequest
<1> QED
  BY <1>1 DEF TypeOK

\* An entry appended to a ledger.
LEMMA AppendTypes ==
  ASSUME TypeOK, NEW e \in Executions, NEW type \in EntryTypes, NEW graph \in Graphs,
         AppendLedger(e, type, graph)
  PROVE  /\ ledger' \in [Executions -> Seq([type : EntryTypes, graph : Graphs])]
         /\ ledger'[e] = Append(ledger[e], LedgerEntry(type, graph))
         /\ \A x \in Executions \ {e} : ledger'[x] = ledger[x]
<1> DEFINE Entries == [type : EntryTypes, graph : Graphs]
<1>1. LedgerEntry(type, graph) \in Entries /\ ledger[e] \in Seq(Entries)
  BY DEF LedgerEntry, TypeOK
<1> HIDE DEF Entries
<1>2. Append(ledger[e], LedgerEntry(type, graph)) \in Seq(Entries)
  BY <1>1, AppendProperties
<1> QED
  BY <1>2 DEF AppendLedger, TypeOK, Entries

LEMMA NoGraphType == NoGraph \in Graphs
<1>1. <<>> \in Seq(EventRecords)
  BY EmptySeq
<1> QED
  BY <1>1 DEF NoGraph, Graphs

LEMMA InitTypes == Init => TypeOK
<1> SUFFICES ASSUME Init PROVE TypeOK
  OBVIOUS
<1>1. <<>> \in Seq(EventRecords) /\ <<>> \in Seq([type : EntryTypes, graph : Graphs])
  BY EmptySeq
<1>2. GraphBuildable
  BY DEF Init, GraphBuildable
<1>3. \A w \in Workers : AtItsStep(w)
  BY DEF Init, AtItsStep, OperationsAt, NoCall
<1> QED
  BY <1>1, <1>2, <1>3, MaxCallsAssumption DEF Init, TypeOK, Labels

\* A request begins, at a step of its operation.
Starts(w, request, label) ==
  /\ Accept(w, request, label)
  /\ request.op \in OperationsAt(label)
  /\ label # "idle"
  /\ request.op \in {"decide", "decide_only"} =>
       /\ approvals[request.approval] # NoApproval
       /\ approvals[request.approval].exec = request.exec
       /\ approvals[request.approval].requester # request.user

LEMMA BeginStep ==
  ASSUME TypeOK, NEW w \in Workers, Begin(w)
  PROVE  TypeOK'
<1> DEFINE Others == \A v \in Workers \ {w} :
             pc'[v] = pc[v] /\ call'[v] = call[v] /\ parent'[v] = parent[v]
<1>1. pc[w] = "idle" /\ parent[w] = 0
  <2>1. pc[w] = "idle"
    BY DEF Begin, OpenExecution, BeginWork, BeginRequest, BeginDecide, BeginFinalize, Accept
  <2> QED
    BY <2>1 DEF TypeOK, AtItsStep
<1>2. UNCHANGED <<events, ledger, approvals, parent, cut>>
  BY DEF Begin, OpenExecution, BeginWork, BeginRequest, BeginDecide, BeginFinalize, dbVars
<1>3. status' \in [Executions -> Statuses \cup {Absent}]
  BY DEF Begin, OpenExecution, BeginWork, BeginRequest, BeginDecide, BeginFinalize, dbVars,
         TypeOK, Statuses
<1>4. \E request \in Requests, label \in Labels : Starts(w, request, label)
  <2>1. ASSUME NEW e \in Executions, OpenExecution(w, e)
        PROVE  \E request \in Requests, label \in Labels : Starts(w, request, label)
    <3> DEFINE r == [op |-> "open", exec |-> e]
    <3>1. r \in Requests /\ r.op = "open" /\ "created" \in Labels
      BY DEF Requests, Labels
    <3>2. Accept(w, r, "created")
      BY <2>1 DEF OpenExecution
    <3> HIDE DEF r
    <3> QED
      BY <3>1, <3>2 DEF OperationsAt, Starts
  <2>2. ASSUME NEW e \in Executions, NEW op \in WorkOperations, BeginWork(w, e, op)
        PROVE  \E request \in Requests, label \in Labels : Starts(w, request, label)
    <3> DEFINE r == [op |-> op, exec |-> e, last |-> "start"]
    <3>1. r \in Requests /\ r.op \in WorkOperations /\ "read_parent" \in Labels
      BY DEF Requests, Labels
    <3>2. Accept(w, r, "read_parent")
      BY <2>2 DEF BeginWork
    <3> HIDE DEF r
    <3> QED
      BY <3>1, <3>2 DEF OperationsAt, WorkOperations, Starts
  <2>3. ASSUME NEW e \in Executions, NEW u \in Users, BeginRequest(w, e, u)
        PROVE  \E request \in Requests, label \in Labels : Starts(w, request, label)
    <3> DEFINE r == [op |-> "request_approval", exec |-> e, user |-> u]
    <3>1. r \in Requests /\ r.op = "request_approval" /\ "read_parent" \in Labels
      BY DEF Requests, Labels
    <3>2. Accept(w, r, "read_parent")
      BY <2>3 DEF BeginRequest
    <3> HIDE DEF r
    <3> QED
      BY <3>1, <3>2 DEF OperationsAt, Starts
  <2>4. ASSUME NEW a \in Approvals, NEW u \in Users, NEW allow \in BOOLEAN,
               NEW op \in Operations, BeginDecide(w, a, u, allow, op)
        PROVE  \E request \in Requests, label \in Labels : Starts(w, request, label)
    <3> DEFINE r == [op |-> op, exec |-> approvals[a].exec, approval |-> a, user |-> u,
                     allow |-> allow]
    <3>1. approvals[a] \in ApprovalRows /\ u \in Approvers /\ approvals[a].requester # u
          /\ op \in {"decide", "decide_only"} /\ approvals[a] # NoApproval
      BY <2>4 DEF BeginDecide, MayDecide, TypeOK
    <3>2. approvals[a].exec \in Executions
      BY <3>1 DEF ApprovalRows
    <3>3. r \in Requests /\ r.op = op /\ r.approval = a /\ r.exec = approvals[a].exec
          /\ r.user = u /\ "decide" \in Labels
      BY <3>1, <3>2 DEF Requests, Labels
    <3>4. Accept(w, r, "decide")
      BY <2>4 DEF BeginDecide
    <3> HIDE DEF r
    <3> QED
      BY <3>1, <3>3, <3>4 DEF OperationsAt, Starts
  <2>5. ASSUME NEW e \in Executions, NEW outcome \in Outcomes, BeginFinalize(w, e, outcome)
        PROVE  \E request \in Requests, label \in Labels : Starts(w, request, label)
    <3> DEFINE r == [op |-> "finalize", exec |-> e, outcome |-> outcome]
    <3>1. r \in Requests /\ r.op = "finalize" /\ "read_parent" \in Labels
      BY DEF Requests, Labels
    <3>2. Accept(w, r, "read_parent")
      BY <2>5 DEF BeginFinalize
    <3> HIDE DEF r
    <3> QED
      BY <3>1, <3>2 DEF OperationsAt, Starts
  <2> QED
    BY <2>1, <2>2, <2>3, <2>4, <2>5 DEF Begin
<1> PICK request \in Requests, label \in Labels : Starts(w, request, label)
  BY <1>4
<1>5. /\ pc'[w] = label /\ call'[w] = request
      /\ pc' \in [Workers -> Labels]
      /\ call' \in [Workers -> Requests \cup {NoCall}]
      /\ seen' \in [Workers -> Statuses \cup {Absent}]
      /\ calls' \in 0..MaxCalls
      /\ Others
  BY <1>2, AcceptTypes DEF Starts
<1>6. AtItsStep(w)'
  <2>1. request.exec \in Executions
    BY DEF Requests
  <2>2. Len(events[request.exec]) \in Nat
    BY <2>1, LenProperties DEF TypeOK
  <2>3. parent'[w] <= Len(events'[request.exec])
    BY <1>1, <1>2, <2>2
  <2> QED
    BY <1>2, <1>5, <2>3 DEF AtItsStep, Exec, Starts
<1>7. /\ events' \in [Executions -> Seq(EventRecords)]
      /\ GraphBuildable'
      /\ \A e \in Executions : Len(events'[e]) \in Nat /\ Len(events'[e]) >= Len(events[e])
      /\ approvals' \in [Approvals -> ApprovalRows \cup {NoApproval}]
      /\ \A a \in Approvals : approvals[a] # NoApproval =>
           /\ approvals'[a] # NoApproval
           /\ approvals'[a].exec = approvals[a].exec
           /\ approvals'[a].requester = approvals[a].requester
  BY <1>2, KeptRows
<1>8. /\ ledger' \in [Executions -> Seq([type : EntryTypes, graph : Graphs])]
      /\ parent' \in [Workers -> Nat]
      /\ cut' \subseteq Approvals
  BY <1>2 DEF TypeOK
<1> QED
  BY <1>3, <1>5, <1>6, <1>7, <1>8, Assemble
LEMMA CallNames ==
  ASSUME NEW op, NEW last, NEW type \in Following(op, last), op \in WorkOperations
  PROVE  type \in EXECUTION_EVENT_TYPES
<1>1. CASE op = "skill"
  BY <1>1 DEF Following, SkillFollows, EXECUTION_EVENT_TYPES
<1>2. CASE op = "retrieve"
  BY <1>2 DEF Following, RetrieveFollows, EXECUTION_EVENT_TYPES
<1>3. CASE op = "model"
  BY <1>3 DEF Following, AuthorizeModelFollows, ExecuteModelFollows, EXECUTION_EVENT_TYPES
<1> QED
  BY <1>1, <1>2, <1>3 DEF WorkOperations

\* The operation of a request at one of the steps.
LEMMA StepCall ==
  ASSUME TypeOK, NEW w \in Workers
  PROVE  /\ pc[w] \in {"created", "authenticated", "request_opened"} => call[w].op = "open"
         /\ pc[w] = "work" => call[w].op \in WorkOperations
         /\ pc[w] = "request" => call[w].op = "request_approval"
         /\ pc[w] = "decide" => call[w].op \in {"decide", "decide_only"}
         /\ pc[w] \in {"record_decision", "resume_check", "resume_write"} =>
              call[w].op = "decide"
         /\ pc[w] = "seal" => call[w].op = "finalize"
         /\ pc[w] = "read_parent" =>
              call[w].op \in WorkOperations \cup {"request_approval", "decide", "finalize"}
         /\ pc[w] # "idle" => parent[w] \in Nat /\ parent[w] <= Len(events[Exec(w)])
BY DEF TypeOK, AtItsStep, OperationsAt

\* A step that moves w on within its request, keeping the call.
LEMMA MoveTypes ==
  ASSUME TypeOK, NEW w \in Workers, NEW label \in Labels \ {"idle"}, pc[w] # "idle",
         Goto(w, label), UNCHANGED <<call, seen>>,
         call[w].op \in OperationsAt(label),
         NEW n \in Nat, parent' = [parent EXCEPT ![w] = n],
         n <= Len(events'[Exec(w)]),
         \A a \in Approvals : approvals[a] # NoApproval =>
           /\ approvals'[a] # NoApproval
           /\ approvals'[a].exec = approvals[a].exec
           /\ approvals'[a].requester = approvals[a].requester
  PROVE  /\ pc' \in [Workers -> Labels]
         /\ call' \in [Workers -> Requests \cup {NoCall}]
         /\ seen' \in [Workers -> Statuses \cup {Absent}]
         /\ parent' \in [Workers -> Nat]
         /\ AtItsStep(w)'
         /\ \A v \in Workers \ {w} :
              pc'[v] = pc[v] /\ call'[v] = call[v] /\ parent'[v] = parent[v]
<1>1. pc'[w] = label /\ parent'[w] = n
  BY DEF Goto, TypeOK
<1>2. call[w].op \in {"decide", "decide_only"} => call[w].approval \in Approvals
  BY BusyCall
<1>3. AtItsStep(w)
  BY DEF TypeOK
<1>4. AtItsStep(w)'
  BY <1>1, <1>2, <1>3 DEF AtItsStep, Exec
<1> QED
  BY <1>4 DEF Goto, TypeOK

LEMMA OpenSteps ==
  ASSUME TypeOK, NEW w \in Workers,
         RecordCreated(w) \/ RecordAuthenticated(w) \/ AppendRequestOpened(w)
  PROVE  TypeOK'
<1>1. pc[w] # "idle"
  BY DEF RecordCreated, RecordAuthenticated, AppendRequestOpened
<1> PICK e \in Executions : e = Exec(w)
  BY <1>1, BusyCall
<1>2. Len(events[e]) \in Nat /\ parent[w] \in Nat /\ parent[w] <= Len(events[e])
  BY <1>1, StepCall, LenProperties DEF TypeOK
<1>3. CASE RecordCreated(w)
  <2>1. /\ events' \in [Executions -> Seq(EventRecords)]
        /\ GraphBuildable'
        /\ Len(events'[e]) = Len(events[e]) + 1
        /\ \A x \in Executions : Len(events'[x]) \in Nat /\ Len(events'[x]) >= Len(events[x])
    <3>1. "execution.created" \in EXECUTION_EVENT_TYPES
      BY DEF EXECUTION_EVENT_TYPES
    <3> QED
      BY <1>2, <1>3, <3>1, RecordTypes DEF RecordCreated
  <2>2. call[w].op \in OperationsAt("authenticated") /\ "authenticated" \in Labels \ {"idle"}
    BY <1>3, StepCall DEF RecordCreated, OperationsAt, Labels
  <2>3. Len(events[e]) + 1 \in Nat /\ Len(events[e]) + 1 <= Len(events'[e])
    BY <1>2, <2>1
  <2> QED
    BY <1>1, <1>3, <2>1, <2>2, <2>3, MoveTypes, KeptRows, Assemble DEF RecordCreated, TypeOK
<1>4. CASE RecordAuthenticated(w)
  <2>1. /\ events' \in [Executions -> Seq(EventRecords)]
        /\ GraphBuildable'
        /\ Len(events'[e]) = Len(events[e]) + 1
        /\ \A x \in Executions : Len(events'[x]) \in Nat /\ Len(events'[x]) >= Len(events[x])
    <3>1. "identity.authenticated" \in EXECUTION_EVENT_TYPES
      BY DEF EXECUTION_EVENT_TYPES
    <3> QED
      BY <1>2, <1>4, <3>1, RecordTypes DEF RecordAuthenticated
  <2>2. call[w].op \in OperationsAt("request_opened") /\ "request_opened" \in Labels \ {"idle"}
    BY <1>4, StepCall DEF RecordAuthenticated, OperationsAt, Labels
  <2>3. parent[w] <= Len(events'[e]) /\ parent' = [parent EXCEPT ![w] = parent[w]]
    BY <1>2, <1>4, <2>1 DEF RecordAuthenticated, TypeOK
  <2> QED
    BY <1>1, <1>2, <1>4, <2>1, <2>2, <2>3, MoveTypes, KeptRows, Assemble
    DEF RecordAuthenticated, TypeOK
<1>5. CASE AppendRequestOpened(w)
  <2>1. "request_opened" \in EntryTypes /\ "running" \in Statuses
    BY DEF EntryTypes, Statuses
  <2>2. ledger' \in [Executions -> Seq([type : EntryTypes, graph : Graphs])]
    BY <1>5, <2>1, NoGraphType, AppendTypes DEF AppendRequestOpened
  <2>3. status' \in [Executions -> Statuses \cup {Absent}]
    BY <1>5, <2>1 DEF AppendRequestOpened, TypeOK
  <2> QED
    BY <1>5, <2>2, <2>3, FinishTypes, KeptRows, Assemble DEF AppendRequestOpened, TypeOK
<1> QED
  BY <1>3, <1>4, <1>5

LEMMA WorkSteps ==
  ASSUME TypeOK, NEW w \in Workers, ReadParent(w) \/ RecordWork(w)
  PROVE  TypeOK'
<1>1. pc[w] # "idle"
  BY DEF ReadParent, RecordWork
<1> PICK e \in Executions : e = Exec(w)
  BY <1>1, BusyCall
<1>2. Len(events[e]) \in Nat /\ parent[w] \in Nat /\ parent[w] <= Len(events[e])
  BY <1>1, StepCall, LenProperties DEF TypeOK
<1>3. CASE ReadParent(w)
  <2> DEFINE label == CASE call[w].op \in WorkOperations      -> "work"
                        [] call[w].op = "request_approval"    -> "request"
                        [] call[w].op = "decide"              -> "record_decision"
                        [] call[w].op = "finalize"            -> "seal"
  <2>1. label \in Labels \ {"idle"} /\ call[w].op \in OperationsAt(label)
    BY <1>3, StepCall DEF ReadParent, OperationsAt, Labels, WorkOperations
  <2>2. Goto(w, label) /\ parent' = [parent EXCEPT ![w] = Len(events[e])]
        /\ UNCHANGED <<dbVars, call, seen, calls, cut>>
    BY <1>3 DEF ReadParent
  <2> HIDE DEF label
  <2>3. Len(events[e]) <= Len(events'[e])
    BY <1>2, <2>2 DEF dbVars
  <2> QED
    BY <1>1, <1>2, <2>1, <2>2, <2>3, MoveTypes, KeptRows, Assemble DEF dbVars, TypeOK
<1>4. CASE RecordWork(w)
  <2>1. call[w].op \in WorkOperations /\ call[w] \in Requests
        /\ call[w] \in [op : WorkOperations, exec : Executions,
                        last : EXECUTION_EVENT_TYPES \cup {"start"}]
    BY <1>1, <1>4, StepCall, BusyCall DEF RecordWork
  <2> PICK type \in Following(call[w].op, call[w].last) :
        /\ Record(e, type, parent[w], "none")
        /\ IF Following(call[w].op, type) = {}
             THEN Finish(w)
             ELSE /\ call' = [call EXCEPT ![w].last = type]
                  /\ parent' = [parent EXCEPT ![w] = Len(events[e]) + 1]
                  /\ UNCHANGED <<pc, seen>>
    BY <1>4 DEF RecordWork
  <2>2. type \in EXECUTION_EVENT_TYPES
    BY <2>1, CallNames
  <2>3. /\ events' \in [Executions -> Seq(EventRecords)]
        /\ GraphBuildable'
        /\ Len(events'[e]) = Len(events[e]) + 1
        /\ \A x \in Executions : Len(events'[x]) \in Nat /\ Len(events'[x]) >= Len(events[x])
    BY <1>2, <2>2, RecordTypes
  <2>4. CASE Finish(w)
    BY <1>4, <2>3, <2>4, FinishTypes, KeptRows, Assemble DEF RecordWork, TypeOK
  <2>5. CASE /\ call' = [call EXCEPT ![w].last = type]
             /\ parent' = [parent EXCEPT ![w] = Len(events[e]) + 1]
             /\ UNCHANGED <<pc, seen>>
    <3>1. call'[w] = [call[w] EXCEPT !.last = type]
      BY <2>5 DEF TypeOK
    <3>2. /\ call'[w] \in [op : WorkOperations, exec : Executions,
                           last : EXECUTION_EVENT_TYPES \cup {"start"}]
          /\ call'[w].op = call[w].op /\ call'[w].exec = call[w].exec
      BY <2>1, <2>2, <3>1
    <3>3. call'[w] \in Requests
      BY <3>2 DEF Requests
    <3>4. call' \in [Workers -> Requests \cup {NoCall}]
      BY <2>5, <3>1, <3>3 DEF TypeOK
    <3>5. parent' \in [Workers -> Nat] /\ parent'[w] = Len(events'[e])
      BY <1>2, <2>3, <2>5 DEF TypeOK
    <3>6. AtItsStep(w)
      BY DEF TypeOK
    <3>7. AtItsStep(w)'
      <4>1. call'[w].op \in OperationsAt(pc'[w]) /\ pc'[w] # "idle"
        BY <1>1, <2>5, <3>2, <3>6 DEF AtItsStep
      <4>2. call'[w].op \notin {"decide", "decide_only"}
        BY <2>1, <3>2 DEF WorkOperations
      <4>3. parent'[w] <= Len(events'[e]) /\ Exec(w)' = e
        BY <1>2, <2>3, <3>2, <3>5 DEF Exec
      <4> QED
        BY <4>1, <4>2, <4>3 DEF AtItsStep
    <3>8. \A v \in Workers \ {w} :
            pc'[v] = pc[v] /\ call'[v] = call[v] /\ parent'[v] = parent[v]
      BY <2>5 DEF TypeOK
    <3> QED
      BY <1>4, <2>3, <2>5, <3>4, <3>5, <3>7, <3>8, KeptRows, Assemble DEF RecordWork, TypeOK
  <2> QED
    BY <2>4, <2>5
<1> QED
  BY <1>3, <1>4
LEMMA ApprovalSteps ==
  ASSUME TypeOK, NEW w \in Workers, CommitRequest(w) \/ DecideRow(w) \/ RecordDecision(w)
  PROVE  TypeOK'
<1>1. pc[w] # "idle"
  BY DEF CommitRequest, DecideRow, RecordDecision
<1> PICK e \in Executions : e = Exec(w)
  BY <1>1, BusyCall
<1>2. Len(events[e]) \in Nat /\ parent[w] \in Nat /\ parent[w] <= Len(events[e])
  BY <1>1, StepCall, LenProperties DEF TypeOK
<1>3. CASE CommitRequest(w)
  <2> PICK a \in Approvals :
        /\ approvals[a] = NoApproval
        /\ approvals' = [approvals EXCEPT ![a] =
             [status |-> "pending", exec |-> e, requester |-> call[w].user,
              decider |-> "none"]]
        /\ Record(e, "approval.requested", parent[w], a)
    BY <1>3 DEF CommitRequest
  <2>1. call[w].user \in Users
    BY <1>1, <1>3, StepCall, BusyCall DEF CommitRequest
  <2>2. /\ events' \in [Executions -> Seq(EventRecords)]
        /\ GraphBuildable'
        /\ \A x \in Executions : Len(events'[x]) \in Nat /\ Len(events'[x]) >= Len(events[x])
    <3>1. "approval.requested" \in EXECUTION_EVENT_TYPES
      BY DEF EXECUTION_EVENT_TYPES
    <3> QED
      BY <1>2, <3>1, RecordTypes
  <2>3. /\ approvals' \in [Approvals -> ApprovalRows \cup {NoApproval}]
        /\ \A b \in Approvals : approvals[b] # NoApproval => approvals'[b] = approvals[b]
    BY <2>1 DEF TypeOK, ApprovalRows
  <2>4. "approval_requested" \in EntryTypes /\ "waiting_approval" \in Statuses
    BY DEF EntryTypes, Statuses
  <2>5. ledger' \in [Executions -> Seq([type : EntryTypes, graph : Graphs])]
    BY <1>3, <2>4, NoGraphType, AppendTypes DEF CommitRequest
  <2>6. status' \in [Executions -> Statuses \cup {Absent}]
    BY <1>3, <2>4 DEF CommitRequest, TypeOK
  <2> QED
    BY <1>3, <2>2, <2>3, <2>5, <2>6, FinishTypes, Assemble DEF CommitRequest, TypeOK
<1>4. CASE DecideRow(w)
  <2> PICK a \in Approvals : a = call[w].approval
    BY <1>1, <1>4, StepCall, BusyCall DEF DecideRow
  <2>1. approvals[a] \in ApprovalRows
    BY <1>4 DEF DecideRow, Decidable, NoApproval, TypeOK
  <2>2. call[w].user \in Users /\ Verdict(call[w].allow) \in {"approved", "denied"}
    BY <1>1, <1>4, StepCall, BusyCall, ApproversAssumption DEF DecideRow, Verdict
  <2>3. approvals' = [approvals EXCEPT ![a] =
          [approvals[a] EXCEPT !.status = Verdict(call[w].allow), !.decider = call[w].user]]
    BY <1>4 DEF DecideRow, TypeOK
  <2>4. /\ approvals'[a] \in ApprovalRows
        /\ approvals'[a].exec = approvals[a].exec
        /\ approvals'[a].requester = approvals[a].requester
        /\ \A b \in Approvals \ {a} : approvals'[b] = approvals[b]
    BY <2>1, <2>2, <2>3 DEF ApprovalRows, TypeOK
  <2>5. NoApproval \notin ApprovalRows
    BY DEF NoApproval, ApprovalRows
  <2>6. /\ approvals' \in [Approvals -> ApprovalRows \cup {NoApproval}]
        /\ \A b \in Approvals : approvals[b] # NoApproval =>
             /\ approvals'[b] # NoApproval
             /\ approvals'[b].exec = approvals[b].exec
             /\ approvals'[b].requester = approvals[b].requester
    BY <2>3, <2>4, <2>5 DEF TypeOK
  <2>7. UNCHANGED <<status, events, ledger, calls, cut>>
    BY <1>4 DEF DecideRow
  <2>8. CASE Finish(w)
    BY <2>6, <2>7, <2>8, FinishTypes, KeptRows, Assemble DEF TypeOK
  <2>9. CASE Goto(w, "read_parent") /\ UNCHANGED <<call, seen, parent>>
             /\ call[w].op # "decide_only"
    <3>1. call[w].op \in OperationsAt("read_parent") /\ "read_parent" \in Labels \ {"idle"}
      BY <1>4, <2>9, StepCall DEF DecideRow, OperationsAt, Labels
    <3>2. parent' = [parent EXCEPT ![w] = parent[w]] /\ parent[w] <= Len(events'[e])
      BY <1>2, <2>7, <2>9 DEF TypeOK
    <3> QED
      BY <1>1, <1>2, <2>6, <2>7, <2>9, <3>1, <3>2, MoveTypes, KeptRows, Assemble DEF TypeOK
  <2> QED
    BY <1>4, <2>8, <2>9 DEF DecideRow
<1>5. CASE RecordDecision(w)
  <2> DEFINE type == IF call[w].allow THEN "approval.approved" ELSE "approval.rejected"
  <2>1. call[w].op = "decide" /\ call[w].approval \in Approvals
    BY <1>1, <1>5, StepCall, BusyCall DEF RecordDecision
  <2>2. type \in EXECUTION_EVENT_TYPES
    BY DEF EXECUTION_EVENT_TYPES
  <2>3. Record(e, type, parent[w], call[w].approval)
    BY <1>5 DEF RecordDecision
  <2> HIDE DEF type
  <2>4. /\ events' \in [Executions -> Seq(EventRecords)]
        /\ GraphBuildable'
        /\ \A x \in Executions : Len(events'[x]) \in Nat /\ Len(events'[x]) >= Len(events[x])
    BY <1>2, <2>1, <2>2, <2>3, RecordTypes
  <2>5. UNCHANGED <<status, ledger, approvals, calls, cut>>
    BY <1>5 DEF RecordDecision
  <2>6. CASE Finish(w)
    BY <2>4, <2>5, <2>6, FinishTypes, KeptRows, Assemble DEF TypeOK
  <2>7. CASE Goto(w, "resume_check") /\ UNCHANGED <<call, seen, parent>>
    <3>1. call[w].op \in OperationsAt("resume_check") /\ "resume_check" \in Labels \ {"idle"}
      BY <2>1 DEF OperationsAt, Labels
    <3>2. parent' = [parent EXCEPT ![w] = parent[w]]
      BY <2>7 DEF TypeOK
    <3>3. parent[w] <= Len(events'[e])
      BY <1>2, <2>4
    <3> QED
      BY <1>1, <1>2, <2>4, <2>5, <2>7, <3>1, <3>2, <3>3, MoveTypes, KeptRows, Assemble DEF TypeOK
  <2> QED
    BY <1>5, <2>6, <2>7 DEF RecordDecision
<1> QED
  BY <1>3, <1>4, <1>5

LEMMA ResumeSteps ==
  ASSUME TypeOK, NEW w \in Workers, CheckResume(w) \/ WriteResume(w)
  PROVE  TypeOK'
<1>1. pc[w] # "idle" /\ call[w].op = "decide"
  BY StepCall DEF CheckResume, WriteResume
<1> PICK e \in Executions : e = Exec(w)
  BY <1>1, BusyCall
<1>2. Len(events[e]) \in Nat /\ parent[w] \in Nat /\ parent[w] <= Len(events[e])
  BY <1>1, StepCall, LenProperties DEF TypeOK
<1>3. CASE CheckResume(w)
  <2>1. call[w].op \in OperationsAt("resume_write") /\ "resume_write" \in Labels \ {"idle"}
    BY <1>1 DEF OperationsAt, Labels
  <2>2. parent' = [parent EXCEPT ![w] = parent[w]] /\ parent[w] <= Len(events'[e])
    BY <1>2, <1>3 DEF CheckResume, dbVars, TypeOK
  <2> QED
    BY <1>1, <1>2, <1>3, <2>1, <2>2, MoveTypes, KeptRows, Assemble DEF CheckResume, dbVars, TypeOK
<1>4. CASE WriteResume(w)
  <2>1. status' \in [Executions -> Statuses \cup {Absent}]
    BY <1>4 DEF WriteResume, Statuses, TypeOK
  <2> QED
    BY <1>4, <2>1, FinishTypes, KeptRows, Assemble DEF WriteResume, TypeOK
<1> QED
  BY <1>3, <1>4

LEMMA SealStep ==
  ASSUME TypeOK, NEW w \in Workers, Seal(w)
  PROVE  TypeOK'
<1>1. pc[w] # "idle" /\ call[w].outcome \in Outcomes
  BY StepCall, BusyCall DEF Seal
<1> PICK e \in Executions : e = Exec(w)
  BY <1>1, BusyCall
<1> DEFINE sealed == SealedEvents(events[e], call[w].outcome, parent[w])
           type == IF call[w].outcome = "completed" THEN "final" ELSE "failure"
           graph == GraphOf(sealed, call[w].outcome)
<1>2. /\ Len(events[e]) \in Nat /\ parent[w] \in Nat /\ parent[w] <= Len(events[e])
      /\ events[e] \in Seq(EventRecords)
      /\ \A i \in DOMAIN events[e] : events[e][i].parents \subseteq 1..(i - 1)
  BY <1>1, StepCall, LenProperties DEF TypeOK, GraphBuildable
<1>3. /\ events' = [events EXCEPT ![e] = sealed]
      /\ AppendLedger(e, type, graph)
      /\ status' = [status EXCEPT ![e] = call[w].outcome]
      /\ Finish(w)
      /\ UNCHANGED <<approvals, calls, cut>>
  BY DEF Seal
<1>4. /\ sealed \in Seq(EventRecords)
      /\ Len(sealed) \in Nat /\ Len(sealed) >= Len(events[e])
      /\ \A i \in DOMAIN sealed : sealed[i].parents \subseteq 1..(i - 1)
  <2> DEFINE chain == Append(Prelude(call[w].outcome), "audit.checkpoint.sealed")
  <2>1. chain \in Seq(EXECUTION_EVENT_TYPES)
    BY <1>1, PreludeTypes
  <2>2. sealed = Chained(events[e], chain, parent[w])
    BY DEF SealedEvents
  <2> HIDE DEF chain, sealed
  <2> QED
    BY <1>2, <2>1, <2>2, ChainedTypes
<1> HIDE DEF sealed
<1>5. /\ events' \in [Executions -> Seq(EventRecords)]
      /\ GraphBuildable'
      /\ \A x \in Executions : Len(events'[x]) \in Nat /\ Len(events'[x]) >= Len(events[x])
  <2>1. events' \in [Executions -> Seq(EventRecords)] /\ events'[e] = sealed
        /\ \A x \in Executions \ {e} : events'[x] = events[x]
    BY <1>3, <1>4 DEF TypeOK
  <2>2. \A x \in Executions : Len(events[x]) \in Nat
    BY LenProperties DEF TypeOK
  <2>3. ASSUME NEW x \in Executions PROVE Len(events'[x]) \in Nat /\ Len(events'[x]) >= Len(events[x])
    <3>1. CASE x = e
      BY <1>4, <2>1, <3>1
    <3>2. CASE x # e
      BY <2>1, <2>2, <3>2
    <3> QED
      BY <3>1, <3>2
  <2>4. ASSUME NEW x \in Executions, NEW i \in DOMAIN events'[x]
        PROVE  events'[x][i].parents \subseteq 1..(i - 1)
    <3>1. CASE x = e
      BY <1>4, <2>1, <3>1
    <3>2. CASE x # e
      BY <2>1, <3>2 DEF TypeOK, GraphBuildable
    <3> QED
      BY <3>1, <3>2
  <2> QED
    BY <2>1, <2>3, <2>4 DEF GraphBuildable
<1>6. call[w].outcome \in Statuses
  BY <1>1 DEF Outcomes, Statuses, TerminalStatuses
<1>7. ledger' \in [Executions -> Seq([type : EntryTypes, graph : Graphs])]
  <2>1. type \in EntryTypes
    BY DEF EntryTypes
  <2>2. graph \in Graphs
    BY <1>4, <1>6 DEF GraphOf, Graphs
  <2> QED
    BY <1>3, <2>1, <2>2, AppendTypes
<1>8. status' \in [Executions -> Statuses \cup {Absent}]
  BY <1>3, <1>6 DEF TypeOK
<1> QED
  BY <1>3, <1>5, <1>7, <1>8, FinishTypes, KeptRows, Assemble DEF TypeOK

LEMMA EndSteps ==
  ASSUME TypeOK, NEW w \in Workers, Throw(w) \/ Die(w)
  PROVE  TypeOK'
<1>1. Finish(w) /\ UNCHANGED <<dbVars, calls>>
  BY DEF Throw, Die
<1>2. cut' \subseteq Approvals
  <2>1. CASE Throw(w)
    BY <2>1 DEF Throw, TypeOK
  <2>2. CASE Die(w)
    BY <2>2, BusyCall DEF Die, TypeOK
  <2> QED
    BY <2>1, <2>2
<1> QED
  BY <1>1, <1>2, FinishTypes, KeptRows, Assemble DEF dbVars, TypeOK

-----------------------------------------------------------------------------
(* Theorems *)

\* Rows, requests and graphs keep their types whatever requests interleave or
\* die: in particular buildExecutionGraphV2 never meets an unresolved parent,
\* and every event type is one that appendExecutionEventInTransaction takes.
THEOREM ExecutionTypes == Spec => []TypeOK
<1>1. TypeOK /\ [Next]_vars => TypeOK'
  <2> SUFFICES ASSUME TypeOK, [Next]_vars PROVE TypeOK'
    OBVIOUS
  <2>1. ASSUME NEW w \in Workers, Begin(w) PROVE TypeOK'
    BY <2>1, BeginStep
  <2>2. ASSUME NEW w \in Workers, Step(w) PROVE TypeOK'
    BY <2>2, OpenSteps, WorkSteps, ApprovalSteps, ResumeSteps, SealStep, EndSteps DEF Step
  <2>3. ASSUME NEW w \in Workers, Die(w) PROVE TypeOK'
    BY <2>3, EndSteps
  <2>4. CASE UNCHANGED vars
    BY <2>4 DEF vars, dbVars, workerVars, TypeOK, GraphBuildable, AtItsStep, Exec
  <2> QED
    BY <2>1, <2>2, <2>3, <2>4 DEF Next
<1> QED
  BY <1>1, InitTypes, PTL DEF Spec

\* A decision of an approval is taken once, by an approver who did not ask for
\* it, however many requests of either route read the row as pending.
THEOREM DecisionsAreFinal == Spec => DecisionIsFinal
<1> DEFINE Final == \A a \in Approvals :
             approvals'[a] # approvals[a] /\ approvals[a] # NoApproval =>
               /\ approvals[a].status = "pending"
               /\ approvals'[a].decider # approvals[a].requester
               /\ approvals'[a].requester = approvals[a].requester
<1>1. ASSUME TypeOK, [Next]_vars PROVE UNCHANGED approvals \/ Final
  <2>1. ASSUME NEW w \in Workers, Begin(w) PROVE UNCHANGED approvals
    BY <2>1 DEF Begin, OpenExecution, BeginWork, BeginRequest, BeginDecide, BeginFinalize, dbVars
  <2>2. ASSUME NEW w \in Workers, Step(w), ~CommitRequest(w), ~DecideRow(w)
        PROVE  UNCHANGED approvals
    BY <2>2 DEF Step, RecordCreated, RecordAuthenticated, AppendRequestOpened, ReadParent,
                RecordWork, RecordDecision, CheckResume, WriteResume, Seal, Throw, dbVars
  <2>3. ASSUME NEW w \in Workers, CommitRequest(w) PROVE Final
    BY <1>1, <2>3 DEF CommitRequest, TypeOK
  <2>4. ASSUME NEW w \in Workers, DecideRow(w) PROVE Final
    <3>1. pc[w] # "idle" /\ call[w].op \in {"decide", "decide_only"}
      BY <1>1, <2>4, StepCall DEF DecideRow
    <3> PICK a \in Approvals : a = call[w].approval
      BY <1>1, <3>1, BusyCall
    <3>2. approvals[a] \in ApprovalRows /\ approvals[a].status = "pending"
      BY <1>1, <2>4 DEF DecideRow, Decidable, NoApproval, TypeOK
    <3>3. approvals[a].requester # call[w].user
      BY <1>1, <3>1 DEF TypeOK, AtItsStep
    <3>4. approvals' = [approvals EXCEPT ![a] =
            [approvals[a] EXCEPT !.status = Verdict(call[w].allow), !.decider = call[w].user]]
      BY <1>1, <2>4 DEF DecideRow, TypeOK
    <3>5. approvals'[a].decider = call[w].user /\ approvals'[a].requester = approvals[a].requester
      BY <1>1, <3>2, <3>4 DEF ApprovalRows, TypeOK
    <3>6. \A b \in Approvals \ {a} : approvals'[b] = approvals[b]
      BY <1>1, <3>4 DEF TypeOK
    <3> QED
      BY <3>2, <3>3, <3>5, <3>6
  <2>5. ASSUME NEW w \in Workers, Die(w) PROVE UNCHANGED approvals
    BY <2>5 DEF Die, dbVars
  <2>6. CASE UNCHANGED vars
    BY <2>6 DEF vars, dbVars
  <2> QED
    BY <1>1, <2>1, <2>2, <2>3, <2>4, <2>5, <2>6 DEF Next
<1> QED
  BY <1>1, ExecutionTypes, PTL DEF Spec, DecisionIsFinal

\* setExecutionStatus asserts the transition again inside each transaction, so
\* a terminal status gives way to nothing but a resume under way.
THEOREM OnlyResumesRevive == Spec => OnlyResumeRevives
<1> DEFINE Revives == \A e \in Executions :
             status[e] \in TerminalStatuses /\ status'[e] # status[e] =>
               /\ status'[e] = "running"
               /\ \E w \in Workers : pc[w] = "resume_write" /\ Exec(w) = e
<1>0. ASSUME NEW from \in TerminalStatuses, NEW to, CanMove(from, to) PROVE from = to
  <2>1. Transitions["completed"] = {} /\ Transitions["failed"] = {}
        /\ Transitions["blocked"] = {} /\ Transitions["cancelled"] = {}
    BY DEF Transitions
  <2> QED
    BY <1>0, <2>1 DEF CanMove, TerminalStatuses
<1>1. ASSUME TypeOK, [Next]_vars PROVE UNCHANGED status \/ Revives
  <2>1. ASSUME NEW x \in Executions, NEW to, CanMove(status[x], to),
               status' = [status EXCEPT ![x] = to]
        PROVE  Revives
    <3> SUFFICES ASSUME NEW e \in Executions, status[e] \in TerminalStatuses,
                        status'[e] # status[e]
                 PROVE  FALSE
      OBVIOUS
    <3>1. e = x /\ status'[e] = to
      BY <1>1, <2>1 DEF TypeOK
    <3> QED
      BY <1>0, <2>1, <3>1
  <2>2. ASSUME NEW w \in Workers, Begin(w) PROVE UNCHANGED status \/ Revives
    <3>1. ASSUME NEW e \in Executions, OpenExecution(w, e) PROVE Revives
      <4>1. status[e] = Absent /\ status' = [status EXCEPT ![e] = "created"]
        BY <3>1 DEF OpenExecution
      <4>2. Absent \notin TerminalStatuses
        BY DEF Absent, TerminalStatuses
      <4> QED
        BY <1>1, <4>1, <4>2 DEF TypeOK
    <3>2. (\E e \in Executions : OpenExecution(w, e)) \/ UNCHANGED status
      BY <2>2 DEF Begin, BeginWork, BeginRequest, BeginDecide, BeginFinalize, dbVars
    <3> QED
      BY <3>1, <3>2
  <2>3. ASSUME NEW w \in Workers, WriteResume(w) PROVE Revives
    BY <1>1, <2>3 DEF WriteResume, TypeOK
  <2>4. ASSUME NEW w \in Workers, Step(w) PROVE UNCHANGED status \/ Revives
    <3>1. ASSUME pc[w] # "idle", NEW to, CanMove(status[Exec(w)], to),
                 status' = [status EXCEPT ![Exec(w)] = to]
          PROVE  Revives
      <4> PICK x \in Executions : x = Exec(w)
        BY <1>1, <3>1, BusyCall
      <4> QED
        BY <2>1, <3>1
    <3>2. CASE AppendRequestOpened(w)
      BY <3>1, <3>2 DEF AppendRequestOpened
    <3>3. CASE CommitRequest(w)
      BY <3>1, <3>3 DEF CommitRequest
    <3>4. CASE Seal(w)
      BY <3>1, <3>4 DEF Seal
    <3>5. CASE RecordCreated(w) \/ RecordAuthenticated(w) \/ ReadParent(w) \/ RecordWork(w)
               \/ DecideRow(w) \/ RecordDecision(w) \/ CheckResume(w) \/ Throw(w)
      BY <3>5 DEF RecordCreated, RecordAuthenticated, ReadParent, RecordWork, DecideRow,
                  RecordDecision, CheckResume, Throw, dbVars
    <3> QED
      BY <2>3, <2>4, <3>2, <3>3, <3>4, <3>5 DEF Step
  <2>5. ASSUME NEW w \in Workers, Die(w) PROVE UNCHANGED status
    BY <2>5 DEF Die, dbVars
  <2>6. CASE UNCHANGED vars
    BY <2>6 DEF vars, dbVars
  <2> QED
    BY <1>1, <2>2, <2>4, <2>5, <2>6 DEF Next
<1> QED
  BY <1>1, ExecutionTypes, PTL DEF Spec, OnlyResumeRevives

-----------------------------------------------------------------------------
(***************************************************************************)
(* Seals: what a sealing ledger entry commits to is a prefix of the event  *)
(* history that ends in the event of the same transaction.  The invariant  *)
(* is inductive together with TypeOK.  It speaks of one execution at a     *)
(* time, so it is proved about a pair of sequences: the events es and the  *)
(* entries ls of an execution.                                             *)
(***************************************************************************)

Entries == [type : EntryTypes, graph : Graphs]
SealTypes == {"final", "failure"}
Sealed == "audit.checkpoint.sealed"

AllPaired == \A e \in Executions : SealsPaired(e)

\* SealsPaired, of the events and the entries of one execution.
Matched(es, ls) ==
  /\ \A k \in DOMAIN ls : ls[k].type \in SealTypes =>
       \E i \in DOMAIN es : es[i].type = Sealed /\ ls[k].graph.events = SubSeq(es, 1, i)
  /\ \A i \in DOMAIN es : es[i].type = Sealed =>
       \E k \in DOMAIN ls : ls[k].type \in SealTypes /\ Len(ls[k].graph.events) = i

LEMMA MatchedAll ==
  AllPaired <=> \A e \in Executions : Matched(events[e], ledger[e])
BY DEF AllPaired, SealsPaired, Matched, SealEntries, EntriesOf, EventsOf, SealTypes, Sealed

LEMMA MatchedAfter ==
  ASSUME \A e \in Executions : Matched(events'[e], ledger'[e])
  PROVE  AllPaired'
BY DEF AllPaired, SealsPaired, Matched, SealEntries, EntriesOf, EventsOf, SealTypes, Sealed

\* A history that grows keeps its prefixes.
LEMMA SamePrefix ==
  ASSUME NEW es \in Seq(EventRecords), NEW more \in Seq(EventRecords),
         Len(more) >= Len(es), \A i \in 1..Len(es) : more[i] = es[i],
         NEW n \in 1..Len(es)
  PROVE  SubSeq(more, 1, n) = SubSeq(es, 1, n)
<1>1. Len(es) \in Nat /\ Len(more) \in Nat
  BY LenProperties
<1>2. n \in Nat /\ 1 <= n /\ n <= Len(es)
  BY <1>1
<1>3. /\ SubSeq(es, 1, n) \in Seq(EventRecords) /\ Len(SubSeq(es, 1, n)) = n
      /\ \A i \in 1..n : SubSeq(es, 1, n)[i] = es[i]
  BY <1>1, <1>2, SubSeqProperties
<1>4. /\ SubSeq(more, 1, n) \in Seq(EventRecords) /\ Len(SubSeq(more, 1, n)) = n
      /\ \A i \in 1..n : SubSeq(more, 1, n)[i] = more[i]
  BY <1>1, <1>2, SubSeqProperties
<1>5. \A i \in 1..n : SubSeq(more, 1, n)[i] = SubSeq(es, 1, n)[i]
  BY <1>1, <1>2, <1>3, <1>4
<1> QED
  BY <1>3, <1>4, <1>5, SeqEqual

\* Events appended without a seal among them.
LEMMA MoreEvents ==
  ASSUME NEW es \in Seq(EventRecords), NEW more \in Seq(EventRecords), NEW ls,
         Matched(es, ls),
         Len(more) >= Len(es), \A i \in 1..Len(es) : more[i] = es[i],
         \A i \in (Len(es) + 1)..Len(more) : more[i].type # Sealed
  PROVE  Matched(more, ls)
<1>1. /\ Len(es) \in Nat /\ Len(more) \in Nat
      /\ DOMAIN es = 1..Len(es) /\ DOMAIN more = 1..Len(more)
  BY LenProperties
<1>2. ASSUME NEW k \in DOMAIN ls, ls[k].type \in SealTypes
      PROVE  \E i \in DOMAIN more : more[i].type = Sealed /\ ls[k].graph.events = SubSeq(more, 1, i)
  <2> PICK i \in DOMAIN es : es[i].type = Sealed /\ ls[k].graph.events = SubSeq(es, 1, i)
    BY <1>2 DEF Matched
  <2>1. SubSeq(more, 1, i) = SubSeq(es, 1, i)
    BY <1>1, SamePrefix
  <2> QED
    BY <1>1, <2>1
<1>3. ASSUME NEW i \in DOMAIN more, more[i].type = Sealed
      PROVE  \E k \in DOMAIN ls : ls[k].type \in SealTypes /\ Len(ls[k].graph.events) = i
  <2>1. i \in DOMAIN es /\ es[i].type = Sealed
    BY <1>1, <1>3
  <2> QED
    BY <2>1 DEF Matched
<1> QED
  BY <1>2, <1>3 DEF Matched

\* An entry that seals nothing.
LEMMA MoreEntries ==
  ASSUME NEW es, NEW ls \in Seq(Entries), NEW entry \in Entries, Matched(es, ls),
         entry.type \notin SealTypes
  PROVE  Matched(es, Append(ls, entry))
<1>1. Len(ls) \in Nat /\ DOMAIN ls = 1..Len(ls)
  BY LenProperties
<1>2. /\ Append(ls, entry) \in Seq(Entries)
      /\ DOMAIN Append(ls, entry) = 1..(Len(ls) + 1)
      /\ \A k \in 1..Len(ls) : Append(ls, entry)[k] = ls[k]
      /\ Append(ls, entry)[Len(ls) + 1] = entry
  BY AppendProperties, LenProperties
<1> DEFINE more == Append(ls, entry)
<1> HIDE DEF more
<1>3. ASSUME NEW k \in DOMAIN more, more[k].type \in SealTypes
      PROVE  k \in DOMAIN ls /\ more[k] = ls[k]
  BY <1>1, <1>2, <1>3 DEF more
<1>4. ASSUME NEW k \in DOMAIN ls PROVE k \in DOMAIN more /\ more[k] = ls[k]
  BY <1>1, <1>2 DEF more
<1>5. Matched(es, more)
  BY <1>3, <1>4 DEF Matched
<1> QED
  BY <1>5 DEF more

\* A seal: events of which only the last seals, and an entry over all events.
LEMMA SealMatches ==
  ASSUME NEW es \in Seq(EventRecords), NEW more \in Seq(EventRecords),
         NEW ls \in Seq(Entries), NEW entry \in Entries, Matched(es, ls),
         Len(more) > Len(es), \A i \in 1..Len(es) : more[i] = es[i],
         \A i \in (Len(es) + 1)..(Len(more) - 1) : more[i].type # Sealed,
         more[Len(more)].type = Sealed,
         entry.type \in SealTypes, entry.graph.events = more
  PROVE  Matched(more, Append(ls, entry))
<1>1. /\ Len(es) \in Nat /\ Len(more) \in Nat /\ Len(ls) \in Nat
      /\ DOMAIN es = 1..Len(es) /\ DOMAIN more = 1..Len(more) /\ DOMAIN ls = 1..Len(ls)
  BY LenProperties
<1> DEFINE longer == Append(ls, entry)
<1>2. /\ DOMAIN longer = 1..(Len(ls) + 1)
      /\ \A k \in 1..Len(ls) : longer[k] = ls[k]
      /\ longer[Len(ls) + 1] = entry
  BY AppendProperties, LenProperties
<1> HIDE DEF longer
<1>3. SubSeq(more, 1, Len(more)) = more
  BY SubSeqFull
<1>4. ASSUME NEW k \in DOMAIN longer, longer[k].type \in SealTypes
      PROVE  \E i \in DOMAIN more :
               more[i].type = Sealed /\ longer[k].graph.events = SubSeq(more, 1, i)
  <2>1. CASE k \in DOMAIN ls
    <3> PICK i \in DOMAIN es : es[i].type = Sealed /\ ls[k].graph.events = SubSeq(es, 1, i)
      BY <1>1, <1>2, <1>4, <2>1 DEF Matched
    <3>1. SubSeq(more, 1, i) = SubSeq(es, 1, i)
      BY <1>1, SamePrefix
    <3>2. longer[k] = ls[k]
      BY <1>1, <1>2, <2>1
    <3>3. i \in DOMAIN more /\ more[i] = es[i]
      BY <1>1
    <3> QED
      BY <3>1, <3>2, <3>3
  <2>2. CASE k \notin DOMAIN ls
    <3>1. longer[k] = entry
      BY <1>1, <1>2, <1>4, <2>2
    <3>2. Len(more) \in DOMAIN more
      BY <1>1
    <3> QED
      BY <1>3, <3>1, <3>2
  <2> QED
    BY <2>1, <2>2
<1>5. ASSUME NEW i \in DOMAIN more, more[i].type = Sealed
      PROVE  \E k \in DOMAIN longer : longer[k].type \in SealTypes /\ Len(longer[k].graph.events) = i
  <2>1. CASE i \in DOMAIN es
    <3> PICK k \in DOMAIN ls : ls[k].type \in SealTypes /\ Len(ls[k].graph.events) = i
      BY <1>1, <1>5, <2>1 DEF Matched
    <3> QED
      BY <1>1, <1>2
  <2>2. CASE i \notin DOMAIN es
    <3>1. i = Len(more)
      BY <1>1, <1>5, <2>2
    <3>2. Len(ls) + 1 \in DOMAIN longer
      BY <1>1, <1>2
    <3> QED
      BY <1>2, <3>1, <3>2
  <2> QED
    BY <2>1, <2>2
<1>6. Matched(more, longer)
  BY <1>4, <1>5 DEF Matched
<1> QED
  BY <1>6 DEF longer
-----------------------------------------------------------------------------
(* The steps *)

\* Recording an event that is not a seal.
LEMMA RecordMatches ==
  ASSUME TypeOK, AllPaired, NEW e \in Executions,
         NEW type \in EXECUTION_EVENT_TYPES, type # Sealed,
         NEW n \in Nat, n <= Len(events[e]), NEW about \in Approvals \cup {"none"},
         Record(e, type, n, about)
  PROVE  \A x \in Executions : Matched(events'[x], ledger[x])
<1> DEFINE event == Event(type, ParentSet(n), about)
<1>1. events[e] \in Seq(EventRecords) /\ Len(events[e]) \in Nat /\ Matched(events[e], ledger[e])
  BY MatchedAll, LenProperties DEF TypeOK
<1>2. event \in EventRecords /\ event.type = type
  BY DEF Event, EventRecords, ParentSet
<1>3. events' = [events EXCEPT ![e] = Append(events[e], event)]
  BY DEF Record, TypeOK
<1> HIDE DEF event
<1> DEFINE more == Append(events[e], event)
<1>4. /\ more \in Seq(EventRecords) /\ Len(more) = Len(events[e]) + 1
      /\ \A i \in 1..Len(events[e]) : more[i] = events[e][i]
      /\ more[Len(events[e]) + 1] = event
  BY <1>1, <1>2, AppendProperties
<1>5. events'[e] = more /\ \A x \in Executions \ {e} : events'[x] = events[x]
  BY <1>3 DEF TypeOK
<1> HIDE DEF more
<1>6. \A i \in (Len(events[e]) + 1)..Len(more) : more[i].type # Sealed
  BY <1>1, <1>2, <1>4
<1>7. Len(more) >= Len(events[e])
  BY <1>1, <1>4
<1>8. Matched(more, ledger[e])
  BY <1>1, <1>4, <1>6, <1>7, MoreEvents
<1> QED
  BY <1>5, <1>8, MatchedAll

\* Appending an entry that is not a seal, to ledgers that match given events.
LEMMA EntryMatches ==
  ASSUME TypeOK, NEW e \in Executions, NEW type \in EntryTypes, type \notin SealTypes,
         NEW graph \in Graphs, AppendLedger(e, type, graph),
         NEW es, \A x \in Executions : Matched(es[x], ledger[x])
  PROVE  \A x \in Executions : Matched(es[x], ledger'[x])
<1>1. LedgerEntry(type, graph) \in Entries /\ LedgerEntry(type, graph).type = type
  BY DEF LedgerEntry, Entries
<1>2. ledger[e] \in Seq(Entries)
  BY DEF TypeOK, Entries
<1>3. Matched(es[e], Append(ledger[e], LedgerEntry(type, graph)))
  BY <1>1, <1>2, MoreEntries
<1> QED
  BY <1>3, AppendTypes

\* The events of a seal end in the sealing event, which is the only one of them.
LEMMA SealIsLast ==
  ASSUME NEW outcome \in Outcomes
  PROVE  LET chain == Append(Prelude(outcome), Sealed)
         IN  /\ Len(chain) \in Nat \ {0} /\ chain[Len(chain)] = Sealed
             /\ \A i \in 1..(Len(chain) - 1) : chain[i] # Sealed
<1> DEFINE prelude == Prelude(outcome)
<1>1. /\ prelude \in Seq(EXECUTION_EVENT_TYPES) /\ Len(prelude) \in Nat
      /\ \A i \in 1..Len(prelude) : prelude[i] # Sealed
  <2>1. CASE outcome = "completed"
    <3> DEFINE t == <<"validation.started", "validation.passed", "execution.completed",
                      "release.started", "release.completed">>
    <3>1. t \in Seq(EXECUTION_EVENT_TYPES)
      BY TupleTypes DEF EXECUTION_EVENT_TYPES
    <3>2. Len(t) = 5 /\ \A i \in 1..5 : t[i] # Sealed
      BY DEF Sealed
    <3>3. prelude = t
      BY <2>1 DEF Prelude
    <3> QED
      BY <3>1, <3>2, <3>3
  <2>2. CASE outcome # "completed"
    <3> DEFINE third == IF outcome = "blocked" THEN "execution.blocked" ELSE "execution.failed"
               t == <<"validation.started", "validation.failed", third, "release.blocked">>
    <3>1. third \in EXECUTION_EVENT_TYPES /\ third # Sealed
      BY DEF EXECUTION_EVENT_TYPES, Sealed
    <3>2. prelude = t
      BY <2>2 DEF Prelude
    <3> HIDE DEF third
    <3>3. t \in Seq(EXECUTION_EVENT_TYPES)
      BY <3>1, TupleTypes DEF EXECUTION_EVENT_TYPES
    <3>4. Len(t) = 4 /\ \A i \in 1..4 : t[i] # Sealed
      BY <3>1 DEF Sealed
    <3> QED
      BY <3>2, <3>3, <3>4
  <2> QED
    BY <2>1, <2>2
<1> HIDE DEF prelude
<1> DEFINE chain == Append(prelude, Sealed)
<1>2. /\ Len(chain) = Len(prelude) + 1
      /\ \A i \in 1..Len(prelude) : chain[i] = prelude[i]
      /\ chain[Len(prelude) + 1] = Sealed
  BY <1>1, SealType, AppendProperties DEF Sealed
<1> HIDE DEF chain
<1>3. /\ Len(chain) \in Nat \ {0} /\ chain[Len(chain)] = Sealed
      /\ \A i \in 1..(Len(chain) - 1) : chain[i] # Sealed
  BY <1>1, <1>2
<1> QED
  BY <1>3 DEF chain, prelude

LEMMA SealKeepsMatch ==
  ASSUME TypeOK, AllPaired, NEW w \in Workers, Seal(w)
  PROVE  AllPaired'
<1>1. pc[w] # "idle" /\ call[w].outcome \in Outcomes
  BY StepCall, BusyCall DEF Seal
<1> PICK e \in Executions : e = Exec(w)
  BY <1>1, BusyCall
<1> PICK outcome \in Outcomes : outcome = call[w].outcome
  BY <1>1
<1> PICK n \in Nat : n = parent[w]
  BY DEF TypeOK
<1> PICK es \in Seq(EventRecords) : es = events[e]
  BY DEF TypeOK
<1> PICK ls \in Seq(Entries) : ls = ledger[e]
  BY DEF TypeOK, Entries
<1> DEFINE chain == Append(Prelude(outcome), Sealed)
           more == Chained(es, chain, n)
           type == IF outcome = "completed" THEN "final" ELSE "failure"
           entry == LedgerEntry(type, GraphOf(more, outcome))
<1>2. events' = [events EXCEPT ![e] = more] /\ ledger' = [ledger EXCEPT ![e] = Append(ls, entry)]
  BY DEF Seal, SealedEvents, AppendLedger, Sealed, TypeOK
<1>3. n <= Len(es) /\ \A i \in DOMAIN es : es[i].parents \subseteq 1..(i - 1)
  BY <1>1, StepCall DEF TypeOK, GraphBuildable
<1>4. /\ chain \in Seq(EXECUTION_EVENT_TYPES) /\ Len(chain) \in Nat \ {0}
      /\ chain[Len(chain)] = Sealed
      /\ \A i \in 1..(Len(chain) - 1) : chain[i] # Sealed
  BY PreludeTypes, SealIsLast DEF Sealed
<1> HIDE DEF chain
<1>5. /\ more \in Seq(EventRecords) /\ Len(more) = Len(es) + Len(chain)
      /\ \A i \in 1..Len(es) : more[i] = es[i]
      /\ \A i \in 1..Len(chain) : more[Len(es) + i].type = chain[i]
  <2>1. chain \in Seq(EXECUTION_EVENT_TYPES)
    BY <1>4
  <2> QED
    BY <1>3, <2>1, ChainedTypes
<1> HIDE DEF more
<1>6. Len(es) \in Nat /\ Len(more) > Len(es)
  BY <1>4, <1>5, LenProperties
<1>7. more[Len(more)].type = Sealed
  <2>1. Len(chain) \in 1..Len(chain)
    BY <1>4
  <2> QED
    BY <1>4, <1>5, <2>1
<1>8. ASSUME NEW i \in (Len(es) + 1)..(Len(more) - 1) PROVE more[i].type # Sealed
  <2> DEFINE j == i - Len(es)
  <2>1. j \in 1..(Len(chain) - 1) /\ j \in 1..Len(chain) /\ Len(es) + j = i
    BY <1>4, <1>5, <1>6
  <2> HIDE DEF j
  <2> QED
    BY <1>4, <1>5, <2>1
<1>9. /\ entry \in Entries /\ entry.type \in SealTypes /\ entry.graph.events = more
  <2>1. outcome \in Statuses
    BY DEF Outcomes, Statuses, TerminalStatuses
  <2> QED
    BY <1>5, <2>1 DEF LedgerEntry, GraphOf, Entries, Graphs, EntryTypes, SealTypes
<1> HIDE DEF entry
<1>10. Matched(es, ls)
  BY MatchedAll
<1>11. Matched(more, Append(ls, entry))
  BY <1>5, <1>6, <1>7, <1>8, <1>9, <1>10, SealMatches
<1>12. ASSUME NEW x \in Executions PROVE Matched(events'[x], ledger'[x])
  <2>1. CASE x = e
    BY <1>2, <1>11, <2>1 DEF TypeOK
  <2>2. CASE x # e
    BY <1>2, <2>2, MatchedAll DEF TypeOK
  <2> QED
    BY <2>1, <2>2
<1> QED
  BY <1>12, MatchedAfter

-----------------------------------------------------------------------------
(* All steps *)

\* Whatever is appended before, between and after.
LEMMA AlwaysPaired == Spec => []AllPaired
<1>1. Init => AllPaired
  BY DEF Init, AllPaired, SealsPaired, SealEntries, EntriesOf, EventsOf
<1>2. ASSUME TypeOK, AllPaired, [Next]_vars PROVE AllPaired'
  <2>1. ASSUME UNCHANGED <<events, ledger>> PROVE AllPaired'
    BY <1>2, <2>1 DEF AllPaired, SealsPaired, SealEntries, EntriesOf, EventsOf
  <2>2. ASSUME NEW w \in Workers, Begin(w) PROVE AllPaired'
    BY <2>1, <2>2 DEF Begin, OpenExecution, BeginWork, BeginRequest, BeginDecide,
                      BeginFinalize, dbVars
  <2>3. ASSUME NEW w \in Workers, Step(w) PROVE AllPaired'
    <3> DEFINE Recorded(e, type, n, about) ==
                 /\ type \in EXECUTION_EVENT_TYPES /\ type # Sealed
                 /\ n \in Nat /\ n <= Len(events[e]) /\ about \in Approvals \cup {"none"}
                 /\ Record(e, type, n, about)
    <3>1. ASSUME NEW e \in Executions, NEW type, NEW n, NEW about,
                 Recorded(e, type, n, about), UNCHANGED ledger
          PROVE  AllPaired'
      <4>1. \A x \in Executions : Matched(events'[x], ledger[x])
        BY <1>2, <3>1, RecordMatches
      <4> QED
        BY <3>1, <4>1, MatchedAfter
    <3>2. ASSUME pc[w] # "idle" PROVE \E e \in Executions : e = Exec(w)
      BY <1>2, <3>2, BusyCall
    <3>3. CASE RecordCreated(w)
      <4> PICK e \in Executions : e = Exec(w)
        BY <3>2, <3>3 DEF RecordCreated
      <4>1. Recorded(e, "execution.created", 0, "none")
        <5>1. Len(events[e]) \in Nat
          BY <1>2, LenProperties DEF TypeOK
        <5> QED
          BY <3>3, <5>1 DEF RecordCreated, EXECUTION_EVENT_TYPES, Sealed
      <4> QED
        BY <3>1, <3>3, <4>1 DEF RecordCreated
    <3>4. CASE RecordAuthenticated(w)
      <4> PICK e \in Executions : e = Exec(w)
        BY <3>2, <3>4 DEF RecordAuthenticated
      <4>1. Recorded(e, "identity.authenticated", parent[w], "none")
        <5>1. parent[w] \in Nat /\ parent[w] <= Len(events[e])
          BY <1>2, <3>4, StepCall DEF RecordAuthenticated
        <5> QED
          BY <3>4, <5>1 DEF RecordAuthenticated, EXECUTION_EVENT_TYPES, Sealed
      <4> QED
        BY <3>1, <3>4, <4>1 DEF RecordAuthenticated
    <3>5. CASE RecordWork(w)
      <4> PICK e \in Executions : e = Exec(w)
        BY <3>2, <3>5 DEF RecordWork
      <4>1. call[w].op \in WorkOperations /\ parent[w] \in Nat /\ parent[w] <= Len(events[e])
        BY <1>2, <3>5, StepCall DEF RecordWork
      <4> PICK type \in Following(call[w].op, call[w].last) : Record(e, type, parent[w], "none")
        BY <3>5 DEF RecordWork
      <4>2. type \in EXECUTION_EVENT_TYPES
        BY <4>1, CallNames
      <4>3. type # Sealed
        BY <4>1 DEF Following, SkillFollows, RetrieveFollows, AuthorizeModelFollows,
                    ExecuteModelFollows, WorkOperations, Sealed
      <4>4. Recorded(e, type, parent[w], "none")
        BY <4>1, <4>2, <4>3
      <4> QED
        BY <3>1, <3>5, <4>4 DEF RecordWork
    <3>6. CASE RecordDecision(w)
      <4> PICK e \in Executions : e = Exec(w)
        BY <3>2, <3>6 DEF RecordDecision
      <4> DEFINE type == IF call[w].allow THEN "approval.approved" ELSE "approval.rejected"
      <4>1. /\ parent[w] \in Nat /\ parent[w] <= Len(events[e])
            /\ call[w].approval \in Approvals \cup {"none"}
        BY <1>2, <3>6, StepCall, BusyCall DEF RecordDecision
      <4>2. type \in EXECUTION_EVENT_TYPES /\ type # Sealed
        BY DEF EXECUTION_EVENT_TYPES, Sealed
      <4>3. Record(e, type, parent[w], call[w].approval) /\ UNCHANGED ledger
        BY <3>6 DEF RecordDecision
      <4> HIDE DEF type
      <4>4. Recorded(e, type, parent[w], call[w].approval)
        BY <4>1, <4>2, <4>3
      <4> QED
        BY <3>1, <4>3, <4>4
    <3>7. CASE CommitRequest(w)
      <4> PICK e \in Executions : e = Exec(w)
        BY <3>2, <3>7 DEF CommitRequest
      <4>1. parent[w] \in Nat /\ parent[w] <= Len(events[e])
        BY <1>2, <3>7, StepCall DEF CommitRequest
      <4> PICK a \in Approvals : Record(e, "approval.requested", parent[w], a)
        BY <3>7 DEF CommitRequest
      <4>2. Recorded(e, "approval.requested", parent[w], a)
        BY <4>1 DEF EXECUTION_EVENT_TYPES, Sealed
      <4>3. \A x \in Executions : Matched(events'[x], ledger[x])
        BY <1>2, <4>2, RecordMatches
      <4>4. AppendLedger(e, "approval_requested", NoGraph)
        BY <3>7 DEF CommitRequest
      <4>5. "approval_requested" \in EntryTypes /\ "approval_requested" \notin SealTypes
        BY DEF EntryTypes, SealTypes
      <4>6. \A x \in Executions : Matched(events'[x], ledger'[x])
        BY <1>2, <4>3, <4>4, <4>5, NoGraphType, EntryMatches
      <4> QED
        BY <4>6, MatchedAfter
    <3>8. CASE AppendRequestOpened(w)
      <4> PICK e \in Executions : e = Exec(w)
        BY <3>2, <3>8 DEF AppendRequestOpened
      <4>1. AppendLedger(e, "request_opened", NoGraph) /\ UNCHANGED events
        BY <3>8 DEF AppendRequestOpened
      <4>2. "request_opened" \in EntryTypes /\ "request_opened" \notin SealTypes
        BY DEF EntryTypes, SealTypes
      <4>3. \A x \in Executions : Matched(events'[x], ledger[x])
        BY <1>2, <4>1, MatchedAll
      <4>4. \A x \in Executions : Matched(events'[x], ledger'[x])
        BY <1>2, <4>1, <4>2, <4>3, NoGraphType, EntryMatches
      <4> QED
        BY <4>4, MatchedAfter
    <3>9. CASE ReadParent(w) \/ DecideRow(w) \/ CheckResume(w) \/ WriteResume(w) \/ Throw(w)
      BY <2>1, <3>9 DEF ReadParent, DecideRow, CheckResume, WriteResume, Throw, dbVars
    <3> QED
      BY <1>2, <2>3, <3>3, <3>4, <3>5, <3>6, <3>7, <3>8, <3>9, SealKeepsMatch DEF Step
  <2>4. ASSUME NEW w \in Workers, Die(w) PROVE AllPaired'
    BY <2>1, <2>4 DEF Die, dbVars
  <2>5. CASE UNCHANGED vars
    BY <2>1, <2>5 DEF vars, dbVars
  <2> QED
    BY <1>2, <2>2, <2>3, <2>4, <2>5 DEF Next
<1> QED
  BY <1>1, <1>2, ExecutionTypes, PTL DEF Spec

-----------------------------------------------------------------------------
(* The ledger tells a lawful story *)

\* What a step of w leaves to the other requests.
Others(w) ==
  \A v \in Workers \ {w} : pc'[v] = pc[v] /\ call'[v] = call[v] /\ seen'[v] = seen[v]

LEMMA OthersKept ==
  ASSUME TypeOK, NEW w \in Workers
  PROVE  /\ Finish(w) => Others(w)
         /\ \A l : Goto(w, l) /\ UNCHANGED <<call, seen>> => Others(w)
         /\ \A request, l : Accept(w, request, l) => Others(w)
<1>1. Finish(w) => Others(w)
  BY DEF Finish, Others, TypeOK
<1>2. ASSUME NEW l, Goto(w, l), UNCHANGED <<call, seen>> PROVE Others(w)
  BY <1>2 DEF Goto, Others, TypeOK
<1>3. ASSUME NEW request, NEW l, Accept(w, request, l) PROVE Others(w)
  BY <1>3 DEF Accept, Goto, Others, TypeOK
<1> QED
  BY <1>1, <1>2, <1>3

LEMMA RequestFrame ==
  ASSUME TypeOK, NEW w \in Workers, Begin(w) \/ Step(w) \/ Die(w)
  PROVE  Others(w)
<1>1. CASE Begin(w)
  BY <1>1, OthersKept DEF Begin, OpenExecution, BeginWork, BeginRequest, BeginDecide, BeginFinalize
<1>2. CASE RecordWork(w)
  BY <1>2, OthersKept DEF RecordWork, TypeOK, Others
<1>3. CASE \/ RecordCreated(w) \/ RecordAuthenticated(w) \/ AppendRequestOpened(w)
           \/ ReadParent(w) \/ CommitRequest(w) \/ DecideRow(w)
  BY <1>3, OthersKept DEF RecordCreated, RecordAuthenticated, AppendRequestOpened, ReadParent,
     CommitRequest, DecideRow
<1>4. CASE \/ RecordDecision(w) \/ CheckResume(w) \/ WriteResume(w) \/ Seal(w) \/ Throw(w)
           \/ Die(w)
  BY <1>4, OthersKept DEF RecordDecision, CheckResume, WriteResume, Seal, Throw, Die
<1> QED
  BY <1>1, <1>2, <1>3, <1>4 DEF Step

\* The entries of a type, after one is appended.
LEMMA EntriesAfter ==
  ASSUME TypeOK, NEW e \in Executions, NEW type, NEW graph, AppendLedger(e, type, graph),
         NEW x \in Executions, NEW types
  PROVE  EntriesOf(x, types)' =
           EntriesOf(x, types) \cup
             (IF x = e /\ type \in types THEN {Len(ledger[e]) + 1} ELSE {})
<1> DEFINE S == [type : EntryTypes, graph : Graphs]
           n == Len(ledger[e])
           entry == LedgerEntry(type, graph)
<1>1. CASE x # e
  BY <1>1 DEF AppendLedger, EntriesOf, TypeOK
<1>2. CASE x = e
  <2>1. ledger[e] \in Seq(S) /\ n \in Nat /\ DOMAIN ledger[e] = 1..n
    BY LenProperties DEF TypeOK
  <2>2. ledger'[e] = Append(ledger[e], entry)
    BY DEF AppendLedger, TypeOK
  <2> HIDE DEF S, n, entry
  <2>3. ledger'[e] = [i \in 1..(n + 1) |-> IF i = n + 1 THEN entry ELSE ledger[e][i]]
    BY <2>1, <2>2 DEF n
  <2>4. 1..(n + 1) = 1..n \cup {n + 1} /\ n + 1 \notin 1..n
    BY <2>1
  <2>5. entry.type = type
    BY DEF entry, LedgerEntry
  <2> QED
    BY <1>2, <2>1, <2>3, <2>4, <2>5 DEF EntriesOf, n
<1> QED
  BY <1>1, <1>2

-----------------------------------------------------------------------------
(* The ledger's story *)

Openings(e) == EntriesOf(e, {"request_opened"})

\* The entries of an execution and its status.
EntryStory(e) ==
  /\ Openings(e) \subseteq {1}
  /\ status[e] \in {Absent, "created"} => ledger[e] = <<>>
  /\ status[e] \in {"running", "waiting_approval", "completed"} => Openings(e) # {}
  /\ EntriesOf(e, {"approval_requested", "final"}) # {} => Openings(e) # {}

\* A request is about an execution that exists; one that opens it is alone
\* with it.
Opener(w) ==
  /\ call[w].op # "none" => status[Exec(w)] # Absent
  /\ call[w].op = "open" =>
       /\ status[Exec(w)] = "created"
       /\ \A v \in Workers \ {w} : call[v].op # "none" => Exec(v) # Exec(w)

RowsOpened ==
  \A a \in Approvals : \A e \in Executions :
    approvals[a] # NoApproval /\ approvals[a].exec = e => Openings(e) # {}

StoryInv ==
  /\ \A e \in Executions : EntryStory(e)
  /\ RowsOpened
  /\ \A w \in Workers : Opener(w)

\* Nothing of an execution is written while it is still being opened.
LEMMA NotOpening ==
  ASSUME TypeOK, StoryInv, NEW e \in Executions, Openings(e) # {}
  PROVE  /\ status[e] \notin {Absent, "created"}
         /\ \A v \in Workers : call[v].op = "open" => Exec(v) # e
<1>1. status[e] \notin {Absent, "created"}
  BY DEF StoryInv, EntryStory, Openings, EntriesOf
<1> QED
  BY <1>1 DEF StoryInv, Opener

\* Steps that write neither a status nor an entry.
LEMMA StorySame ==
  ASSUME TypeOK, StoryInv, NEW w \in Workers, Others(w), UNCHANGED <<status, ledger>>,
         \A a \in Approvals : approvals'[a] # NoApproval =>
           approvals[a] # NoApproval /\ approvals'[a].exec = approvals[a].exec,
         \/ call'[w].op = "none"
         \/ call'[w].op = call[w].op /\ Exec(w)' = Exec(w)
  PROVE  StoryInv'
<1>1. \A e \in Executions : EntryStory(e)'
  BY DEF StoryInv, EntryStory, Openings, EntriesOf
<1>2. RowsOpened'
  BY DEF StoryInv, RowsOpened, Openings, EntriesOf
<1>3. \A v \in Workers : call'[v].op # "none" =>
        call'[v].op = call[v].op /\ Exec(v)' = Exec(v)
  BY DEF Others, Exec
<1>4. \A v \in Workers : Opener(v)'
  <2> SUFFICES ASSUME NEW v \in Workers, call'[v].op # "none" PROVE Opener(v)'
    BY DEF Opener
  <2> QED
    BY <1>3 DEF StoryInv, Opener
<1> QED
  BY <1>1, <1>2, <1>4 DEF StoryInv

\* Steps that write a status, and end the request.
LEMMA StoryWrite ==
  ASSUME TypeOK, StoryInv, NEW w \in Workers, Finish(w), NEW e \in Executions, NEW st,
         st \notin {Absent, "created"}, status' = [status EXCEPT ![e] = st],
         EntryStory(e)', Openings(e) # {} => Openings(e)' # {},
         \A x \in Executions \ {e} : ledger'[x] = ledger[x],
         \A v \in Workers \ {w} : call[v].op = "open" => Exec(v) # e,
         \A a \in Approvals : approvals'[a] # NoApproval =>
           \/ approvals[a] # NoApproval /\ approvals'[a].exec = approvals[a].exec
           \/ approvals'[a].exec = e /\ Openings(e)' # {}
  PROVE  StoryInv'
<1>1. \A x \in Executions \ {e} :
        /\ status'[x] = status[x]
        /\ \A types : EntriesOf(x, types)' = EntriesOf(x, types)
  BY DEF EntriesOf, TypeOK
<1>2. status'[e] = st
  BY DEF TypeOK
<1>3. \A x \in Executions : EntryStory(x)'
  BY <1>1 DEF StoryInv, EntryStory, Openings
<1>4. RowsOpened'
  <2> SUFFICES ASSUME NEW a \in Approvals, NEW x \in Executions,
                      approvals'[a] # NoApproval, approvals'[a].exec = x
               PROVE  Openings(x)' # {}
    BY DEF RowsOpened
  <2>1. CASE x = e /\ Openings(e)' # {}
    BY <2>1
  <2>2. CASE approvals[a] # NoApproval /\ approvals[a].exec = x
    <3>1. Openings(x) # {}
      BY <2>2 DEF StoryInv, RowsOpened
    <3>2. x # e => Openings(x)' = Openings(x)
      BY <1>1 DEF Openings
    <3> QED
      BY <3>1, <3>2
  <2> QED
    BY <2>1, <2>2
<1>5. call'[w].op = "none" /\ \A v \in Workers \ {w} : call'[v] = call[v] /\ Exec(v)' = Exec(v)
  BY DEF Finish, NoCall, TypeOK, Exec
<1>6. \A v \in Workers : Opener(v)'
  <2> SUFFICES ASSUME NEW v \in Workers \ {w}, call[v].op # "none" PROVE Opener(v)'
    BY <1>5 DEF Opener
  <2> PICK x \in Executions : x = Exec(v)
    BY IdleCall, BusyCall DEF TypeOK, AtItsStep, OperationsAt
  <2>1. status'[x] # Absent
    BY <1>1, <1>2 DEF StoryInv, Opener
  <2>2. call[v].op = "open" => status'[x] = "created"
    BY <1>1 DEF StoryInv, Opener
  <2> QED
    BY <1>5, <2>1, <2>2 DEF StoryInv, Opener
<1> QED
  BY <1>3, <1>4, <1>6 DEF StoryInv

\* A request about an execution that exists and is no longer being opened.
LEMMA StoryAccept ==
  ASSUME TypeOK, StoryInv, NEW w \in Workers, NEW request, NEW label,
         Accept(w, request, label), UNCHANGED dbVars,
         request.op # "open", status[request.exec] # Absent,
         \A v \in Workers : call[v].op = "open" => Exec(v) # request.exec
  PROVE  StoryInv'
<1>1. Others(w) /\ call'[w] = request
  BY OthersKept DEF Accept, TypeOK
<1>2. (\A e \in Executions : EntryStory(e)') /\ RowsOpened'
  BY DEF StoryInv, EntryStory, RowsOpened, Openings, EntriesOf, dbVars
<1>3. \A v \in Workers \ {w} : call'[v] = call[v]
  BY <1>1 DEF Others
<1>4. Opener(w)'
  BY <1>1 DEF Opener, Exec, dbVars
<1>5. \A v \in Workers \ {w} : Opener(v)'
  BY <1>1, <1>3 DEF StoryInv, Opener, Exec, dbVars
<1> QED
  BY <1>2, <1>4, <1>5 DEF StoryInv

LEMMA StoryOpen ==
  ASSUME TypeOK, StoryInv, NEW w \in Workers, NEW e \in Executions, OpenExecution(w, e)
  PROVE  StoryInv'
<1>1. /\ Others(w) /\ call'[w] = [op |-> "open", exec |-> e]
      /\ status[e] = Absent /\ status' = [status EXCEPT ![e] = "created"]
      /\ UNCHANGED <<ledger, approvals>>
  BY OthersKept DEF OpenExecution, Accept, TypeOK
<1>2. status'[e] = "created" /\ \A x \in Executions \ {e} : status'[x] = status[x]
  BY <1>1 DEF TypeOK
<1>3. \A x \in Executions : EntryStory(x)'
  BY <1>1, <1>2 DEF StoryInv, EntryStory, Openings, EntriesOf
<1>4. RowsOpened'
  BY <1>1 DEF StoryInv, RowsOpened, Openings, EntriesOf
<1>5. \A v \in Workers \ {w} : call'[v] = call[v] /\ (call[v].op # "none" => Exec(v) # e)
  BY <1>1 DEF StoryInv, Opener, Others
<1>6. Opener(w)'
  <2>1. call'[w].op = "open" /\ Exec(w)' = e
    BY <1>1 DEF Exec
  <2>2. \A v \in Workers \ {w} : call'[v].op # "none" => Exec(v)' # e
    BY <1>5 DEF Exec
  <2> QED
    BY <1>2, <2>1, <2>2 DEF Opener, Absent
<1>7. ASSUME NEW v \in Workers \ {w} PROVE Opener(v)'
  <2>1. call[v].op # "none" => Exec(v) \in Executions
    BY BusyCall DEF TypeOK, AtItsStep, OperationsAt
  <2> QED
    BY <1>1, <1>2, <1>5, <2>1 DEF StoryInv, Opener, Exec
<1> QED
  BY <1>3, <1>4, <1>6, <1>7 DEF StoryInv

LEMMA StoryBegins ==
  ASSUME TypeOK, StoryInv, NEW w \in Workers, Begin(w)
  PROVE  StoryInv'
<1>1. ASSUME NEW e \in Executions, Live(e)
      PROVE  status[e] # Absent /\ \A v \in Workers : call[v].op = "open" => Exec(v) # e
  BY <1>1 DEF Live, Known
<1>2. ASSUME NEW e \in Executions, NEW op \in WorkOperations, BeginWork(w, e, op) PROVE StoryInv'
  <2> DEFINE request == [op |-> op, exec |-> e, last |-> "start"]
  <2>1. Accept(w, request, "read_parent") /\ UNCHANGED dbVars /\ Live(e)
    BY <1>2 DEF BeginWork
  <2>2. request.exec = e /\ request.op # "open"
    BY DEF WorkOperations
  <2> HIDE DEF request
  <2> QED
    BY <1>1, <2>1, <2>2, StoryAccept
<1>3. ASSUME NEW e \in Executions, NEW u \in Users, BeginRequest(w, e, u) PROVE StoryInv'
  <2> DEFINE request == [op |-> "request_approval", exec |-> e, user |-> u]
  <2>1. Accept(w, request, "read_parent") /\ UNCHANGED dbVars /\ Live(e)
    BY <1>3 DEF BeginRequest
  <2>2. request.exec = e /\ request.op # "open"
    OBVIOUS
  <2> HIDE DEF request
  <2> QED
    BY <1>1, <2>1, <2>2, StoryAccept
<1>4. ASSUME NEW e \in Executions, NEW outcome \in Outcomes, BeginFinalize(w, e, outcome)
      PROVE  StoryInv'
  <2> DEFINE request == [op |-> "finalize", exec |-> e, outcome |-> outcome]
  <2>1. Accept(w, request, "read_parent") /\ UNCHANGED dbVars /\ Live(e)
    BY <1>4 DEF BeginFinalize
  <2>2. request.exec = e /\ request.op # "open"
    OBVIOUS
  <2> HIDE DEF request
  <2> QED
    BY <1>1, <2>1, <2>2, StoryAccept
<1>5. ASSUME NEW a \in Approvals, NEW u \in Users, NEW allow \in BOOLEAN, NEW op \in Operations,
             BeginDecide(w, a, u, allow, op)
      PROVE  StoryInv'
  <2> DEFINE request == [op |-> op, exec |-> approvals[a].exec, approval |-> a, user |-> u,
                         allow |-> allow]
  <2>1. /\ Accept(w, request, "decide") /\ UNCHANGED dbVars
        /\ approvals[a] # NoApproval /\ op \in {"decide", "decide_only"}
    BY <1>5 DEF BeginDecide
  <2> PICK e \in Executions : e = approvals[a].exec
    BY <2>1 DEF TypeOK, ApprovalRows
  <2>2. request.exec = e /\ request.op # "open"
    BY <2>1
  <2>3. Openings(e) # {}
    BY <2>1 DEF StoryInv, RowsOpened
  <2> HIDE DEF request
  <2> QED
    BY <2>1, <2>2, <2>3, NotOpening, StoryAccept
<1> QED
  BY <1>2, <1>3, <1>4, <1>5, StoryOpen DEF Begin

\* The steps that write a status or an entry.
LEMMA StoryWrites ==
  ASSUME TypeOK, StoryInv, NEW w \in Workers,
         AppendRequestOpened(w) \/ CommitRequest(w) \/ WriteResume(w) \/ Seal(w)
  PROVE  StoryInv'
<1>1. pc[w] # "idle"
  BY DEF AppendRequestOpened, CommitRequest, WriteResume, Seal
<1> PICK e \in Executions : e = Exec(w)
  BY <1>1, BusyCall
<1>2. call[w].op # "none"
  BY <1>1 DEF TypeOK, AtItsStep, OperationsAt, Labels, WorkOperations
<1>3. EntryStory(e) /\ Opener(w) /\ status[e] \in Statuses
  BY <1>2 DEF StoryInv, Opener, TypeOK
<1>4. \A v \in Workers \ {w} : call[v].op = "open" => Exec(v) # e
  BY <1>2 DEF StoryInv, Opener
<1>5. ASSUME NEW type, NEW graph, AppendLedger(e, type, graph)
      PROVE  \A x \in Executions \ {e} : ledger'[x] = ledger[x]
  BY <1>5 DEF AppendLedger, TypeOK
<1>6. CASE AppendRequestOpened(w)
  <2>1. /\ AppendLedger(e, "request_opened", NoGraph) /\ Finish(w) /\ UNCHANGED approvals
        /\ status' = [status EXCEPT ![e] = "running"]
    BY <1>6 DEF AppendRequestOpened
  <2>2. call[w].op = "open"
    BY <1>6, StepCall DEF AppendRequestOpened
  <2>3. status[e] = "created" /\ ledger[e] = <<>>
    BY <1>3, <2>2 DEF Opener, EntryStory
  <2>4. \A types : EntriesOf(e, types)' =
          EntriesOf(e, types) \cup (IF "request_opened" \in types THEN {1} ELSE {})
    BY <2>1, <2>3, EntriesAfter
  <2>5. \A types : EntriesOf(e, types) = {}
    BY <2>3 DEF EntriesOf
  <2>6. Openings(e)' = {1} /\ status'[e] = "running"
    BY <2>1, <2>4, <2>5 DEF Openings, TypeOK
  <2>7. EntryStory(e)'
    BY <2>6 DEF EntryStory, Absent
  <2> QED
    BY <1>4, <1>5, <2>1, <2>6, <2>7, StoryWrite DEF Absent
<1>7. CASE CommitRequest(w)
  <2>1. /\ AppendLedger(e, "approval_requested", NoGraph) /\ Finish(w)
        /\ status' = [status EXCEPT ![e] = "waiting_approval"]
        /\ CanMove(status[e], "waiting_approval")
    BY <1>7 DEF CommitRequest
  <2>2. PICK b \in Approvals : approvals' = [approvals EXCEPT ![b] =
            [status |-> "pending", exec |-> e, requester |-> call[w].user, decider |-> "none"]]
    BY <1>7 DEF CommitRequest
  <2>3. status[e] \in {"running", "waiting_approval"}
    BY <1>3, <2>1 DEF CanMove, Transitions, Statuses, TerminalStatuses
  <2>4. Openings(e) # {} /\ Openings(e) \subseteq {1}
    BY <1>3, <2>3 DEF EntryStory
  <2>5. Openings(e)' = Openings(e)
    <3>1. \A types : EntriesOf(e, types)' =
            EntriesOf(e, types) \cup (IF "approval_requested" \in types THEN {Len(ledger[e]) + 1} ELSE {})
      BY <2>1, EntriesAfter
    <3>2. EntriesOf(e, {"request_opened"})' = EntriesOf(e, {"request_opened"}) \cup {}
      BY <3>1
    <3> QED
      BY <3>2 DEF Openings
  <2>6. status'[e] = "waiting_approval"
    BY <2>1 DEF TypeOK
  <2>7. EntryStory(e)'
    BY <2>4, <2>5, <2>6 DEF EntryStory, Absent
  <2>8. ASSUME NEW a \in Approvals, approvals'[a] # NoApproval
        PROVE  \/ approvals[a] # NoApproval /\ approvals'[a].exec = approvals[a].exec
               \/ approvals'[a].exec = e /\ Openings(e)' # {}
    BY <2>2, <2>4, <2>5, <2>8 DEF TypeOK
  <2>9. "waiting_approval" \notin {Absent, "created"}
    BY DEF Absent
  <2>10. \A x \in Executions \ {e} : ledger'[x] = ledger[x]
    BY <1>5, <2>1
  <2> QED
    BY <1>4, <2>1, <2>4, <2>5, <2>7, <2>8, <2>9, <2>10, StoryWrite
<1>8. CASE WriteResume(w)
  <2>1. /\ Finish(w) /\ UNCHANGED <<ledger, approvals>>
        /\ status' = [status EXCEPT ![e] = "running"]
    BY <1>8 DEF WriteResume
  <2>2. call[w].op = "decide" /\ call[w].approval \in Approvals
    BY <1>1, <1>8, StepCall, BusyCall DEF WriteResume
  <2>3. approvals[call[w].approval] # NoApproval /\ approvals[call[w].approval].exec = e
    BY <2>2 DEF TypeOK, AtItsStep
  <2>4. Openings(e) # {}
    BY <2>2, <2>3 DEF StoryInv, RowsOpened
  <2>5. \A types : EntriesOf(e, types)' = EntriesOf(e, types)
    BY <2>1 DEF EntriesOf
  <2>6. status'[e] = "running"
    BY <2>1 DEF TypeOK
  <2>7. EntryStory(e)'
    BY <1>3, <2>4, <2>5, <2>6 DEF EntryStory, Openings, Absent
  <2> QED
    BY <1>4, <2>1, <2>4, <2>5, <2>7, StoryWrite DEF Absent, Openings
<1>9. CASE Seal(w)
  <2>1. call[w].outcome \in Outcomes
    BY <1>1, <1>9, StepCall, BusyCall DEF Seal
  <2> PICK outcome \in Outcomes : outcome = call[w].outcome
    BY <2>1
  <2> DEFINE type == IF outcome = "completed" THEN "final" ELSE "failure"
             graph == GraphOf(SealedEvents(events[e], outcome, parent[w]), outcome)
  <2>2. /\ AppendLedger(e, type, graph) /\ Finish(w) /\ UNCHANGED approvals
        /\ status' = [status EXCEPT ![e] = outcome] /\ CanMove(status[e], outcome)
    BY <1>9 DEF Seal
  <2>3. type # "request_opened" /\ (type \in {"approval_requested", "final"} => outcome = "completed")
    OBVIOUS
  <2> HIDE DEF type, graph
  <2>4. /\ Openings(e)' = Openings(e)
        /\ outcome # "completed" =>
             EntriesOf(e, {"approval_requested", "final"})' = EntriesOf(e, {"approval_requested", "final"})
    <3>1. \A types : EntriesOf(e, types)' =
            EntriesOf(e, types) \cup (IF type \in types THEN {Len(ledger[e]) + 1} ELSE {})
      BY <2>2, EntriesAfter
    <3>2. EntriesOf(e, {"request_opened"})' = EntriesOf(e, {"request_opened"}) \cup {}
      BY <2>3, <3>1
    <3>3. outcome # "completed" =>
            EntriesOf(e, {"approval_requested", "final"})' =
              EntriesOf(e, {"approval_requested", "final"}) \cup {}
      BY <2>3, <3>1
    <3> QED
      BY <3>2, <3>3 DEF Openings
  <2>5. outcome = "completed" => Openings(e) # {}
    BY <1>3, <2>2 DEF EntryStory, CanMove, Transitions, Statuses, TerminalStatuses
  <2>6. status'[e] = outcome
    BY <2>2 DEF TypeOK
  <2>7. EntryStory(e)'
    BY <1>3, <2>4, <2>5, <2>6 DEF EntryStory, Outcomes, Absent
  <2> QED
    BY <1>4, <1>5, <2>2, <2>4, <2>7, StoryWrite DEF Absent, Outcomes
<1> QED
  BY <1>6, <1>7, <1>8, <1>9

\* A request that works on an execution goes on with it, or ends.
LEMMA WorkCall ==
  ASSUME TypeOK, NEW w \in Workers, RecordWork(w)
  PROVE  \/ call'[w] = NoCall
         \/ /\ call[w].op \in WorkOperations
            /\ call'[w].op = call[w].op /\ Exec(w)' = Exec(w)
<1>1. call[w] \in [op : WorkOperations, exec : Executions,
                   last : EXECUTION_EVENT_TYPES \cup {"start"}]
  BY StepCall, BusyCall DEF RecordWork
<1>2. \/ call'[w] = NoCall
      \/ \E type : call'[w] = [call[w] EXCEPT !.last = type]
  <2>1. DOMAIN call = Workers
    BY DEF TypeOK
  <2>2. \/ Finish(w)
        \/ \E type : call' = [call EXCEPT ![w].last = type]
    BY DEF RecordWork
  <2>3. CASE Finish(w)
    BY <2>1, <2>3 DEF Finish
  <2>4. CASE \E type : call' = [call EXCEPT ![w].last = type]
    BY <2>1, <2>4
  <2> QED
    BY <2>2, <2>3, <2>4
<1>3. CASE \E type : call'[w] = [call[w] EXCEPT !.last = type]
  <2> PICK type : call'[w] = [call[w] EXCEPT !.last = type]
    BY <1>3
  <2>1. call'[w].op = call[w].op /\ call'[w].exec = call[w].exec
    BY <1>1
  <2> QED
    BY <1>1, <2>1 DEF Exec
<1> QED
  BY <1>2, <1>3

\* The steps that only go on with their request.
LEMMA StoryMoves ==
  ASSUME TypeOK, StoryInv, NEW w \in Workers,
         \/ RecordCreated(w) \/ RecordAuthenticated(w) \/ ReadParent(w) \/ RecordWork(w)
         \/ DecideRow(w) \/ RecordDecision(w) \/ CheckResume(w) \/ Throw(w) \/ Die(w)
  PROVE  StoryInv'
<1>1. Others(w)
  BY RequestFrame DEF Step
<1>2. UNCHANGED <<status, ledger>>
  BY DEF RecordCreated, RecordAuthenticated, ReadParent, RecordWork, DecideRow, RecordDecision,
     CheckResume, Throw, Die, dbVars
<1>3. \A a \in Approvals : approvals'[a] # NoApproval =>
        approvals[a] # NoApproval /\ approvals'[a].exec = approvals[a].exec
  <2>1. CASE DecideRow(w)
    <3>1. call[w].approval \in Approvals /\ approvals[call[w].approval].status = "pending"
      BY <2>1, StepCall, BusyCall DEF DecideRow, Decidable
    <3> PICK b \in Approvals : b = call[w].approval
      BY <3>1
    <3>2. approvals' = [approvals EXCEPT ![b] =
            [approvals[b] EXCEPT !.status = Verdict(call[w].allow), !.decider = call[w].user]]
      BY <2>1 DEF DecideRow, TypeOK
    <3>3. approvals[b] # NoApproval /\ approvals[b] \in ApprovalRows
      BY <3>1 DEF NoApproval, TypeOK
    <3> QED
      BY <3>2, <3>3 DEF ApprovalRows, TypeOK
  <2>2. CASE ~DecideRow(w)
    BY <2>2 DEF RecordCreated, RecordAuthenticated, ReadParent, RecordWork, RecordDecision,
       CheckResume, Throw, Die, dbVars
  <2> QED
    BY <2>1, <2>2
<1>4. \/ call'[w].op = "none"
      \/ call'[w].op = call[w].op /\ Exec(w)' = Exec(w)
  <2>1. CASE RecordWork(w)
    BY <2>1, WorkCall DEF NoCall
  <2>2. CASE ~RecordWork(w)
    <3>1. call' = call \/ call'[w] = NoCall
      BY <2>2 DEF RecordCreated, RecordAuthenticated, ReadParent, DecideRow, RecordDecision,
         CheckResume, Throw, Die, Finish, TypeOK
    <3> QED
      BY <3>1 DEF NoCall, Exec
  <2> QED
    BY <2>1, <2>2
<1> QED
  BY <1>1, <1>2, <1>3, <1>4, StorySame

LEMMA AlwaysStory == Spec => []StoryInv
<1>1. Init => StoryInv
  BY DEF Init, StoryInv, EntryStory, RowsOpened, Opener, Openings, EntriesOf, NoCall, Absent
<1>2. ASSUME TypeOK, StoryInv, [Next]_vars PROVE StoryInv'
  <2>1. ASSUME NEW w \in Workers, Begin(w) \/ Step(w) \/ Die(w) PROVE StoryInv'
    BY <1>2, <2>1, StoryBegins, StoryWrites, StoryMoves DEF Step
  <2>2. CASE UNCHANGED vars
    BY <1>2, <2>2 DEF StoryInv, EntryStory, RowsOpened, Opener, Openings, EntriesOf, Exec, vars,
       dbVars, workerVars
  <2> QED
    BY <1>2, <2>1, <2>2 DEF Next
<1> QED
  BY <1>1, <1>2, ExecutionTypes, PTL DEF Spec

\* The ledger of every execution tells a lawful story: openGovernedExecution
\* writes request_opened once and before anything else, whatever requests
\* race it, die half way, or resume an execution late.
THEOREM StoriesAreLawful == Spec => []LedgerStory
<1>1. StoryInv => LedgerStory
  BY DEF StoryInv, EntryStory, Openings, LedgerStory
<1> QED
  BY <1>1, AlwaysStory, PTL

-----------------------------------------------------------------------------
(* The last seal stands *)

\* LastSealStands, of the status, the events and the entries of one execution.
Stands(st, es, ls) ==
  st \in TerminalStatuses =>
    \E k \in DOMAIN ls :
      /\ ls[k].type \in SealTypes
      /\ \A j \in DOMAIN ls : ls[j].type \in SealTypes => j <= k
      /\ ls[k].graph.status = st
      /\ \A i \in DOMAIN es : i > Len(ls[k].graph.events) => es[i].type \in LateTypes

AllStand == \A e \in Executions : Stands(status[e], events[e], ledger[e])

LEMMA StandsAll == AllStand <=> \A e \in Executions : LastSealStands(e)
<1>1. \A e \in Executions : LastSealStands(e) <=> Stands(status[e], events[e], ledger[e])
  BY DEF LastSealStands, Stands, SealEntries, EntriesOf, SealTypes
<1> QED
  BY <1>1 DEF AllStand

\* An event of a late type is appended.
LEMMA LateEvent ==
  ASSUME TypeOK, AllStand, NEW e \in Executions, NEW type \in LateTypes, NEW n, NEW about,
         Record(e, type, n, about), UNCHANGED <<status, ledger>>
  PROVE  AllStand'
<1> DEFINE event == Event(type, ParentSet(n), about)
<1>1. events[e] \in Seq(EventRecords) /\ Len(events[e]) \in Nat /\ DOMAIN events[e] = 1..Len(events[e])
  BY LenProperties DEF TypeOK
<1>2. event.type = type
  BY DEF Event
<1>3. /\ events'[e] = Append(events[e], event)
      /\ \A x \in Executions \ {e} : events'[x] = events[x]
  BY DEF Record, TypeOK
<1> HIDE DEF event
<1>4. \A i \in DOMAIN Append(events[e], event) :
        \/ i \in DOMAIN events[e] /\ Append(events[e], event)[i] = events[e][i]
        \/ Append(events[e], event)[i] = event
  BY <1>1
<1>5. Stands(status[e], events'[e], ledger[e])
  BY <1>2, <1>3, <1>4 DEF AllStand, Stands
<1> QED
  BY <1>3, <1>5 DEF AllStand

\* The status of an execution that is not, or no longer, terminal.
LEMMA NotTerminal ==
  ASSUME TypeOK, AllStand, NEW e \in Executions, status'[e] \notin TerminalStatuses,
         \A x \in Executions \ {e} :
           status'[x] = status[x] /\ events'[x] = events[x] /\ ledger'[x] = ledger[x]
  PROVE  AllStand'
BY DEF AllStand, Stands

LEMMA SealStands ==
  ASSUME TypeOK, AllStand, NEW w \in Workers, Seal(w)
  PROVE  AllStand'
<1>1. pc[w] # "idle" /\ call[w].outcome \in Outcomes
  BY StepCall, BusyCall DEF Seal
<1> PICK e \in Executions : e = Exec(w)
  BY <1>1, BusyCall
<1> PICK outcome \in Outcomes : outcome = call[w].outcome
  BY <1>1
<1> PICK ls \in Seq(Entries) : ls = ledger[e]
  BY DEF TypeOK, Entries
<1> DEFINE more == SealedEvents(events[e], outcome, parent[w])
           type == IF outcome = "completed" THEN "final" ELSE "failure"
           entry == LedgerEntry(type, GraphOf(more, outcome))
<1>2. /\ events' = [events EXCEPT ![e] = more]
      /\ ledger' = [ledger EXCEPT ![e] = Append(ls, entry)]
      /\ status' = [status EXCEPT ![e] = outcome]
  BY DEF Seal, AppendLedger, TypeOK
<1>3. entry.type \in SealTypes /\ entry.graph.status = outcome /\ entry.graph.events = more
  BY DEF LedgerEntry, GraphOf, SealTypes
<1>4. more \in Seq(EventRecords)
  <2>1. TypeOK'
    BY SealStep
  <2> QED
    BY <1>2, <2>1 DEF TypeOK
<1>5. DOMAIN more = 1..Len(more) /\ Len(more) \in Nat
  BY <1>4, LenProperties
<1> HIDE DEF more, entry
<1>6. /\ Len(ls) \in Nat /\ DOMAIN Append(ls, entry) = 1..(Len(ls) + 1)
      /\ Append(ls, entry)[Len(ls) + 1] = entry
  BY LenProperties
<1>7. Stands(outcome, more, Append(ls, entry))
  <2>1. Len(ls) + 1 \in DOMAIN Append(ls, entry)
    BY <1>6
  <2>2. \A j \in DOMAIN Append(ls, entry) : j <= Len(ls) + 1
    BY <1>6
  <2>3. \A i \in DOMAIN more : ~(i > Len(more))
    BY <1>5
  <2> QED
    BY <1>3, <1>6, <2>1, <2>2, <2>3 DEF Stands
<1> QED
  BY <1>2, <1>7 DEF AllStand, TypeOK

\* The steps of requests: the one that opens an execution finds it created,
\* and the one that asks for an approval leaves it waiting.
LEMMA StandsStep ==
  ASSUME TypeOK, StoryInv, AllStand, NEW w \in Workers, Step(w)
  PROVE  AllStand'
<1>1. pc[w] # "idle" => Exec(w) \in Executions
  BY BusyCall
<1>2. CASE RecordCreated(w) \/ RecordAuthenticated(w)
  <2> PICK e \in Executions : e = Exec(w)
    BY <1>1, <1>2 DEF RecordCreated, RecordAuthenticated
  <2>1. call[w].op = "open"
    BY <1>2, StepCall DEF RecordCreated, RecordAuthenticated
  <2>2. status'[e] = "created"
    BY <1>2, <2>1 DEF StoryInv, Opener, RecordCreated, RecordAuthenticated
  <2> QED
    BY <1>2, <2>2, NotTerminal
       DEF RecordCreated, RecordAuthenticated, Record, TypeOK, TerminalStatuses
<1>3. CASE AppendRequestOpened(w) \/ CommitRequest(w) \/ WriteResume(w)
  <2> PICK e \in Executions : e = Exec(w)
    BY <1>1, <1>3 DEF AppendRequestOpened, CommitRequest, WriteResume
  <2>1. status'[e] \in {"running", "waiting_approval"}
    BY <1>3 DEF AppendRequestOpened, CommitRequest, WriteResume, TypeOK
  <2>2. \A x \in Executions \ {e} :
          status'[x] = status[x] /\ events'[x] = events[x] /\ ledger'[x] = ledger[x]
    BY <1>3 DEF AppendRequestOpened, CommitRequest, WriteResume, Record, AppendLedger, TypeOK
  <2> QED
    BY <2>1, <2>2, NotTerminal DEF TerminalStatuses
<1>4. CASE RecordWork(w)
  <2> PICK e \in Executions : e = Exec(w)
    BY <1>1, <1>4 DEF RecordWork
  <2> PICK type \in Following(call[w].op, call[w].last) : Record(e, type, parent[w], "none")
    BY <1>4 DEF RecordWork
  <2>1. /\ call[w].op \in WorkOperations
        /\ call[w].last \in EXECUTION_EVENT_TYPES \cup {"start"}
    BY <1>4, StepCall, BusyCall DEF RecordWork
  <2>2. type \in LateTypes
    BY <2>1 DEF LateTypes
  <2> QED
    BY <1>4, <2>2, LateEvent DEF RecordWork
<1>5. CASE RecordDecision(w)
  <2> PICK e \in Executions : e = Exec(w)
    BY <1>1, <1>5 DEF RecordDecision
  <2> PICK type \in {"approval.approved", "approval.rejected"} :
        Record(e, type, parent[w], call[w].approval)
    BY <1>5 DEF RecordDecision
  <2>1. type \in LateTypes
    BY DEF LateTypes
  <2> QED
    BY <1>5, <2>1, LateEvent DEF RecordDecision
<1>6. CASE ReadParent(w) \/ DecideRow(w) \/ CheckResume(w) \/ Throw(w)
  BY <1>6 DEF ReadParent, DecideRow, CheckResume, Throw, dbVars, AllStand
<1> QED
  BY <1>2, <1>3, <1>4, <1>5, <1>6, SealStands DEF Step

\* sealExecution is atomic and its evidence stays: each sealing entry of the
\* ledger commits to a prefix of the execution's events that ends in the
\* event of its transaction, each such event has its entry, and the last one
\* of a terminal execution says how it ended and misses only late events,
\* whatever is appended before, between and after.
THEOREM SealsAlwaysMatch == Spec => []SealsMatchEvents
<1>1. Init => AllStand
  BY DEF Init, AllStand, Stands, TerminalStatuses, Absent
<1>2. ASSUME TypeOK, StoryInv, AllStand, [Next]_vars PROVE AllStand'
  <2>1. ASSUME NEW w \in Workers, NEW e \in Executions, OpenExecution(w, e) PROVE AllStand'
    <3>1. status'[e] = "created" /\ \A x \in Executions \ {e} : status'[x] = status[x]
      BY <1>2, <2>1 DEF OpenExecution, TypeOK
    <3> QED
      BY <1>2, <2>1, <3>1, NotTerminal DEF OpenExecution, TerminalStatuses
  <2>2. ASSUME UNCHANGED <<status, events, ledger>> PROVE AllStand'
    BY <1>2, <2>2 DEF AllStand
  <2>3. ASSUME NEW w \in Workers, Begin(w) PROVE AllStand'
    BY <2>1, <2>2, <2>3 DEF Begin, BeginWork, BeginRequest, BeginDecide, BeginFinalize, dbVars
  <2>4. ASSUME NEW w \in Workers, Die(w) PROVE AllStand'
    BY <2>2, <2>4 DEF Die, dbVars
  <2>5. CASE UNCHANGED vars
    BY <2>2, <2>5 DEF vars, dbVars
  <2> QED
    BY <1>2, <2>3, <2>4, <2>5, StandsStep DEF Next
<1>3. AllPaired /\ AllStand => SealsMatchEvents
  BY StandsAll DEF AllPaired, SealsMatchEvents
<1> QED
  BY <1>1, <1>2, <1>3, ExecutionTypes, AlwaysStory, AlwaysPaired, PTL DEF Spec

-----------------------------------------------------------------------------
(* Approvals and the evidence about them *)

Requested == {"approval.requested"}
Approved == {"approval.approved"}
Rejected == {"approval.rejected"}
Decided == Approved \cup Rejected
ApprovalTypes == Requested \cup Decided

About(e, a, types) == {i \in EventsOf(e, types) : events[e][i].about = a}

\* The events about an approval, after one is appended.
LEMMA AboutAfter ==
  ASSUME TypeOK, NEW e \in Executions, NEW type, NEW n, NEW about, Record(e, type, n, about),
         NEW x \in Executions, NEW a, NEW types
  PROVE  About(x, a, types)' =
           About(x, a, types) \cup
             (IF x = e /\ a = about /\ type \in types THEN {Len(events[e]) + 1} ELSE {})
<1> DEFINE n1 == Len(events[e])
           event == Event(type, ParentSet(n), about)
<1>1. CASE x # e
  BY <1>1 DEF Record, About, EventsOf, TypeOK
<1>2. CASE x = e
  <2>1. events[e] \in Seq(EventRecords) /\ n1 \in Nat /\ DOMAIN events[e] = 1..n1
    BY LenProperties DEF TypeOK
  <2>2. events'[e] = Append(events[e], event)
    BY DEF Record, TypeOK
  <2> HIDE DEF n1, event
  <2>3. events'[e] = [i \in 1..(n1 + 1) |-> IF i = n1 + 1 THEN event ELSE events[e][i]]
    BY <2>1, <2>2 DEF n1
  <2>4. 1..(n1 + 1) = 1..n1 \cup {n1 + 1} /\ n1 + 1 \notin 1..n1
    BY <2>1
  <2>5. event.type = type /\ event.about = about
    BY DEF event, Event
  <2> QED
    BY <1>2, <2>1, <2>3, <2>4, <2>5 DEF About, EventsOf, n1
<1> QED
  BY <1>1, <1>2

\* The events of a seal are about no approval.
LEMMA SealTypesApart ==
  ASSUME NEW outcome \in Outcomes
  PROVE  LET chain == Append(Prelude(outcome), "audit.checkpoint.sealed")
         IN  \A i \in 1..Len(chain) : chain[i] \notin ApprovalTypes
<1> DEFINE prelude == Prelude(outcome)
           S == EXECUTION_EVENT_TYPES
<1>1. /\ prelude \in Seq(S) /\ Len(prelude) \in Nat
      /\ \A i \in 1..Len(prelude) : prelude[i] \notin ApprovalTypes
  <2>1. CASE outcome = "completed"
    <3> DEFINE t == <<"validation.started", "validation.passed", "execution.completed",
                      "release.started", "release.completed">>
    <3>1. t \in Seq(S)
      BY TupleTypes DEF EXECUTION_EVENT_TYPES
    <3>2. Len(t) = 5 /\ \A i \in 1..5 : t[i] \notin ApprovalTypes
      BY DEF ApprovalTypes, Requested, Decided, Approved, Rejected
    <3>3. prelude = t
      BY <2>1 DEF Prelude
    <3> QED
      BY <3>1, <3>2, <3>3
  <2>2. CASE outcome # "completed"
    <3> DEFINE third == IF outcome = "blocked" THEN "execution.blocked" ELSE "execution.failed"
               t == <<"validation.started", "validation.failed", third, "release.blocked">>
    <3>1. third \in S /\ third \notin ApprovalTypes
      BY DEF EXECUTION_EVENT_TYPES, ApprovalTypes, Requested, Decided, Approved, Rejected
    <3>2. prelude = t
      BY <2>2 DEF Prelude
    <3> HIDE DEF third
    <3>3. t \in Seq(S)
      BY <3>1, TupleTypes DEF EXECUTION_EVENT_TYPES
    <3>4. Len(t) = 4 /\ \A i \in 1..4 : t[i] \notin ApprovalTypes
      BY <3>1 DEF ApprovalTypes, Requested, Decided, Approved, Rejected
    <3> QED
      BY <3>2, <3>3, <3>4
  <2> QED
    BY <2>1, <2>2
<1> HIDE DEF prelude
<1> DEFINE chain == Append(prelude, "audit.checkpoint.sealed")
<1>2. /\ Len(chain) = Len(prelude) + 1
      /\ \A i \in 1..Len(prelude) : chain[i] = prelude[i]
      /\ chain[Len(prelude) + 1] = "audit.checkpoint.sealed"
  BY <1>1, SealType, AppendProperties
<1> HIDE DEF chain
<1>3. "audit.checkpoint.sealed" \notin ApprovalTypes
  BY DEF ApprovalTypes, Requested, Decided, Approved, Rejected
<1>4. \A i \in 1..Len(chain) : chain[i] \notin ApprovalTypes
  BY <1>1, <1>2, <1>3
<1> QED
  BY <1>4 DEF chain, prelude

LEMMA SealAbout ==
  ASSUME TypeOK, NEW w \in Workers, Seal(w), NEW x \in Executions, NEW a,
         NEW types \in SUBSET ApprovalTypes
  PROVE  About(x, a, types)' = About(x, a, types)
<1>1. pc[w] # "idle" /\ call[w].outcome \in Outcomes
  BY StepCall, BusyCall DEF Seal
<1> PICK e \in Executions : e = Exec(w)
  BY <1>1, BusyCall
<1> PICK outcome \in Outcomes : outcome = call[w].outcome
  BY <1>1
<1> PICK n \in Nat : n = parent[w]
  BY DEF TypeOK
<1> PICK es \in Seq(EventRecords) : es = events[e]
  BY DEF TypeOK
<1> DEFINE chain == Append(Prelude(outcome), "audit.checkpoint.sealed")
           more == Chained(es, chain, n)
<1>2. events' = [events EXCEPT ![e] = more]
  BY DEF Seal, SealedEvents, TypeOK
<1>3. n <= Len(es) /\ \A i \in DOMAIN es : es[i].parents \subseteq 1..(i - 1)
  BY <1>1, StepCall DEF TypeOK, GraphBuildable
<1>4. /\ chain \in Seq(EXECUTION_EVENT_TYPES) /\ Len(chain) \in Nat
      /\ \A i \in 1..Len(chain) : chain[i] \notin ApprovalTypes
  BY PreludeTypes, SealTypesApart, LenProperties
<1> HIDE DEF chain
<1>5. /\ more \in Seq(EventRecords) /\ Len(more) = Len(es) + Len(chain)
      /\ \A i \in 1..Len(es) : more[i] = es[i]
      /\ \A i \in 1..Len(chain) : more[Len(es) + i].type = chain[i]
  <2>1. chain \in Seq(EXECUTION_EVENT_TYPES)
    BY <1>4
  <2> QED
    BY <1>3, <2>1, ChainedTypes
<1> HIDE DEF more
<1>6. Len(es) \in Nat /\ DOMAIN es = 1..Len(es) /\ DOMAIN more = 1..Len(more)
  BY <1>5, LenProperties
<1>7. ASSUME NEW i \in DOMAIN more, more[i].type \in types
      PROVE  i \in DOMAIN es /\ more[i] = es[i]
  <2>1. CASE i \in 1..Len(es)
    BY <1>5, <1>6, <2>1
  <2>2. CASE i \notin 1..Len(es)
    <3> DEFINE j == i - Len(es)
    <3>1. j \in 1..Len(chain) /\ Len(es) + j = i
      BY <1>4, <1>5, <1>6, <1>7, <2>2
    <3> HIDE DEF j
    <3> QED
      BY <1>4, <1>5, <1>7, <3>1
  <2> QED
    BY <2>1, <2>2
<1>8. ASSUME NEW i \in DOMAIN es PROVE i \in DOMAIN more /\ more[i] = es[i]
  BY <1>4, <1>5, <1>6
<1>9. CASE x = e
  BY <1>2, <1>7, <1>8, <1>9 DEF About, EventsOf, TypeOK
<1>10. CASE x # e
  BY <1>2, <1>10 DEF About, EventsOf, TypeOK
<1> QED
  BY <1>9, <1>10

\* Only a request for approval and a decision write about one.
LEMMA OtherwiseAbout ==
  ASSUME TypeOK, NEW w \in Workers, Begin(w) \/ Step(w) \/ Die(w),
         ~CommitRequest(w), ~RecordDecision(w), NEW x \in Executions, NEW a,
         NEW types \in SUBSET ApprovalTypes
  PROVE  About(x, a, types)' = About(x, a, types)
<1>1. ASSUME NEW e, NEW type \in EXECUTION_EVENT_TYPES \ ApprovalTypes, NEW n, NEW about,
             e \in Executions, Record(e, type, n, about)
      PROVE  About(x, a, types)' = About(x, a, types)
  <2>1. About(x, a, types)' =
          About(x, a, types) \cup
            (IF x = e /\ a = about /\ type \in types THEN {Len(events[e]) + 1} ELSE {})
    BY <1>1, AboutAfter
  <2>2. ~(x = e /\ a = about /\ type \in types)
    BY <1>1
  <2> QED
    BY <2>1, <2>2
<1>2. ASSUME UNCHANGED events PROVE About(x, a, types)' = About(x, a, types)
  BY <1>2 DEF About, EventsOf
<1>3. CASE Begin(w)
  BY <1>2, <1>3 DEF Begin, OpenExecution, BeginWork, BeginRequest, BeginDecide, BeginFinalize,
     dbVars
<1>4. CASE RecordCreated(w)
  <2>1. "execution.created" \in EXECUTION_EVENT_TYPES \ ApprovalTypes
    BY DEF EXECUTION_EVENT_TYPES, ApprovalTypes, Requested, Decided, Approved, Rejected
  <2>2. Exec(w) \in Executions /\ Record(Exec(w), "execution.created", 0, "none")
    BY <1>4, BusyCall DEF RecordCreated
  <2> QED
    BY <1>1, <2>1, <2>2
<1>5. CASE RecordAuthenticated(w)
  <2>1. "identity.authenticated" \in EXECUTION_EVENT_TYPES \ ApprovalTypes
    BY DEF EXECUTION_EVENT_TYPES, ApprovalTypes, Requested, Decided, Approved, Rejected
  <2>2. Exec(w) \in Executions /\ Record(Exec(w), "identity.authenticated", parent[w], "none")
    BY <1>5, BusyCall DEF RecordAuthenticated
  <2> QED
    BY <1>1, <2>1, <2>2
<1>6. CASE RecordWork(w)
  <2>1. Exec(w) \in Executions /\ call[w].op \in WorkOperations
    BY <1>6, BusyCall, StepCall DEF RecordWork
  <2> PICK type \in Following(call[w].op, call[w].last) : Record(Exec(w), type, parent[w], "none")
    BY <1>6 DEF RecordWork
  <2>2. type \in EXECUTION_EVENT_TYPES
    BY <2>1, CallNames
  <2>3. type \notin ApprovalTypes
    BY <2>1 DEF Following, SkillFollows, RetrieveFollows, AuthorizeModelFollows,
                ExecuteModelFollows, WorkOperations, ApprovalTypes, Requested, Decided, Approved,
                Rejected
  <2> QED
    BY <1>1, <2>1, <2>2, <2>3
<1>7. CASE Seal(w)
  BY <1>7, SealAbout
<1>8. CASE AppendRequestOpened(w) \/ ReadParent(w) \/ DecideRow(w) \/ CheckResume(w)
           \/ WriteResume(w) \/ Throw(w) \/ Die(w)
  BY <1>2, <1>8 DEF AppendRequestOpened, ReadParent, DecideRow, CheckResume, WriteResume, Throw,
     Die, dbVars
<1> QED
  BY <1>3, <1>4, <1>5, <1>6, <1>7, <1>8 DEF Step

\* w has decided a, and has not written the event that says so.
Deciding(w, a) ==
  /\ call[w].op = "decide" /\ call[w].approval = a
  /\ pc[w] \in {"read_parent", "record_decision"}

Unspoken(e, a) ==
  About(e, a, Decided) = {} /\ About(e, a, Approved) = {} /\ About(e, a, Rejected) = {}

\* What the events of e say about a.
Told(e, a) ==
  IF approvals[a] # NoApproval /\ approvals[a].exec = e
    THEN /\ \E i : About(e, a, Requested) = {i}
         /\ Unspoken(e, a) \/ \E i : About(e, a, Decided) = {i}
         /\ approvals[a].status = "pending" => Unspoken(e, a)
         /\ About(e, a, Approved) # {} => approvals[a].status = "approved"
         /\ About(e, a, Rejected) # {} => approvals[a].status = "denied"
    ELSE About(e, a, Requested) = {} /\ Unspoken(e, a)

EvidenceInv ==
  /\ \A e \in Executions, a \in Approvals : Told(e, a)
  /\ \A w \in Workers, a \in Approvals : Deciding(w, a) =>
       /\ approvals[a].status = Verdict(call[w].allow)
       /\ \A e \in Executions : Unspoken(e, a)
       /\ \A v \in Workers : Deciding(v, a) => v = w

LEMMA DecidingRow ==
  ASSUME TypeOK, NEW w \in Workers, NEW a \in Approvals, Deciding(w, a)
  PROVE  approvals[a] # NoApproval /\ approvals[a].exec = Exec(w)
BY DEF TypeOK, AtItsStep, Deciding

\* Steps that decide nothing and write about no approval.
LEMMA EvidenceSame ==
  ASSUME TypeOK, EvidenceInv, NEW w \in Workers, Others(w), UNCHANGED approvals,
         \A e \in Executions, a \in Approvals : \A types \in SUBSET ApprovalTypes :
           About(e, a, types)' = About(e, a, types),
         \A a \in Approvals : Deciding(w, a)' => Deciding(w, a) /\ call'[w] = call[w]
  PROVE  EvidenceInv'
<1>1. \A e \in Executions, a \in Approvals :
        /\ About(e, a, Requested)' = About(e, a, Requested)
        /\ About(e, a, Decided)' = About(e, a, Decided)
        /\ About(e, a, Approved)' = About(e, a, Approved)
        /\ About(e, a, Rejected)' = About(e, a, Rejected)
  <2>1. /\ Requested \in SUBSET ApprovalTypes /\ Decided \in SUBSET ApprovalTypes
        /\ Approved \in SUBSET ApprovalTypes /\ Rejected \in SUBSET ApprovalTypes
    BY DEF ApprovalTypes, Decided
  <2> QED
    BY <2>1
<1>2. \A e \in Executions, a \in Approvals : Unspoken(e, a)' <=> Unspoken(e, a)
  BY <1>1 DEF Unspoken
<1>3. ASSUME NEW e \in Executions, NEW a \in Approvals PROVE Told(e, a)'
  <2>1. approvals'[a] = approvals[a] /\ Told(e, a)
    BY DEF EvidenceInv
  <2> QED
    BY <1>1, <1>2, <2>1 DEF Told
<1>4. \A v \in Workers, a \in Approvals :
        Deciding(v, a)' => Deciding(v, a) /\ call'[v] = call[v]
  <2>1. \A v \in Workers \ {w}, a \in Approvals :
          Deciding(v, a)' => Deciding(v, a) /\ call'[v] = call[v]
    BY DEF Others, Deciding
  <2> QED
    BY <2>1
<1>5. ASSUME NEW v \in Workers, NEW a \in Approvals, Deciding(v, a)'
      PROVE  /\ approvals'[a].status = Verdict(call'[v].allow)
             /\ \A e \in Executions : Unspoken(e, a)'
             /\ \A u \in Workers : Deciding(u, a)' => u = v
  BY <1>2, <1>4, <1>5 DEF EvidenceInv
<1> QED
  BY <1>3, <1>5 DEF EvidenceInv

LEMMA EvidenceRequested ==
  ASSUME TypeOK, EvidenceInv, NEW w \in Workers, CommitRequest(w)
  PROVE  EvidenceInv'
<1>1. pc[w] # "idle"
  BY DEF CommitRequest
<1> PICK e \in Executions : e = Exec(w)
  BY <1>1, BusyCall
<1> PICK b \in Approvals :
      /\ approvals[b] = NoApproval
      /\ approvals' = [approvals EXCEPT ![b] =
           [status |-> "pending", exec |-> e, requester |-> call[w].user, decider |-> "none"]]
      /\ Record(e, "approval.requested", parent[w], b)
  BY DEF CommitRequest
<1> DEFINE n == Len(events[e]) + 1
<1>2. /\ approvals'[b] # NoApproval /\ approvals'[b].exec = e /\ approvals'[b].status = "pending"
      /\ \A a \in Approvals \ {b} : approvals'[a] = approvals[a]
  BY DEF TypeOK, NoApproval
<1>3. \A x \in Executions, a \in Approvals : \A types :
        About(x, a, types)' = About(x, a, types) \cup
          (IF x = e /\ a = b /\ "approval.requested" \in types THEN {n} ELSE {})
  BY AboutAfter
<1> HIDE DEF n
<1>4. ASSUME NEW x \in Executions, NEW a \in Approvals
      PROVE  /\ About(x, a, Decided)' = About(x, a, Decided)
             /\ About(x, a, Approved)' = About(x, a, Approved)
             /\ About(x, a, Rejected)' = About(x, a, Rejected)
             /\ ~(x = e /\ a = b) => About(x, a, Requested)' = About(x, a, Requested)
             /\ x = e /\ a = b => About(x, a, Requested)' = About(x, a, Requested) \cup {n}
  <2>1. /\ "approval.requested" \notin Decided /\ "approval.requested" \notin Approved
        /\ "approval.requested" \notin Rejected /\ "approval.requested" \in Requested
    BY DEF Decided, Approved, Rejected, Requested
  <2>2. /\ About(x, a, Decided)' = About(x, a, Decided) \cup {}
        /\ About(x, a, Approved)' = About(x, a, Approved) \cup {}
        /\ About(x, a, Rejected)' = About(x, a, Rejected) \cup {}
    BY <1>3, <2>1
  <2>3. ~(x = e /\ a = b) => About(x, a, Requested)' = About(x, a, Requested) \cup {}
    BY <1>3
  <2>4. x = e /\ a = b => About(x, a, Requested)' = About(x, a, Requested) \cup {n}
    BY <1>3, <2>1
  <2> QED
    BY <2>2, <2>3, <2>4
<1>5. \A x \in Executions, a \in Approvals : Unspoken(x, a)' <=> Unspoken(x, a)
  BY <1>4 DEF Unspoken
<1>6. ASSUME NEW x \in Executions, NEW a \in Approvals PROVE Told(x, a)'
  <2>1. CASE a # b
    <3>1. approvals'[a] = approvals[a] /\ Told(x, a)
      BY <1>2, <2>1 DEF EvidenceInv
    <3>2. /\ About(x, a, Requested)' = About(x, a, Requested)
          /\ About(x, a, Decided)' = About(x, a, Decided)
          /\ About(x, a, Approved)' = About(x, a, Approved)
          /\ About(x, a, Rejected)' = About(x, a, Rejected)
      BY <1>4, <2>1
    <3> QED
      BY <1>5, <3>1, <3>2 DEF Told
  <2>2. CASE a = b
    <3>1. About(x, a, Requested) = {} /\ Unspoken(x, a)
      BY <2>2 DEF EvidenceInv, Told
    <3>2. Unspoken(x, a)'
      BY <1>5, <3>1
    <3>3. CASE x = e
      <4>1. About(x, a, Requested)' = {n}
        BY <1>4, <2>2, <3>1, <3>3
      <4>2. About(x, a, Approved)' = {} /\ About(x, a, Rejected)' = {}
        BY <3>2 DEF Unspoken
      <4> QED
        BY <1>2, <2>2, <3>2, <3>3, <4>1, <4>2 DEF Told
    <3>4. CASE x # e
      <4>1. About(x, a, Requested)' = {}
        BY <1>4, <3>1, <3>4
      <4> QED
        BY <1>2, <2>2, <3>2, <3>4, <4>1 DEF Told
    <3> QED
      BY <3>3, <3>4
  <2> QED
    BY <2>1, <2>2
<1>7. \A v \in Workers, a \in Approvals :
        Deciding(v, a)' => Deciding(v, a) /\ call'[v] = call[v] /\ a # b
  <2> SUFFICES ASSUME NEW v \in Workers, NEW a \in Approvals, Deciding(v, a)'
               PROVE  Deciding(v, a) /\ call'[v] = call[v] /\ a # b
    OBVIOUS
  <2>1. call'[w] = NoCall
    BY DEF CommitRequest, Finish, TypeOK
  <2>2. v # w
    BY <2>1 DEF Deciding, NoCall
  <2>3. Deciding(v, a) /\ call'[v] = call[v]
    BY <2>2, OthersKept DEF CommitRequest, Others, Deciding
  <2> QED
    BY <2>3, DecidingRow
<1>8. ASSUME NEW v \in Workers, NEW a \in Approvals, Deciding(v, a)'
      PROVE  /\ approvals'[a].status = Verdict(call'[v].allow)
             /\ \A x \in Executions : Unspoken(x, a)'
             /\ \A u \in Workers : Deciding(u, a)' => u = v
  BY <1>2, <1>5, <1>7, <1>8 DEF EvidenceInv
<1> QED
  BY <1>6, <1>8 DEF EvidenceInv

LEMMA EvidenceDecided ==
  ASSUME TypeOK, EvidenceInv, NEW w \in Workers, DecideRow(w)
  PROVE  EvidenceInv'
<1>1. pc[w] = "decide" /\ call[w].op \in {"decide", "decide_only"} /\ Others(w)
  BY StepCall, RequestFrame DEF DecideRow, Step
<1>2. call[w].approval \in Approvals /\ call[w].allow \in BOOLEAN
  BY <1>1, BusyCall
<1> PICK b \in Approvals : b = call[w].approval
  BY <1>2
<1>3. approvals[b].status = "pending" /\ approvals[b] # NoApproval /\ approvals[b] \in ApprovalRows
  BY DEF DecideRow, Decidable, NoApproval, TypeOK
<1>4. approvals' = [approvals EXCEPT ![b] =
        [approvals[b] EXCEPT !.status = Verdict(call[w].allow), !.decider = call[w].user]]
  BY DEF DecideRow, TypeOK
<1>5. /\ approvals'[b] # NoApproval /\ approvals'[b].exec = approvals[b].exec
      /\ approvals'[b].status = Verdict(call[w].allow)
      /\ \A a \in Approvals \ {b} : approvals'[a] = approvals[a]
  BY <1>3, <1>4 DEF ApprovalRows, NoApproval, TypeOK
<1>6. Verdict(call[w].allow) \in {"approved", "denied"}
  BY DEF Verdict
<1>7. \A e, a, types : About(e, a, types)' = About(e, a, types)
  BY DEF DecideRow, About, EventsOf
<1>8. \A e \in Executions, a \in Approvals : Unspoken(e, a)' <=> Unspoken(e, a)
  BY <1>7 DEF Unspoken
<1>9. ASSUME NEW e \in Executions, NEW a \in Approvals PROVE Told(e, a)'
  <2>1. Told(e, a)
    BY DEF EvidenceInv
  <2>2. /\ About(e, a, Requested)' = About(e, a, Requested)
        /\ About(e, a, Decided)' = About(e, a, Decided)
        /\ About(e, a, Approved)' = About(e, a, Approved)
        /\ About(e, a, Rejected)' = About(e, a, Rejected)
    BY <1>7
  <2>3. CASE a # b
    BY <1>5, <1>8, <2>1, <2>2, <2>3 DEF Told
  <2>4. CASE a = b /\ approvals[b].exec # e
    BY <1>3, <1>5, <1>8, <2>1, <2>2, <2>4 DEF Told
  <2>5. CASE a = b /\ approvals[b].exec = e
    <3>1. Unspoken(e, a) /\ \E i : About(e, a, Requested) = {i}
      BY <1>3, <2>1, <2>5 DEF Told
    <3>2. Unspoken(e, a)'
      BY <1>8, <3>1
    <3>3. About(e, a, Approved)' = {} /\ About(e, a, Rejected)' = {}
      BY <3>2 DEF Unspoken
    <3> QED
      BY <1>5, <2>2, <2>5, <3>1, <3>2, <3>3 DEF Told
  <2> QED
    BY <2>3, <2>4, <2>5
<1>10. \A v \in Workers : ~Deciding(v, b)
  <2>1. \A v \in Workers : Deciding(v, b) => approvals[b].status = Verdict(call[v].allow)
    BY DEF EvidenceInv
  <2> QED
    BY <1>3, <2>1 DEF Verdict
<1>11. \A v \in Workers \ {w}, a \in Approvals :
         Deciding(v, a)' => Deciding(v, a) /\ call'[v] = call[v]
  BY <1>1 DEF Others, Deciding
<1>12. \A a \in Approvals : Deciding(w, a)' => a = b /\ call'[w] = call[w]
  BY DEF DecideRow, Finish, NoCall, Deciding, TypeOK
<1>13. \A e \in Executions : Unspoken(e, b)
  <2> SUFFICES ASSUME NEW e \in Executions PROVE Unspoken(e, b)
    OBVIOUS
  <2>1. Told(e, b)
    BY DEF EvidenceInv
  <2> QED
    BY <1>3, <2>1 DEF Told
<1>14. ASSUME NEW v \in Workers, NEW a \in Approvals, Deciding(v, a)'
      PROVE  /\ approvals'[a].status = Verdict(call'[v].allow)
             /\ \A e \in Executions : Unspoken(e, a)'
             /\ \A u \in Workers : Deciding(u, a)' => u = v
  <2>1. CASE v = w
    <3>1. a = b /\ call'[v] = call[w]
      BY <1>12, <1>14, <2>1
    <3>2. \A u \in Workers : Deciding(u, a)' => u = v
      BY <1>10, <1>11, <2>1, <3>1
    <3> QED
      BY <1>5, <1>8, <1>13, <3>1, <3>2
  <2>2. CASE v # w
    <3>1. Deciding(v, a) /\ call'[v] = call[v]
      BY <1>11, <1>14, <2>2
    <3>2. a # b
      BY <1>10, <3>1
    <3>3. \A u \in Workers : Deciding(u, a)' => Deciding(u, a)
      BY <1>11, <1>12, <3>2
    <3> QED
      BY <1>5, <1>8, <3>1, <3>2, <3>3 DEF EvidenceInv
  <2> QED
    BY <2>1, <2>2
<1> QED
  BY <1>9, <1>14 DEF EvidenceInv

LEMMA EvidenceRecorded ==
  ASSUME TypeOK, EvidenceInv, NEW w \in Workers, RecordDecision(w)
  PROVE  EvidenceInv'
<1>1. /\ pc[w] = "record_decision" /\ call[w].op = "decide"
      /\ Others(w) /\ UNCHANGED approvals
  BY StepCall, RequestFrame DEF RecordDecision, Step
<1>2. call[w].approval \in Approvals /\ call[w].allow \in BOOLEAN
  BY <1>1, BusyCall
<1> PICK b \in Approvals : b = call[w].approval
  BY <1>2
<1> PICK e \in Executions : e = Exec(w)
  BY <1>1, BusyCall
<1> DEFINE n == Len(events[e]) + 1
           type == IF call[w].allow THEN "approval.approved" ELSE "approval.rejected"
<1>3. Deciding(w, b)
  BY <1>1 DEF Deciding
<1>4. approvals[b] # NoApproval /\ approvals[b].exec = e
  BY <1>3, DecidingRow
<1>5. /\ approvals[b].status = Verdict(call[w].allow)
      /\ \A x \in Executions : Unspoken(x, b)
      /\ \A v \in Workers : Deciding(v, b) => v = w
  BY <1>3 DEF EvidenceInv
<1>6. \A x \in Executions, a \in Approvals : \A types :
        About(x, a, types)' = About(x, a, types) \cup
          (IF x = e /\ a = b /\ type \in types THEN {n} ELSE {})
  <2>1. Record(e, type, parent[w], b)
    BY DEF RecordDecision
  <2> HIDE DEF type
  <2> QED
    BY <2>1, AboutAfter
<1>7. /\ type \in Decided /\ type \notin Requested
      /\ type \in Approved <=> call[w].allow
      /\ type \in Rejected <=> ~call[w].allow
  BY <1>2 DEF Decided, Approved, Rejected, Requested
<1>8. /\ call[w].allow => approvals[b].status = "approved"
      /\ ~call[w].allow => approvals[b].status = "denied"
      /\ approvals[b].status # "pending"
  BY <1>2, <1>5 DEF Verdict
<1> HIDE DEF n, type
<1>9. ASSUME NEW x \in Executions, NEW a \in Approvals, ~(x = e /\ a = b)
      PROVE  /\ About(x, a, Requested)' = About(x, a, Requested)
             /\ About(x, a, Decided)' = About(x, a, Decided)
             /\ About(x, a, Approved)' = About(x, a, Approved)
             /\ About(x, a, Rejected)' = About(x, a, Rejected)
  <2>1. /\ About(x, a, Requested)' = About(x, a, Requested) \cup {}
        /\ About(x, a, Decided)' = About(x, a, Decided) \cup {}
        /\ About(x, a, Approved)' = About(x, a, Approved) \cup {}
        /\ About(x, a, Rejected)' = About(x, a, Rejected) \cup {}
    BY <1>6, <1>9
  <2> QED
    BY <2>1
<1>10. /\ About(e, b, Requested)' = About(e, b, Requested) \cup {}
       /\ About(e, b, Decided)' = {} \cup {n}
       /\ ~call[w].allow => About(e, b, Approved)' = {} \cup {}
       /\ call[w].allow => About(e, b, Rejected)' = {} \cup {}
  <2>1. About(e, b, Decided) = {} /\ About(e, b, Approved) = {} /\ About(e, b, Rejected) = {}
    BY <1>5 DEF Unspoken
  <2>2. About(e, b, Requested)' = About(e, b, Requested) \cup {}
    BY <1>6, <1>7
  <2>3. About(e, b, Decided)' = About(e, b, Decided) \cup {n}
    BY <1>6, <1>7
  <2>4. ~call[w].allow => About(e, b, Approved)' = About(e, b, Approved) \cup {}
    BY <1>6, <1>7
  <2>5. call[w].allow => About(e, b, Rejected)' = About(e, b, Rejected) \cup {}
    BY <1>6, <1>7
  <2> QED
    BY <2>1, <2>2, <2>3, <2>4, <2>5
<1>11. ASSUME NEW x \in Executions, NEW a \in Approvals PROVE Told(x, a)'
  <2>1. Told(x, a) /\ approvals'[a] = approvals[a]
    BY <1>1 DEF EvidenceInv
  <2>2. CASE ~(x = e /\ a = b)
    <3>1. Unspoken(x, a)' <=> Unspoken(x, a)
      BY <1>9, <2>2 DEF Unspoken
    <3> QED
      BY <1>9, <2>1, <2>2, <3>1 DEF Told
  <2>3. CASE x = e /\ a = b
    <3>1. \E i : About(x, a, Requested)' = {i}
      BY <1>4, <1>10, <2>1, <2>3 DEF Told
    <3>2. About(x, a, Decided)' = {n}
      BY <1>10, <2>3
    <3>3. /\ About(x, a, Approved)' # {} => approvals'[a].status = "approved"
          /\ About(x, a, Rejected)' # {} => approvals'[a].status = "denied"
      BY <1>2, <1>8, <1>10, <2>1, <2>3
    <3> QED
      BY <1>4, <1>8, <2>1, <2>3, <3>1, <3>2, <3>3 DEF Told
  <2> QED
    BY <2>2, <2>3
<1>12. \A a \in Approvals : ~Deciding(w, a)'
  <2>1. pc'[w] \in {"resume_check", "idle"}
    BY DEF RecordDecision, Goto, Finish, TypeOK
  <2> QED
    BY <2>1 DEF Deciding
<1>13. \A v \in Workers, a \in Approvals :
         Deciding(v, a)' => v # w /\ Deciding(v, a) /\ call'[v] = call[v]
  <2>1. \A v \in Workers \ {w}, a \in Approvals :
          Deciding(v, a)' => Deciding(v, a) /\ call'[v] = call[v]
    BY <1>1 DEF Others, Deciding
  <2> QED
    BY <1>12, <2>1
<1>14. ASSUME NEW v \in Workers, NEW a \in Approvals, Deciding(v, a)'
      PROVE  /\ approvals'[a].status = Verdict(call'[v].allow)
             /\ \A x \in Executions : Unspoken(x, a)'
             /\ \A u \in Workers : Deciding(u, a)' => u = v
  <2>1. Deciding(v, a) /\ call'[v] = call[v] /\ a # b
    BY <1>5, <1>13, <1>14
  <2>2. \A x \in Executions : Unspoken(x, a)' <=> Unspoken(x, a)
    BY <1>9, <2>1 DEF Unspoken
  <2> QED
    BY <1>1, <1>13, <2>1, <2>2 DEF EvidenceInv
<1> QED
  BY <1>11, <1>14 DEF EvidenceInv

LEMMA EvidenceStep ==
  ASSUME TypeOK, EvidenceInv, NEW w \in Workers, Begin(w) \/ Step(w) \/ Die(w)
  PROVE  EvidenceInv'
<1>1. CASE CommitRequest(w)
  BY <1>1, EvidenceRequested
<1>2. CASE DecideRow(w)
  BY <1>2, EvidenceDecided
<1>3. CASE RecordDecision(w)
  BY <1>3, EvidenceRecorded
<1>4. CASE ~CommitRequest(w) /\ ~DecideRow(w) /\ ~RecordDecision(w)
  <2>1. Others(w)
    BY RequestFrame
  <2>2. \A e \in Executions, a \in Approvals : \A types \in SUBSET ApprovalTypes :
          About(e, a, types)' = About(e, a, types)
    BY <1>4, OtherwiseAbout
  <2>3. UNCHANGED approvals
    BY <1>4 DEF Begin, OpenExecution, BeginWork, BeginRequest, BeginDecide, BeginFinalize, dbVars,
       Step, RecordCreated, RecordAuthenticated, AppendRequestOpened, ReadParent, RecordWork,
       CheckResume, WriteResume, Seal, Throw, Die
  <2>4. \A a \in Approvals : Deciding(w, a)' => Deciding(w, a) /\ call'[w] = call[w]
    <3>1. CASE Begin(w)
      <4>1. ASSUME NEW request, NEW label, Accept(w, request, label)
            PROVE  pc'[w] = label /\ call'[w] = request
        BY <4>1 DEF Accept, Goto, TypeOK
      <4>2. ASSUME NEW e \in Executions, NEW op \in WorkOperations, BeginWork(w, e, op)
            PROVE  call'[w].op # "decide"
        <5>1. call'[w] = [op |-> op, exec |-> e, last |-> "start"]
          BY <4>1, <4>2 DEF BeginWork
        <5> QED
          BY <5>1 DEF WorkOperations
      <4>3. ASSUME NEW e \in Executions, OpenExecution(w, e) PROVE call'[w].op # "decide"
        BY <4>1, <4>3 DEF OpenExecution
      <4>4. ASSUME NEW e \in Executions, NEW u \in Users, BeginRequest(w, e, u)
            PROVE  call'[w].op # "decide"
        BY <4>1, <4>4 DEF BeginRequest
      <4>5. ASSUME NEW e \in Executions, NEW outcome \in Outcomes, BeginFinalize(w, e, outcome)
            PROVE  call'[w].op # "decide"
        BY <4>1, <4>5 DEF BeginFinalize
      <4>6. ASSUME NEW a \in Approvals, NEW u \in Users, NEW allow \in BOOLEAN,
                   NEW op \in Operations, BeginDecide(w, a, u, allow, op)
            PROVE  pc'[w] = "decide"
        BY <4>1, <4>6 DEF BeginDecide
      <4>7. pc'[w] = "decide" \/ call'[w].op # "decide"
        BY <3>1, <4>2, <4>3, <4>4, <4>5, <4>6 DEF Begin
      <4> QED
        BY <4>7 DEF Deciding
    <3>2. CASE RecordWork(w)
      <4>1. call[w] \in [op : WorkOperations, exec : Executions,
                         last : EXECUTION_EVENT_TYPES \cup {"start"}]
        BY <3>2, StepCall, BusyCall DEF RecordWork
      <4>2. pc'[w] \in {"work", "idle"}
        BY <3>2 DEF RecordWork, Finish, TypeOK
      <4> QED
        BY <4>2 DEF Deciding
    <3>3. CASE RecordCreated(w) \/ RecordAuthenticated(w) \/ CheckResume(w)
      <4>1. pc'[w] \in {"authenticated", "request_opened", "resume_write"}
        BY <3>3 DEF RecordCreated, RecordAuthenticated, CheckResume, Goto, TypeOK
      <4> QED
        BY <4>1 DEF Deciding
    <3>4. CASE ReadParent(w)
      BY <3>4 DEF ReadParent, Deciding
    <3>5. CASE AppendRequestOpened(w) \/ WriteResume(w) \/ Seal(w) \/ Throw(w) \/ Die(w)
      <4>1. call'[w] = NoCall
        BY <3>5 DEF AppendRequestOpened, WriteResume, Seal, Throw, Die, Finish, TypeOK
      <4> QED
        BY <4>1 DEF Deciding, NoCall
    <3> QED
      BY <1>4, <3>1, <3>2, <3>3, <3>4, <3>5 DEF Step
  <2> QED
    BY <2>1, <2>2, <2>3, <2>4, EvidenceSame
<1> QED
  BY <1>1, <1>2, <1>3, <1>4

LEMMA EvidenceStutter ==
  ASSUME EvidenceInv, UNCHANGED <<events, approvals, call, pc>>
  PROVE  EvidenceInv'
<1>1. \A e, a, types : About(e, a, types)' = About(e, a, types)
  BY DEF About, EventsOf
<1>2. \A e, a : Unspoken(e, a)' <=> Unspoken(e, a)
  BY <1>1 DEF Unspoken
<1>3. \A w, a : Deciding(w, a)' <=> Deciding(w, a)
  BY DEF Deciding
<1>4. ASSUME NEW e \in Executions, NEW a \in Approvals PROVE Told(e, a)'
  <2>1. Told(e, a)
    BY DEF EvidenceInv
  <2> QED
    BY <1>1, <1>2, <2>1 DEF Told
<1> QED
  BY <1>2, <1>3, <1>4 DEF EvidenceInv

\* One ledger entry for each approval of an execution.
RowsOf(e) == {a \in Approvals : approvals[a] # NoApproval /\ approvals[a].exec = e}
RequestEntries(e) == EntriesOf(e, {"approval_requested"})

Counted(e) ==
  /\ IsFiniteSet(RowsOf(e)) /\ IsFiniteSet(RequestEntries(e))
  /\ Cardinality(RequestEntries(e)) = Cardinality(RowsOf(e))

LEMMA CountStep ==
  ASSUME TypeOK, \A e \in Executions : Counted(e),
         NEW w \in Workers, Begin(w) \/ Step(w) \/ Die(w)
  PROVE  \A e \in Executions : Counted(e)'
<1>1. ASSUME NEW e \in Executions, RowsOf(e)' = RowsOf(e), RequestEntries(e)' = RequestEntries(e)
      PROVE  Counted(e)'
  BY <1>1 DEF Counted
<1>2. ASSUME UNCHANGED approvals PROVE \A e \in Executions : RowsOf(e)' = RowsOf(e)
  BY <1>2 DEF RowsOf
<1>3. ASSUME UNCHANGED ledger PROVE \A e \in Executions : RequestEntries(e)' = RequestEntries(e)
  BY <1>3 DEF RequestEntries, EntriesOf
<1>4. CASE CommitRequest(w)
  <2> PICK e \in Executions : e = Exec(w)
    BY <1>4, BusyCall DEF CommitRequest
  <2> PICK b \in Approvals :
        /\ approvals[b] = NoApproval
        /\ approvals' = [approvals EXCEPT ![b] =
             [status |-> "pending", exec |-> e, requester |-> call[w].user, decider |-> "none"]]
    BY <1>4 DEF CommitRequest
  <2> DEFINE n == Len(ledger[e]) + 1
  <2>1. /\ approvals'[b] # NoApproval /\ approvals'[b].exec = e
        /\ \A a \in Approvals \ {b} : approvals'[a] = approvals[a]
    BY DEF TypeOK, NoApproval
  <2>2. RowsOf(e)' = RowsOf(e) \cup {b} /\ b \notin RowsOf(e)
    BY <2>1 DEF RowsOf
  <2>3. n \notin RequestEntries(e)
    <3>1. Len(ledger[e]) \in Nat /\ DOMAIN ledger[e] = 1..Len(ledger[e])
      BY LenProperties DEF TypeOK
    <3> QED
      BY <3>1 DEF RequestEntries, EntriesOf
  <2>4. \A x \in Executions : \A types : EntriesOf(x, types)' =
          EntriesOf(x, types) \cup (IF x = e /\ "approval_requested" \in types THEN {n} ELSE {})
    BY <1>4, EntriesAfter DEF CommitRequest
  <2> HIDE DEF n
  <2>5. RequestEntries(e)' = RequestEntries(e) \cup {n}
    BY <2>4 DEF RequestEntries
  <2>6. Counted(e)'
    <3>1. Counted(e)
      OBVIOUS
    <3>2. /\ IsFiniteSet(RowsOf(e) \cup {b})
          /\ Cardinality(RowsOf(e) \cup {b}) = Cardinality(RowsOf(e)) + 1
      BY <2>2, <3>1, FS_AddElement DEF Counted
    <3>3. /\ IsFiniteSet(RequestEntries(e) \cup {n})
          /\ Cardinality(RequestEntries(e) \cup {n}) = Cardinality(RequestEntries(e)) + 1
      BY <2>3, <3>1, FS_AddElement DEF Counted
    <3> QED
      BY <2>2, <2>5, <3>1, <3>2, <3>3 DEF Counted
  <2>7. ASSUME NEW x \in Executions \ {e} PROVE Counted(x)'
    <3>1. RowsOf(x)' = RowsOf(x)
      BY <2>1 DEF RowsOf
    <3>2. RequestEntries(x)' = RequestEntries(x) \cup {}
      BY <2>4 DEF RequestEntries
    <3> QED
      BY <1>1, <3>1, <3>2
  <2> QED
    BY <2>6, <2>7
<1>5. CASE DecideRow(w)
  <2>1. call[w].approval \in Approvals /\ approvals[call[w].approval].status = "pending"
    BY <1>5, StepCall, BusyCall DEF DecideRow, Decidable
  <2> PICK b \in Approvals : b = call[w].approval
    BY <2>1
  <2>2. approvals' = [approvals EXCEPT ![b] =
          [approvals[b] EXCEPT !.status = Verdict(call[w].allow), !.decider = call[w].user]]
    BY <1>5 DEF DecideRow, TypeOK
  <2>3. approvals[b] # NoApproval /\ approvals[b] \in ApprovalRows
    BY <2>1 DEF NoApproval, TypeOK
  <2>4. \A a \in Approvals : (approvals'[a] # NoApproval <=> approvals[a] # NoApproval)
                             /\ (approvals[a] # NoApproval => approvals'[a].exec = approvals[a].exec)
    <3>1. Verdict(call[w].allow) # "unused"
      BY DEF Verdict
    <3>2. approvals'[b].status = Verdict(call[w].allow) /\ approvals'[b].exec = approvals[b].exec
      BY <2>2, <2>3 DEF ApprovalRows, TypeOK
    <3>3. approvals'[b] # NoApproval
      BY <3>1, <3>2 DEF NoApproval
    <3> QED
      BY <2>2, <2>3, <3>2, <3>3 DEF TypeOK
  <2>5. \A e \in Executions : RowsOf(e)' = RowsOf(e)
    BY <2>4 DEF RowsOf
  <2> QED
    BY <1>1, <1>3, <1>5, <2>5 DEF DecideRow
<1>6. CASE AppendRequestOpened(w) \/ Seal(w)
  <2>1. UNCHANGED approvals /\ pc[w] # "idle"
    BY <1>6 DEF AppendRequestOpened, Seal
  <2> PICK e \in Executions : e = Exec(w)
    BY <2>1, BusyCall
  <2>2. \E type, graph : AppendLedger(e, type, graph) /\ type # "approval_requested"
    BY <1>6 DEF AppendRequestOpened, Seal
  <2> PICK type, graph : AppendLedger(e, type, graph) /\ type # "approval_requested"
    BY <2>2
  <2>3. ASSUME NEW x \in Executions
        PROVE  EntriesOf(x, {"approval_requested"})' = EntriesOf(x, {"approval_requested"}) \cup {}
    <3>1. EntriesOf(x, {"approval_requested"})' = EntriesOf(x, {"approval_requested"}) \cup
            (IF x = e /\ type \in {"approval_requested"} THEN {Len(ledger[e]) + 1} ELSE {})
      BY EntriesAfter
    <3> QED
      BY <3>1
  <2>4. \A x \in Executions : RequestEntries(x)' = RequestEntries(x)
    BY <2>3 DEF RequestEntries
  <2> QED
    BY <1>1, <1>2, <2>1, <2>4
<1>7. CASE /\ ~CommitRequest(w) /\ ~DecideRow(w) /\ ~AppendRequestOpened(w) /\ ~Seal(w)
  <2>1. UNCHANGED <<approvals, ledger>>
    BY <1>7 DEF Begin, OpenExecution, BeginWork, BeginRequest, BeginDecide, BeginFinalize, dbVars,
       Step, RecordCreated, RecordAuthenticated, ReadParent, RecordWork, RecordDecision,
       CheckResume, WriteResume, Throw, Die
  <2> QED
    BY <1>1, <1>2, <1>3, <2>1
<1> QED
  BY <1>4, <1>5, <1>6, <1>7

\* The approval rows, the events about them and the ledger agree: whoever
\* races to decide an approval, one row is written once, at most one decision
\* event follows it and says what the row says, and each request left one
\* event and one ledger entry.
THEOREM EvidenceAgrees == Spec => []ApprovalEvidence
<1> DEFINE Inv == EvidenceInv /\ \A e \in Executions : Counted(e)
<1>1. Init => Inv
  <2> SUFFICES ASSUME Init PROVE Inv
    OBVIOUS
  <2>1. EvidenceInv
    BY DEF Init, EvidenceInv, Told, Unspoken, About, EventsOf, Deciding, NoCall
  <2>2. ASSUME NEW e \in Executions PROVE Counted(e)
    <3>1. RowsOf(e) = {} /\ RequestEntries(e) = {}
      BY DEF Init, RowsOf, RequestEntries, EntriesOf
    <3> QED
      BY <3>1, FS_EmptySet DEF Counted
  <2> QED
    BY <2>1, <2>2
<1>2. ASSUME TypeOK, Inv, [Next]_vars PROVE Inv'
  <2>1. ASSUME NEW w \in Workers, Begin(w) \/ Step(w) \/ Die(w) PROVE Inv'
    BY <1>2, <2>1, EvidenceStep, CountStep
  <2>2. CASE UNCHANGED vars
    <3>1. EvidenceInv'
      BY <1>2, <2>2, EvidenceStutter DEF vars, dbVars, workerVars
    <3>2. \A e \in Executions : Counted(e)'
      BY <1>2, <2>2 DEF Counted, RowsOf, RequestEntries, EntriesOf, vars, dbVars
    <3> QED
      BY <3>1, <3>2
  <2> QED
    BY <1>2, <2>1, <2>2 DEF Next
<1>3. TypeOK /\ Inv => ApprovalEvidence
  <2> SUFFICES ASSUME TypeOK, Inv PROVE ApprovalEvidence
    OBVIOUS
  <2>1. ASSUME NEW e \in Executions
        PROVE  Cardinality(EntriesOf(e, {"approval_requested"})) =
                 Cardinality({a \in Approvals : approvals[a] # NoApproval /\ approvals[a].exec = e})
    BY DEF Counted, RowsOf, RequestEntries
  <2>2. ASSUME NEW a \in Approvals, approvals[a] # NoApproval, NEW e, e = approvals[a].exec
        PROVE  /\ Cardinality(About(e, a, Requested)) = 1
               /\ Cardinality(About(e, a, Decided)) <= 1
               /\ About(e, a, Approved) # {} => approvals[a].status = "approved"
               /\ About(e, a, Rejected) # {} => approvals[a].status = "denied"
    <3>1. e \in Executions
      BY <2>2 DEF TypeOK, ApprovalRows
    <3>2. Told(e, a)
      BY <3>1 DEF EvidenceInv
    <3>3. /\ \E i : About(e, a, Requested) = {i}
          /\ About(e, a, Decided) = {} \/ \E i : About(e, a, Decided) = {i}
      BY <2>2, <3>2 DEF Told, Unspoken
    <3>4. Cardinality(About(e, a, Requested)) = 1
      BY <3>3, FS_Singleton
    <3>5. Cardinality(About(e, a, Decided)) <= 1
      <4>1. CASE About(e, a, Decided) = {}
        <5>1. Cardinality(About(e, a, Decided)) = 0
          BY <4>1, FS_EmptySet
        <5> QED
          BY <5>1
      <4>2. CASE \E i : About(e, a, Decided) = {i}
        <5>1. Cardinality(About(e, a, Decided)) = 1
          BY <4>2, FS_Singleton
        <5> QED
          BY <5>1
      <4> QED
        BY <3>3, <4>1, <4>2
    <3> QED
      BY <2>2, <3>2, <3>4, <3>5 DEF Told
  <2>3. {"approval.approved", "approval.rejected"} = Decided
    BY DEF Decided, Approved, Rejected
  <2>4. \A e \in Executions :
          Cardinality(EntriesOf(e, {"approval_requested"})) =
            Cardinality({a \in Approvals : approvals[a] # NoApproval /\ approvals[a].exec = e})
    BY <2>1
  <2>5. ASSUME NEW a \in Approvals, approvals[a] # NoApproval
        PROVE  LET e == approvals[a].exec
                   about(types) == {i \in EventsOf(e, types) : events[e][i].about = a}
               IN  /\ Cardinality(about({"approval.requested"})) = 1
                   /\ Cardinality(about({"approval.approved", "approval.rejected"})) <= 1
                   /\ about({"approval.approved"}) # {} => approvals[a].status = "approved"
                   /\ about({"approval.rejected"}) # {} => approvals[a].status = "denied"
    BY <2>2, <2>3, <2>5 DEF About, Requested, Approved, Rejected
  <2> QED
    BY <2>4, <2>5 DEF ApprovalEvidence
<1> QED
  BY <1>1, <1>2, <1>3, ExecutionTypes, PTL DEF Spec

-----------------------------------------------------------------------------
(* A granted approval takes effect *)

DecideCall(w, a) == call[w].op = "decide" /\ call[w].approval = a
Resuming(w, a) == DecideCall(w, a) /\ pc[w] \in {"resume_check", "resume_write"}

\* a is why e still waits: it was not granted on the execution's route, its
\* decision died, or the decision is about to resume the execution; and
\* whoever decides it read that the execution waits.
HoldsUp(e, a) ==
  /\ approvals[a] # NoApproval /\ approvals[a].exec = e
  /\ \A w \in Workers : DecideCall(w, a) => seen[w] = "waiting_approval"
  /\ About(e, a, Approved) = {} \/ a \in cut \/ \E w \in Workers : Resuming(w, a)

GrantInv ==
  \A e \in Executions : status[e] = "waiting_approval" => \E a \in Approvals : HoldsUp(e, a)

LEMMA DecideRowOf ==
  ASSUME TypeOK, NEW w \in Workers, NEW a \in Approvals, DecideCall(w, a)
  PROVE  approvals[a] # NoApproval /\ approvals[a].exec = Exec(w)
BY DEF TypeOK, AtItsStep, DecideCall

\* What a step must leave to an execution that waits before and after it.
LEMMA StillHeld ==
  ASSUME TypeOK, NEW w \in Workers, Others(w), NEW e \in Executions, NEW a \in Approvals,
         HoldsUp(e, a), approvals'[a] # NoApproval, approvals'[a].exec = e, cut \subseteq cut',
         DecideCall(w, a)' => seen'[w] = "waiting_approval",
         About(e, a, Approved)' = About(e, a, Approved) \/ Resuming(w, a)',
         Resuming(w, a) => Resuming(w, a)' \/ a \in cut'
  PROVE  HoldsUp(e, a)'
<1>1. \A v \in Workers \ {w} : DecideCall(v, a)' => DecideCall(v, a) /\ seen'[v] = seen[v]
  BY DEF Others, DecideCall
<1>2. \A v \in Workers \ {w} : Resuming(v, a) => Resuming(v, a)'
  BY DEF Others, Resuming, DecideCall
<1>3. \A v \in Workers : DecideCall(v, a)' => seen'[v] = "waiting_approval"
  BY <1>1 DEF HoldsUp
<1>4. About(e, a, Approved)' = {} \/ a \in cut' \/ \E v \in Workers : Resuming(v, a)'
  BY <1>2 DEF HoldsUp
<1> QED
  BY <1>3, <1>4 DEF HoldsUp

LEMMA GrantStep ==
  ASSUME TypeOK, EvidenceInv, GrantInv, NEW w \in Workers, Begin(w) \/ Step(w) \/ Die(w)
  PROVE  GrantInv'
<1> SUFFICES ASSUME NEW e \in Executions, status'[e] = "waiting_approval"
             PROVE  \E a \in Approvals : HoldsUp(e, a)'
  BY DEF GrantInv
<1>1. Others(w)
  BY RequestFrame
<1>2. Approved \in SUBSET ApprovalTypes
  BY DEF ApprovalTypes, Decided
<1>3. CASE CommitRequest(w)
  <2>1. call[w].op = "request_approval" /\ call'[w] = NoCall /\ pc[w] # "idle"
    BY <1>3, StepCall DEF CommitRequest, Finish, TypeOK
  <2> PICK x \in Executions : x = Exec(w)
    BY <2>1, BusyCall
  <2> PICK b \in Approvals :
        /\ approvals[b] = NoApproval
        /\ approvals' = [approvals EXCEPT ![b] =
             [status |-> "pending", exec |-> x, requester |-> call[w].user, decider |-> "none"]]
        /\ Record(x, "approval.requested", parent[w], b)
    BY <1>3 DEF CommitRequest
  <2>2. /\ approvals'[b] # NoApproval /\ approvals'[b].exec = x
        /\ \A a \in Approvals \ {b} : approvals'[a] = approvals[a]
    BY DEF TypeOK, NoApproval
  <2>3. ASSUME NEW a \in Approvals PROVE About(e, a, Approved)' = About(e, a, Approved)
    <3>1. About(e, a, Approved)' = About(e, a, Approved) \cup
            (IF e = x /\ a = b /\ "approval.requested" \in Approved
               THEN {Len(events[x]) + 1} ELSE {})
      BY AboutAfter
    <3>2. "approval.requested" \notin Approved
      BY DEF Approved
    <3> QED
      BY <3>1, <3>2
  <2>4. \A a \in Approvals : ~DecideCall(w, a) /\ ~DecideCall(w, a)'
    BY <2>1 DEF DecideCall, NoCall
  <2>5. CASE e = x
    <3>1. About(e, b, Approved)' = {}
      <4>1. Told(e, b)
        BY DEF EvidenceInv
      <4> QED
        BY <2>3, <4>1 DEF Told, Unspoken
    <3>2. \A v \in Workers : ~DecideCall(v, b)
      BY DecideRowOf
    <3>3. \A v \in Workers : ~DecideCall(v, b)'
      BY <1>1, <2>4, <3>2 DEF Others, DecideCall
    <3>4. HoldsUp(e, b)'
      BY <2>2, <2>5, <3>1, <3>3 DEF HoldsUp
    <3> QED
      BY <3>4
  <2>6. CASE e # x
    <3>1. status[e] = "waiting_approval"
      BY <1>3, <2>6 DEF CommitRequest, TypeOK
    <3> PICK a \in Approvals : HoldsUp(e, a)
      BY <3>1 DEF GrantInv
    <3>2. a # b /\ approvals'[a] # NoApproval /\ approvals'[a].exec = e
      BY <2>2 DEF HoldsUp
    <3>3. cut' = cut
      BY <1>3 DEF CommitRequest
    <3>4. HoldsUp(e, a)'
      BY <1>1, <2>3, <2>4, <3>2, <3>3, StillHeld DEF Resuming
    <3> QED
      BY <3>4
  <2> QED
    BY <2>5, <2>6
<1>4. CASE ~CommitRequest(w)
  <2>1. status[e] = "waiting_approval"
    <3>1. CASE UNCHANGED status
      BY <3>1
    <3>2. CASE \E x \in Executions, st \in Statuses \ {"waiting_approval"} :
                 status' = [status EXCEPT ![x] = st]
      BY <3>2 DEF TypeOK
    <3>3. CASE Begin(w)
      BY <3>1, <3>2, <3>3 DEF Begin, OpenExecution, BeginWork, BeginRequest, BeginDecide,
         BeginFinalize, dbVars, Statuses
    <3>4. CASE AppendRequestOpened(w) \/ WriteResume(w)
      <4>1. Exec(w) \in Executions /\ status' = [status EXCEPT ![Exec(w)] = "running"]
        BY <3>4, BusyCall DEF AppendRequestOpened, WriteResume
      <4>2. "running" \in Statuses \ {"waiting_approval"}
        BY DEF Statuses
      <4> QED
        BY <3>2, <4>1, <4>2
    <3>5. CASE Seal(w)
      <4>1. /\ Exec(w) \in Executions /\ call[w].outcome \in Outcomes
            /\ status' = [status EXCEPT ![Exec(w)] = call[w].outcome]
        BY <3>5, BusyCall, StepCall DEF Seal
      <4>2. call[w].outcome \in Statuses \ {"waiting_approval"}
        BY <4>1 DEF Statuses, Outcomes, TerminalStatuses
      <4> QED
        BY <3>2, <4>1, <4>2
    <3>6. CASE ~Begin(w) /\ ~AppendRequestOpened(w) /\ ~WriteResume(w) /\ ~Seal(w)
      <4>1. UNCHANGED status
        BY <1>4, <3>6 DEF Step, RecordCreated, RecordAuthenticated, ReadParent, RecordWork,
           DecideRow, RecordDecision, CheckResume, Throw, Die, dbVars
      <4> QED
        BY <3>1, <4>1
    <3> QED
      BY <3>3, <3>4, <3>5, <3>6
  <2> PICK a \in Approvals : HoldsUp(e, a)
    BY <2>1 DEF GrantInv
  <2>2. approvals[a] # NoApproval /\ approvals[a].exec = e
    BY DEF HoldsUp
  <2>3. DecideCall(w, a) => seen[w] = "waiting_approval" /\ Exec(w) = e
    BY <2>2, DecideRowOf DEF HoldsUp
  <2>4. approvals'[a] # NoApproval /\ approvals'[a].exec = e
    <3>1. CASE DecideRow(w)
      <4>1. call[w].approval \in Approvals /\ approvals[call[w].approval].status = "pending"
        BY <3>1, StepCall, BusyCall DEF DecideRow, Decidable
      <4> PICK b \in Approvals : b = call[w].approval
        BY <4>1
      <4>2. approvals' = [approvals EXCEPT ![b] =
              [approvals[b] EXCEPT !.status = Verdict(call[w].allow), !.decider = call[w].user]]
        BY <3>1 DEF DecideRow, TypeOK
      <4>3. approvals[b] \in ApprovalRows
        BY <4>1 DEF NoApproval, TypeOK
      <4>4. approvals'[b].status = Verdict(call[w].allow) /\ approvals'[b].exec = approvals[b].exec
        BY <4>2, <4>3 DEF ApprovalRows, TypeOK
      <4>5. approvals'[b] # NoApproval
        BY <4>4 DEF NoApproval, Verdict
      <4> QED
        BY <2>2, <4>2, <4>4, <4>5 DEF TypeOK
    <3>2. CASE ~DecideRow(w)
      <4>1. UNCHANGED approvals
        BY <1>4, <3>2 DEF Begin, OpenExecution, BeginWork, BeginRequest, BeginDecide, BeginFinalize,
           dbVars, Step, RecordCreated, RecordAuthenticated, AppendRequestOpened, ReadParent,
           RecordWork, RecordDecision, CheckResume, WriteResume, Seal, Throw, Die
      <4> QED
        BY <2>2, <4>1
    <3> QED
      BY <3>1, <3>2
  <2>5. cut \subseteq cut'
    BY <1>4 DEF Begin, OpenExecution, BeginWork, BeginRequest, BeginDecide, BeginFinalize,
       Step, RecordCreated, RecordAuthenticated, AppendRequestOpened, ReadParent, RecordWork,
       DecideRow, RecordDecision, CheckResume, WriteResume, Seal, Throw, Die
  <2>6. DecideCall(w, a)' => seen'[w] = "waiting_approval"
    <3>1. CASE Begin(w)
      <4>1. ASSUME NEW request, NEW label, Accept(w, request, label)
            PROVE  call'[w] = request /\ seen'[w] = status[request.exec]
        BY <4>1 DEF Accept, TypeOK
      <4>2. ASSUME NEW x \in Executions, NEW op \in WorkOperations, BeginWork(w, x, op)
            PROVE  call'[w].op # "decide"
        <5>1. call'[w] = [op |-> op, exec |-> x, last |-> "start"]
          BY <4>1, <4>2 DEF BeginWork
        <5> QED
          BY <5>1 DEF WorkOperations
      <4>3. ASSUME NEW x \in Executions, OpenExecution(w, x) PROVE call'[w].op # "decide"
        BY <4>1, <4>3 DEF OpenExecution
      <4>4. ASSUME NEW x \in Executions, NEW u \in Users, BeginRequest(w, x, u)
            PROVE  call'[w].op # "decide"
        BY <4>1, <4>4 DEF BeginRequest
      <4>5. ASSUME NEW x \in Executions, NEW outcome \in Outcomes, BeginFinalize(w, x, outcome)
            PROVE  call'[w].op # "decide"
        BY <4>1, <4>5 DEF BeginFinalize
      <4>6. ASSUME NEW b \in Approvals, NEW u \in Users, NEW allow \in BOOLEAN,
                   NEW op \in Operations, BeginDecide(w, b, u, allow, op)
            PROVE  call'[w].approval = b /\ seen'[w] = status[approvals[b].exec]
        <5> DEFINE request == [op |-> op, exec |-> approvals[b].exec, approval |-> b, user |-> u,
                               allow |-> allow]
        <5>1. Accept(w, request, "decide")
          BY <4>6 DEF BeginDecide
        <5>2. request.approval = b /\ request.exec = approvals[b].exec
          OBVIOUS
        <5> HIDE DEF request
        <5> QED
          BY <4>1, <5>1, <5>2
      <4>7. \/ call'[w].op # "decide"
            \/ \E b \in Approvals : call'[w].approval = b /\ seen'[w] = status[approvals[b].exec]
        BY <3>1, <4>2, <4>3, <4>4, <4>5, <4>6 DEF Begin
      <4> QED
        BY <2>1, <2>2, <4>7 DEF DecideCall
    <3>2. CASE RecordWork(w)
      BY <3>2, WorkCall DEF NoCall, DecideCall, WorkOperations
    <3>3. CASE ~Begin(w) /\ ~RecordWork(w)
      <4>1. UNCHANGED <<call, seen>> \/ call'[w] = NoCall
        BY <1>4, <3>3 DEF Step, RecordCreated, RecordAuthenticated, AppendRequestOpened, ReadParent,
           DecideRow, RecordDecision, CheckResume, WriteResume, Seal, Throw, Die, Finish, TypeOK
      <4> QED
        BY <2>3, <4>1 DEF DecideCall, NoCall
    <3> QED
      BY <3>1, <3>2, <3>3
  <2>7. About(e, a, Approved)' = About(e, a, Approved) \/ Resuming(w, a)'
    <3>1. CASE RecordDecision(w)
      <4>1. pc[w] = "record_decision" /\ call[w].op = "decide"
        BY <3>1, StepCall DEF RecordDecision
      <4>2. call[w].approval \in Approvals /\ call[w].allow \in BOOLEAN
        BY <4>1, BusyCall
      <4> PICK b \in Approvals : b = call[w].approval
        BY <4>2
      <4> PICK x \in Executions : x = Exec(w)
        BY <4>1, BusyCall
      <4> DEFINE type == IF call[w].allow THEN "approval.approved" ELSE "approval.rejected"
      <4>3. Record(x, type, parent[w], b)
        BY <3>1 DEF RecordDecision
      <4>4. type \in Approved <=> call[w].allow
        BY <4>2 DEF Approved
      <4> HIDE DEF type
      <4>5. About(e, a, Approved)' = About(e, a, Approved) \cup
              (IF e = x /\ a = b /\ type \in Approved THEN {Len(events[x]) + 1} ELSE {})
        BY <4>3, AboutAfter
      <4>6. CASE a = b /\ call[w].allow
        <5>1. DecideCall(w, a)
          BY <4>1, <4>6 DEF DecideCall
        <5>2. Resumes(w)
          BY <2>3, <4>6, <5>1 DEF Resumes
        <5>3. pc'[w] = "resume_check" /\ UNCHANGED call
          BY <3>1, <5>2 DEF RecordDecision, Goto, TypeOK
        <5> QED
          BY <5>1, <5>3 DEF Resuming, DecideCall
      <4>7. CASE ~(a = b /\ call[w].allow)
        <5>1. ~(e = x /\ a = b /\ type \in Approved)
          BY <4>4, <4>7
        <5> QED
          BY <4>5, <5>1
      <4> QED
        BY <4>6, <4>7
    <3>2. CASE ~RecordDecision(w)
      BY <1>2, <1>4, <3>2, OtherwiseAbout
    <3> QED
      BY <3>1, <3>2
  <2>8. Resuming(w, a) => Resuming(w, a)' \/ a \in cut'
    <3> SUFFICES ASSUME Resuming(w, a) PROVE Resuming(w, a)' \/ a \in cut'
      OBVIOUS
    <3>1. pc[w] \in {"resume_check", "resume_write"} /\ DecideCall(w, a) /\ Exec(w) = e
      BY <2>3 DEF Resuming
    <3>2. CASE CheckResume(w)
      <4>1. pc'[w] = "resume_write" /\ UNCHANGED call
        BY <3>2 DEF CheckResume, Goto, TypeOK
      <4> QED
        BY <3>1, <4>1 DEF Resuming, DecideCall
    <3>3. CASE Die(w)
      BY <3>1, <3>3 DEF Die, DecideCall
    <3>4. CASE WriteResume(w)
      <4>1. status'[e] = "running"
        BY <3>1, <3>4 DEF WriteResume, TypeOK
      <4> QED
        BY <4>1
    <3>5. CASE Throw(w)
      <4>1. ~CanMove(status[e], "running")
        BY <3>1, <3>5 DEF Throw, Refused
      <4> QED
        BY <2>1, <4>1 DEF CanMove, Transitions
    <3>6. Step(w) \/ Die(w)
      BY <3>1 DEF Begin, OpenExecution, BeginWork, BeginRequest, BeginDecide, BeginFinalize, Accept
    <3> QED
      BY <3>1, <3>2, <3>3, <3>4, <3>5, <3>6 DEF Step, RecordCreated, RecordAuthenticated,
         AppendRequestOpened, ReadParent, RecordWork, CommitRequest, DecideRow, RecordDecision, Seal
  <2>9. HoldsUp(e, a)'
    BY <1>1, <2>4, <2>5, <2>6, <2>7, <2>8, StillHeld
  <2> QED
    BY <2>9
<1> QED
  BY <1>3, <1>4

\* A granted approval takes effect, whatever statuses the decider read: an
\* execution left waiting when no request is in progress has an approval that
\* was not granted on its route, or whose decision died half way.
THEOREM GrantsResume == Spec => []GrantTakesEffect
<1>1. Init => EvidenceInv /\ GrantInv
  <2> SUFFICES ASSUME Init PROVE EvidenceInv /\ GrantInv
    OBVIOUS
  <2>1. EvidenceInv
    BY DEF Init, EvidenceInv, Told, Unspoken, About, EventsOf, Deciding, NoCall
  <2>2. GrantInv
    BY DEF Init, GrantInv, Absent
  <2> QED
    BY <2>1, <2>2
<1>2. ASSUME TypeOK, EvidenceInv, GrantInv, [Next]_vars PROVE (EvidenceInv /\ GrantInv)'
  <2>1. ASSUME NEW w \in Workers, Begin(w) \/ Step(w) \/ Die(w)
        PROVE  EvidenceInv' /\ GrantInv'
    BY <1>2, <2>1, EvidenceStep, GrantStep
  <2>2. CASE UNCHANGED vars
    <3>1. UNCHANGED <<status, events, approvals, call, pc, seen, cut>>
      BY <2>2 DEF vars, dbVars, workerVars
    <3>2. EvidenceInv'
      BY <1>2, <3>1, EvidenceStutter
    <3>3. \A e, a : HoldsUp(e, a)' <=> HoldsUp(e, a)
      BY <3>1 DEF HoldsUp, About, EventsOf, DecideCall, Resuming
    <3>4. GrantInv'
      BY <1>2, <3>1, <3>3 DEF GrantInv
    <3> QED
      BY <3>2, <3>4
  <2> QED
    BY <1>2, <2>1, <2>2 DEF Next
<1>3. GrantInv => GrantTakesEffect
  <2> SUFFICES ASSUME GrantInv, \A w \in Workers : pc[w] = "idle",
                      NEW e \in Executions, status[e] = "waiting_approval"
               PROVE  \E a \in Approvals :
                        /\ approvals[a] # NoApproval /\ approvals[a].exec = e
                        /\ \/ \A i \in EventsOf(e, {"approval.approved"}) : events[e][i].about # a
                           \/ a \in cut
    BY DEF GrantTakesEffect
  <2> PICK a \in Approvals : HoldsUp(e, a)
    BY DEF GrantInv
  <2>1. About(e, a, Approved) = {} \/ a \in cut
    BY DEF HoldsUp, Resuming
  <2>2. About(e, a, Approved) = {} =>
          \A i \in EventsOf(e, {"approval.approved"}) : events[e][i].about # a
    BY DEF About, Approved
  <2> QED
    BY <2>1, <2>2 DEF HoldsUp
<1> QED
  BY <1>1, <1>2, <1>3, ExecutionTypes, PTL DEF Spec
=============================================================================
