--------------------------- MODULE GatewayProofs ---------------------------
(***************************************************************************)
(* Proofs about ConnectorGateway, for any number of keys and requests.     *)
(*                                                                         *)
(* TypeOK is inductive: a key is taken by one request, which holds it from *)
(* its intent to the end of finishAction, and no other request changes     *)
(* what the holder relies on.                                              *)
(***************************************************************************)
EXTENDS ConnectorGateway, FiniteSetTheorems, SequenceTheorems, TLAPS

\* What a step of w leaves to the other requests.
Local(w) ==
  /\ \A v \in Workers \ {w} : pc'[v] = pc[v] /\ call'[v] = call[v] /\ mem'[v] = mem[v]
  /\ approval' = approval \/ approval = "pending"
  /\ \A k \in Keys :
       \/ action'[k] = action[k] /\ sent'[k] = sent[k] /\ delivered'[k] = delivered[k]
       \/ Holder(w, k) \/ action[k] = "none"
  /\ \A k \in Keys : action[k] \in Final => action'[k] = action[k]
  /\ \A k \in Keys : Holder(w, k)' => Holder(w, k) \/ action[k] = "none"

\* Who holds a key has a row for it.
LEMMA HeldKey ==
  ASSUME TypeOK, NEW v \in Workers, NEW k \in Keys, Holder(v, k)
  PROVE  action[k] # "none"
BY DEF TypeOK, AtItsStep, Holder, Holds, Final, HoldSteps, PublishSteps

\* A request's publication has a key.
LEMMA PublishKey ==
  ASSUME TypeOK, NEW v \in Workers, pc[v] \in PublishSteps
  PROVE  Key(v) \in Keys
BY DEF TypeOK, AtItsStep, Key, PublishCalls

LEMMA OtherRequest ==
  ASSUME TypeOK, NEW w \in Workers, Local(w), NEW v \in Workers \ {w}
  PROVE  AtItsStep(v)'
<1>1. AtItsStep(v)
  BY DEF TypeOK
<1>2. pc'[v] = pc[v] /\ call'[v] = call[v] /\ mem'[v] = mem[v] /\ Key(v)' = Key(v)
  BY DEF Local, Key
<1>3. approval' = approval \/ approval = "pending"
  BY DEF Local
<1>4. ASSUME pc[v] \in HoldSteps
      PROVE  /\ action'[Key(v)] = action[Key(v)]
             /\ sent'[Key(v)] = sent[Key(v)]
             /\ delivered'[Key(v)] = delivered[Key(v)]
  <2> PICK k \in Keys : k = Key(v)
    BY <1>4, PublishKey DEF PublishSteps
  <2>1. Holder(v, k)
    BY <1>4 DEF Holder
  <2>2. action[k] # "none" /\ ~Holder(w, k)
    BY <2>1, HeldKey DEF TypeOK
  <2> QED
    BY <2>2 DEF Local
<1>5. ASSUME pc[v] \in AnswerSteps, action[Key(v)] \in Final
      PROVE  action'[Key(v)] = action[Key(v)]
  BY <1>5, PublishKey DEF Local, PublishSteps
<1>6. pc[v] \in DecisionSteps =>
        (pc[v] # "decide" => approval' = (IF call[v].allow THEN "approved" ELSE "denied"))
  BY <1>1, <1>3 DEF AtItsStep
<1>7. mem[v].allowed => approval' = "approved"
  BY <1>1, <1>3 DEF AtItsStep
<1>8. pc[v] \in HoldSteps => Holds(pc[v], Key(v), mem[v].result)'
  BY <1>1, <1>2, <1>4 DEF AtItsStep, Holds, PublishSteps
<1>9. pc[v] = "call" => sent'[Key(v)] = 0
  BY <1>1, <1>4 DEF AtItsStep, HoldSteps, PublishSteps
<1> QED
  BY <1>1, <1>2, <1>5, <1>6, <1>7, <1>8, <1>9 DEF AtItsStep

\* A step of w that leaves the others alone and w at a step of its own.
LEMMA LocalStep ==
  ASSUME TypeOK, NEW w \in Workers, Local(w), Typed', AtItsStep(w)'
  PROVE  TypeOK'
<1>1. \A v \in Workers : AtItsStep(v)'
  BY OtherRequest
<1>2. ASSUME NEW u \in Workers, NEW v \in Workers, NEW k \in Keys,
             Holder(u, k)', Holder(v, k)', u # v
      PROVE  FALSE
  <2>1. \A x \in Workers \ {w} : Holder(x, k)' => Holder(x, k)
    BY DEF Holder, Key, Local
  <2>2. \A x \in Workers \ {w} : Holder(x, k) /\ Holder(w, k)' => FALSE
    BY HeldKey DEF Local, TypeOK
  <2> QED
    BY <1>2, <2>1, <2>2 DEF TypeOK
<1> QED
  BY <1>1, <1>2 DEF TypeOK

-----------------------------------------------------------------------------
(* TypeOK, action by action *)

\* The end of a request that changed no row a holder relies on.
LEMMA FinishTypes ==
  ASSUME TypeOK, NEW w \in Workers, Finish(w)
  PROVE  /\ pc' \in [Workers -> {"idle"} \cup DecisionSteps \cup PublishSteps]
         /\ call' \in [Workers -> {NoCall} \cup DecisionCalls \cup PublishCalls]
         /\ mem' \in [Workers -> Locals]
         /\ AtItsStep(w)'
         /\ ~\E k \in Keys : Holder(w, k)'
         /\ \A v \in Workers \ {w} : pc'[v] = pc[v] /\ call'[v] = call[v] /\ mem'[v] = mem[v]
<1>1. pc'[w] = "idle" /\ call'[w] = NoCall /\ mem'[w] = NoMem
  BY DEF Finish, TypeOK, Typed
<1>2. NoMem \in Locals
  BY DEF NoMem, Locals, ActionStatuses
<1> QED
  BY <1>1, <1>2 DEF Finish, TypeOK, Typed, AtItsStep, Holder, DecisionSteps, PublishSteps,
     AskSteps, HoldSteps, AnswerSteps, NoMem

\* A new request.
LEMMA AcceptTypes ==
  ASSUME TypeOK, NEW w \in Workers, NEW request \in DecisionCalls \cup PublishCalls, NEW label,
         Accept(w, request, label),
         \/ request \in DecisionCalls /\ label = "decide"
         \/ request \in PublishCalls /\ request.via = "nova" /\ label = "load_draft"
         \/ request \in PublishCalls /\ request.via = "session" /\ label = "execution"
  PROVE  TypeOK'
<1>1. pc'[w] = label /\ call'[w] = request /\ mem'[w] = mem[w] /\ mem[w] = NoMem
  BY DEF Accept, Goto, TypeOK, Typed, AtItsStep
<1>2. Typed'
  <2>1. calls' \in 0..MaxCalls
    BY GatewayMaxCallsAssumption DEF Accept, TypeOK, Typed
  <2>2. label \in DecisionSteps \cup PublishSteps
    BY DEF DecisionSteps, PublishSteps, AskSteps
  <2> QED
    BY <2>1, <2>2 DEF Accept, Goto, TypeOK, Typed, dbVars, providerVars
<1>3. AtItsStep(w)'
  BY <1>1 DEF AtItsStep, DecisionSteps, PublishSteps, AskSteps, HoldSteps, AnswerSteps, NoMem
<1>4. Local(w)
  BY <1>1 DEF Local, Accept, Goto, TypeOK, Typed, dbVars, providerVars, Holder, HoldSteps
<1> QED
  BY <1>2, <1>3, <1>4, LocalStep

LEMMA BeginTypes ==
  ASSUME TypeOK, NEW w \in Workers, Begin(w)
  PROVE  TypeOK'
<1>1. CASE \E via \in {"session", "nova", "approvals"}, allow \in BOOLEAN :
                BeginDecide(w, allow, via)
  <2> PICK via \in {"session", "nova", "approvals"}, allow \in BOOLEAN : BeginDecide(w, allow, via)
    BY <1>1
  <2> DEFINE r == [op |-> "decide", via |-> via, allow |-> allow]
  <2>1. r \in DecisionCalls
    BY DEF DecisionCalls, Entrances
  <2>2. Accept(w, r, "decide")
    BY DEF BeginDecide
  <2> HIDE DEF r
  <2> QED
    BY <2>1, <2>2, AcceptTypes
<1>2. CASE \E via \in {"session", "nova"}, k \in Keys : BeginPublish(w, k, via)
  <2> PICK via \in {"session", "nova"}, k \in Keys : BeginPublish(w, k, via)
    BY <1>2
  <2> DEFINE r == [op |-> "publish", via |-> via, key |-> k]
  <2>1. r \in PublishCalls /\ r.via = via
    BY DEF PublishCalls, Entrances
  <2>2. Accept(w, r, IF via = "nova" THEN "load_draft" ELSE "execution")
    BY DEF BeginPublish
  <2> HIDE DEF r
  <2>3. CASE via = "nova"
    BY <2>1, <2>2, <2>3, AcceptTypes
  <2>4. CASE via = "session"
    BY <2>1, <2>2, <2>4, AcceptTypes
  <2> QED
    BY <2>3, <2>4
<1> QED
  BY <1>1, <1>2 DEF Begin

\* Where the steps that change no key's rows may go, and what they keep.
LEMMA QuietStep ==
  ASSUME TypeOK, NEW w \in Workers,
         UNCHANGED <<approval, action, providerVars>>,
         \A v \in Workers \ {w} : pc'[v] = pc[v] /\ call'[v] = call[v] /\ mem'[v] = mem[v],
         \A k \in Keys : Holder(w, k)' => Holder(w, k),
         Typed', AtItsStep(w)'
  PROVE  TypeOK'
BY LocalStep DEF Local, providerVars

LEMMA DieTypes ==
  ASSUME TypeOK, NEW w \in Workers, Die(w)
  PROVE  TypeOK'
<1>1. pc[w] \in DecisionSteps \cup PublishSteps
  BY DEF Die, TypeOK, Typed
<1>2. call[w].op = "decide" \/ Key(w) \in Keys
  BY <1>1, PublishKey DEF TypeOK, AtItsStep, DecisionCalls
<1>3. Typed'
  BY <1>2, FinishTypes DEF Die, TypeOK, Typed, dbVars, providerVars
<1> QED
  BY <1>3, FinishTypes, QuietStep DEF Die, dbVars, providerVars

\* The labels of requests, and the types of what they remember.
LEMMA Moves ==
  ASSUME TypeOK, NEW w \in Workers, NEW s \in DecisionSteps \cup PublishSteps, Goto(w, s)
  PROVE  /\ pc' \in [Workers -> {"idle"} \cup DecisionSteps \cup PublishSteps]
         /\ pc'[w] = s
         /\ \A v \in Workers \ {w} : pc'[v] = pc[v]
BY DEF Goto, TypeOK, Typed

LEMMA Remembers ==
  ASSUME TypeOK, NEW w \in Workers, NEW field \in {"item", "social", "allowed", "result"},
         NEW value, Remember(w, field, value),
         field \in {"item", "social"} => value \in ItemStatuses,
         field = "allowed" => value \in BOOLEAN,
         field = "result" => value \in ActionStatuses
  PROVE  /\ mem' \in [Workers -> Locals]
         /\ \A v \in Workers \ {w} : mem'[v] = mem[v]
         /\ mem'[w].item = IF field = "item" THEN value ELSE mem[w].item
         /\ mem'[w].social = IF field = "social" THEN value ELSE mem[w].social
         /\ mem'[w].allowed = IF field = "allowed" THEN value ELSE mem[w].allowed
         /\ mem'[w].result = IF field = "result" THEN value ELSE mem[w].result
<1>1. mem[w] \in Locals /\ mem'[w] = [mem[w] EXCEPT ![field] = value]
  BY DEF Remember, TypeOK, Typed
<1>2. CASE field = "item"
  BY <1>1, <1>2 DEF Remember, TypeOK, Typed, Locals
<1>3. CASE field = "social"
  BY <1>1, <1>3 DEF Remember, TypeOK, Typed, Locals
<1>4. CASE field = "allowed"
  BY <1>1, <1>4 DEF Remember, TypeOK, Typed, Locals
<1>5. CASE field = "result"
  BY <1>1, <1>5 DEF Remember, TypeOK, Typed, Locals
<1> QED
  BY <1>2, <1>3, <1>4, <1>5

\* finalizeGovernedExecution and the item keep their types.
LEMMA FinalizeTypes ==
  ASSUME TypeOK, NEW outcome \in {"completed", "blocked", "failed"}, Finalize(outcome)
  PROVE  exec' \in Statuses
BY DEF Finalize, TypeOK, Typed, Statuses, TerminalStatuses

\* The steps of a decision.
LEMMA DecisionTypes ==
  ASSUME TypeOK, NEW w \in Workers,
         \/ DecideRow(w) \/ Resume(w) \/ MarkItem(w) \/ LoadItem(w)
         \/ SaveDecided(w) \/ Block(w) \/ Throw(w)
  PROVE  TypeOK'
<1>1. CASE DecideRow(w)
  <2>1. /\ pc[w] = "decide" /\ call[w] \in DecisionCalls /\ approval = "pending"
        /\ UNCHANGED <<exec, item, action, tools, providerVars, calls>>
        /\ approval' = IF call[w].allow THEN "approved" ELSE "denied"
    BY <1>1 DEF DecideRow, Undecided, TypeOK, AtItsStep, DecisionSteps
  <2>2. CASE call[w].via = "approvals"
    <3>1. Finish(w) /\ cut' = cut \cup {"bypass"}
      BY <1>1, <2>2 DEF DecideRow
    <3>2. Typed' /\ AtItsStep(w)'
      BY <2>1, <3>1, FinishTypes DEF TypeOK, Typed, providerVars
    <3>3. Local(w)
      BY <2>1, <3>1, FinishTypes DEF Local, providerVars
    <3> QED
      BY <3>2, <3>3, LocalStep
  <2>3. CASE call[w].via # "approvals"
    <3>1. Goto(w, "resume") /\ "resume" \in DecisionSteps /\ UNCHANGED <<call, mem, cut>>
      BY <1>1, <2>3 DEF DecideRow, DecisionSteps
    <3>2. Typed'
      BY <2>1, <3>1, Moves DEF TypeOK, Typed, providerVars
    <3>3. AtItsStep(w)'
      BY <2>1, <3>1, Moves
      DEF TypeOK, AtItsStep, DecisionSteps, PublishSteps, AskSteps, HoldSteps, AnswerSteps
    <3>4. Local(w)
      BY <2>1, <3>1, Moves DEF Local, providerVars, Holder, HoldSteps
    <3> QED
      BY <3>2, <3>3, <3>4, LocalStep
  <2> QED
    BY <2>2, <2>3
<1>2. CASE Resume(w)
  <2>1. PICK s \in {"load_item", "mark_item"} : Goto(w, s)
    BY <1>2 DEF Resume
  <2>2. s \in DecisionSteps
    BY DEF DecisionSteps
  <2>3. Typed'
    BY <1>2, <2>1, <2>2, Moves DEF Resume, TypeOK, Typed, providerVars, Statuses
  <2>4. AtItsStep(w)'
    BY <1>2, <2>1, <2>2, Moves
    DEF Resume, TypeOK, AtItsStep, DecisionSteps, PublishSteps, AskSteps, HoldSteps, AnswerSteps
  <2>5. \A k \in Keys : ~Holder(w, k)'
    BY <2>1, <2>2, Moves DEF Holder, HoldSteps
  <2> QED
    BY <1>2, <2>1, <2>2, <2>3, <2>4, <2>5, Moves, QuietStep DEF Resume, providerVars
<1>3. CASE MarkItem(w)
  <2>1. Finish(w) /\ item' \in ItemStatuses
    BY <1>3 DEF MarkItem, TypeOK, Typed, ItemStatuses
  <2>2. Typed'
    BY <1>3, <2>1, FinishTypes DEF MarkItem, TypeOK, Typed, providerVars
  <2> QED
    BY <1>3, <2>1, <2>2, FinishTypes, QuietStep DEF MarkItem, providerVars
<1>4. CASE LoadItem(w)
  <2>1. Goto(w, "save_decided") /\ Remember(w, "item", item) /\ "save_decided" \in DecisionSteps
    BY <1>4 DEF LoadItem, DecisionSteps
  <2>2. /\ mem' \in [Workers -> Locals]
        /\ \A v \in Workers \ {w} : mem'[v] = mem[v]
        /\ mem'[w].allowed = mem[w].allowed
    BY <2>1, Remembers DEF TypeOK, Typed
  <2>3. Typed'
    BY <1>4, <2>1, <2>2, Moves DEF LoadItem, TypeOK, Typed, dbVars, providerVars
  <2>4. AtItsStep(w)'
    BY <1>4, <2>1, <2>2, Moves
    DEF LoadItem, TypeOK, AtItsStep, dbVars, DecisionSteps, PublishSteps, AskSteps, HoldSteps, AnswerSteps
  <2>5. \A k \in Keys : ~Holder(w, k)'
    BY <2>1, Moves DEF Holder, HoldSteps
  <2> QED
    BY <1>4, <2>1, <2>2, <2>3, <2>4, <2>5, Moves, QuietStep DEF LoadItem, dbVars, providerVars
<1>5. CASE SaveDecided(w)
  <2>1. item' \in ItemStatuses
    BY <1>5 DEF SaveDecided, ItemStatuses
  <2>2. CASE call[w].allow
    <3>1. Finish(w)
      BY <1>5, <2>2 DEF SaveDecided
    <3>2. Typed'
      BY <1>5, <2>1, <3>1, FinishTypes DEF SaveDecided, TypeOK, Typed, providerVars
    <3> QED
      BY <1>5, <3>1, <3>2, FinishTypes, QuietStep DEF SaveDecided, providerVars
  <2>3. CASE ~call[w].allow
    <3>1. Goto(w, "block") /\ UNCHANGED <<call, mem>> /\ "block" \in DecisionSteps
      BY <1>5, <2>3 DEF SaveDecided, DecisionSteps
    <3>2. Typed'
      BY <1>5, <2>1, <3>1, Moves DEF SaveDecided, TypeOK, Typed, providerVars
    <3>3. AtItsStep(w)'
      BY <1>5, <2>3, <3>1, Moves
      DEF SaveDecided, TypeOK, AtItsStep, DecisionSteps, PublishSteps, AskSteps, HoldSteps, AnswerSteps
    <3>4. \A k \in Keys : ~Holder(w, k)'
      BY <3>1, Moves DEF Holder, HoldSteps
    <3> QED
      BY <1>5, <3>1, <3>2, <3>3, <3>4, Moves, QuietStep DEF SaveDecided, providerVars
  <2> QED
    BY <2>2, <2>3
<1>6. CASE Block(w)
  <2>1. Typed'
    BY <1>6, FinishTypes, FinalizeTypes DEF Block, TypeOK, Typed, providerVars
  <2> QED
    BY <1>6, <2>1, FinishTypes, QuietStep DEF Block, providerVars
<1>7. CASE Throw(w)
  <2>1. Typed'
    BY <1>7, FinishTypes DEF Throw, TypeOK, Typed, dbVars, providerVars
  <2> QED
    BY <1>7, <2>1, FinishTypes, QuietStep DEF Throw, dbVars, providerVars
<1> QED
  BY <1>1, <1>2, <1>3, <1>4, <1>5, <1>6, <1>7

\* A request that asks goes on to another question, or to the answer.
LEMMA AskMove ==
  ASSUME TypeOK, NEW w \in Workers, pc[w] \in AskSteps, NEW s \in AskSteps \cup {"answer"},
         Goto(w, s), UNCHANGED <<dbVars, providerVars, call, calls, cut>>,
         mem' \in [Workers -> Locals], \A v \in Workers \ {w} : mem'[v] = mem[v],
         mem'[w].allowed => approval = "approved",
         s = "authorize" => mem'[w].allowed,
         s # "load_draft",
         call[w].via = "nova" => mem'[w].item \in Publishable,
         s = "answer" => /\ mem'[w].result # "none"
                         /\ mem'[w].result \in Final => action[Key(w)] = mem'[w].result
  PROVE  TypeOK'
<1>1. s \in PublishSteps /\ s \notin HoldSteps
  BY DEF PublishSteps, AskSteps, HoldSteps, AnswerSteps
<1>2. pc'[w] = s /\ call'[w] = call[w] /\ call[w] \in PublishCalls /\ Key(w)' = Key(w)
  BY <1>1, Moves DEF TypeOK, AtItsStep, PublishSteps, Key
<1>3. Typed'
  BY <1>1, Moves DEF TypeOK, Typed, dbVars, providerVars
<1>4. AtItsStep(w)'
  BY <1>1, <1>2
  DEF AtItsStep, dbVars, DecisionSteps, PublishSteps, AskSteps, HoldSteps, AnswerSteps
<1>5. \A k \in Keys : ~Holder(w, k)'
  BY <1>1, <1>2 DEF Holder
<1> QED
  BY <1>1, <1>3, <1>4, <1>5, Moves, QuietStep DEF dbVars, providerVars

\* The steps of a publication before it holds the key, but for Authorize.
LEMMA AskTypes ==
  ASSUME TypeOK, NEW w \in Workers,
         \/ LoadDraft(w) \/ CheckExecution(w) \/ CheckItem(w)
         \/ EvaluatePolicy(w) \/ LookupKey(w)
  PROVE  TypeOK'
<1>1. pc[w] \in AskSteps /\ pc[w] \in PublishSteps /\ mem[w] \in Locals
  BY DEF LoadDraft, CheckExecution, CheckItem, EvaluatePolicy, LookupKey, AskSteps, PublishSteps,
         TypeOK, Typed
<1>2. AtItsStep(w)
  BY DEF TypeOK
<1>3. CASE Finish(w)
  <2>1. UNCHANGED <<dbVars, providerVars, calls, cut>>
    BY <1>3 DEF LoadDraft, CheckExecution, CheckItem, EvaluatePolicy, LookupKey
  <2>2. Typed'
    BY <1>3, <2>1, FinishTypes DEF TypeOK, Typed, dbVars, providerVars
  <2> QED
    BY <1>3, <2>1, <2>2, FinishTypes, QuietStep DEF dbVars, providerVars
<1>4. CASE LoadDraft(w) /\ ~Finish(w)
  <2>1. /\ Remember(w, "item", item) /\ Goto(w, "execution") /\ item \in Publishable
        /\ UNCHANGED <<dbVars, providerVars, call, calls, cut>>
    BY <1>4 DEF LoadDraft
  <2>2. /\ mem' \in [Workers -> Locals] /\ \A v \in Workers \ {w} : mem'[v] = mem[v]
        /\ mem'[w].item = item /\ mem'[w].allowed = mem[w].allowed
    BY <2>1, Remembers DEF TypeOK, Typed
  <2> QED
    BY <1>1, <1>2, <2>1, <2>2, AskMove DEF AskSteps, AtItsStep
<1>5. CASE CheckExecution(w) /\ ~Finish(w)
  <2>1. pc[w] = "execution" /\ Goto(w, "item") /\ UNCHANGED <<dbVars, providerVars, call, mem, calls, cut>>
    BY <1>5 DEF CheckExecution
  <2>2. mem' \in [Workers -> Locals]
    BY <2>1 DEF TypeOK, Typed
  <2> QED
    BY <1>1, <1>2, <2>1, <2>2, AskMove DEF AskSteps, AtItsStep
<1>6. CASE CheckItem(w) /\ ~Finish(w)
  <2>1. /\ pc[w] = "item" /\ Remember(w, "social", item) /\ Goto(w, "policy")
        /\ UNCHANGED <<dbVars, providerVars, call, calls, cut>>
    BY <1>6 DEF CheckItem
  <2>2. /\ mem' \in [Workers -> Locals] /\ \A v \in Workers \ {w} : mem'[v] = mem[v]
        /\ mem'[w].item = mem[w].item /\ mem'[w].allowed = mem[w].allowed
    BY <2>1, Remembers DEF TypeOK, Typed
  <2> QED
    BY <1>1, <1>2, <2>1, <2>2, AskMove DEF AskSteps, AtItsStep
<1>7. CASE EvaluatePolicy(w) /\ ~Finish(w)
  <2>1. PICK configured \in BOOLEAN : Remember(w, "allowed", configured /\ approval = "approved")
    BY <1>7 DEF EvaluatePolicy
  <2>2. /\ pc[w] = "policy" /\ Goto(w, "lookup")
        /\ UNCHANGED <<dbVars, providerVars, call, calls, cut>>
    BY <1>7 DEF EvaluatePolicy
  <2>3. (configured /\ approval = "approved") \in BOOLEAN
    OBVIOUS
  <2>4. /\ mem' \in [Workers -> Locals] /\ \A v \in Workers \ {w} : mem'[v] = mem[v]
        /\ mem'[w].item = mem[w].item
        /\ mem'[w].allowed = (configured /\ approval = "approved")
    BY <2>1, <2>3, Remembers
  <2> QED
    BY <1>1, <1>2, <2>2, <2>4, AskMove DEF AskSteps, AtItsStep
<1>8. CASE LookupKey(w) /\ ~Finish(w)
  <2>1. pc[w] = "lookup" /\ UNCHANGED <<dbVars, providerVars, call, calls, cut>>
    BY <1>8 DEF LookupKey
  <2>2. CASE action[Key(w)] # "none"
    <3>1. Remember(w, "result", action[Key(w)]) /\ Goto(w, "answer")
      BY <1>8, <2>2 DEF LookupKey
    <3>2. action[Key(w)] \in ActionStatuses
      BY <1>1, PublishKey DEF TypeOK, Typed
    <3>3. /\ mem' \in [Workers -> Locals] /\ \A v \in Workers \ {w} : mem'[v] = mem[v]
          /\ mem'[w].item = mem[w].item /\ mem'[w].allowed = mem[w].allowed
          /\ mem'[w].result = action[Key(w)]
      BY <3>1, <3>2, Remembers
    <3> QED
      BY <1>1, <1>2, <2>1, <2>2, <3>1, <3>3, AskMove DEF AskSteps, AtItsStep
  <2>3. CASE action[Key(w)] = "none"
    <3>1. PICK s \in {"authorize", "deny"} :
            Goto(w, s) /\ UNCHANGED mem /\ (s = "authorize" => mem[w].allowed)
      BY <1>8, <2>3 DEF LookupKey
    <3>2. mem' \in [Workers -> Locals]
      BY <3>1 DEF TypeOK, Typed
    <3> QED
      BY <1>1, <1>2, <2>1, <3>1, <3>2, AskMove DEF AskSteps, AtItsStep
  <2> QED
    BY <2>2, <2>3
<1> QED
  BY <1>3, <1>4, <1>5, <1>6, <1>7, <1>8

\* What RecordTool appends.
LEMMA RecordOne ==
  ASSUME tools \in Seq([type : ToolTypes, key : Keys]), NEW k \in Keys, NEW t \in ToolTypes,
         RecordTool(k, <<t>>)
  PROVE  /\ tools' \in Seq([type : ToolTypes, key : Keys])
         /\ Len(tools') = Len(tools) + 1
         /\ \A i \in 1..Len(tools) : tools'[i] = tools[i]
         /\ tools'[Len(tools) + 1] = [type |-> t, key |-> k]
<1> DEFINE more == [i \in DOMAIN <<t>> |-> [type |-> <<t>>[i], key |-> k]]
<1>1. more \in Seq([type : ToolTypes, key : Keys]) /\ Len(more) = 1 /\ more[1] = [type |-> t, key |-> k]
  <2>1. more = <<[type |-> t, key |-> k]>>
    OBVIOUS
  <2> QED
    BY <2>1
<1>2. tools' = tools \o more
  BY DEF RecordTool
<1> HIDE DEF more
<1> QED
  BY <1>1, <1>2, ConcatProperties

LEMMA RecordTwo ==
  ASSUME tools \in Seq([type : ToolTypes, key : Keys]), NEW k \in Keys,
         NEW t \in ToolTypes, NEW u \in ToolTypes, RecordTool(k, <<t, u>>)
  PROVE  /\ tools' \in Seq([type : ToolTypes, key : Keys])
         /\ Len(tools') = Len(tools) + 2
         /\ \A i \in 1..Len(tools) : tools'[i] = tools[i]
         /\ tools'[Len(tools) + 1] = [type |-> t, key |-> k]
         /\ tools'[Len(tools) + 2] = [type |-> u, key |-> k]
<1> DEFINE more == [i \in DOMAIN <<t, u>> |-> [type |-> <<t, u>>[i], key |-> k]]
<1>1. /\ more \in Seq([type : ToolTypes, key : Keys]) /\ Len(more) = 2
      /\ more[1] = [type |-> t, key |-> k] /\ more[2] = [type |-> u, key |-> k]
  <2>1. more = <<[type |-> t, key |-> k], [type |-> u, key |-> k]>>
    OBVIOUS
  <2> QED
    BY <2>1
<1>2. tools' = tools \o more
  BY DEF RecordTool
<1> HIDE DEF more
<1>3. Len(tools) \in Nat /\ 1 \in 1..Len(more) /\ 2 \in 1..Len(more)
  BY <1>1, LenProperties
<1> DEFINE n == Len(tools)
<1>4. /\ tools' \in Seq([type : ToolTypes, key : Keys]) /\ Len(tools') = n + 2
      /\ \A i \in 1..(n + 2) : tools'[i] = IF i <= n THEN tools[i] ELSE more[i - n]
  <2>1. /\ tools \o more \in Seq([type : ToolTypes, key : Keys])
        /\ Len(tools \o more) = n + Len(more)
        /\ \A i \in 1..(n + Len(more)) :
             (tools \o more)[i] = IF i <= n THEN tools[i] ELSE more[i - n]
    BY <1>1, ConcatProperties
  <2> QED
    BY <1>1, <1>2, <2>1
<1>5. n \in Nat
  BY <1>3
<1> HIDE DEF n
<1>6. tools'[n + 1] = more[1] /\ tools'[n + 2] = more[2]
  <2>1. (n + 1) - n = 1 /\ (n + 2) - n = 2 /\ n + 1 \in 1..(n + 2) /\ n + 2 \in 1..(n + 2)
        /\ ~(n + 1 <= n) /\ ~(n + 2 <= n)
    BY <1>5
  <2> QED
    BY <1>4, <2>1
<1>7. \A i \in 1..n : tools'[i] = tools[i]
  <2> SUFFICES ASSUME NEW i \in 1..n PROVE tools'[i] = tools[i]
    OBVIOUS
  <2>1. i \in 1..(n + 2) /\ i <= n
    BY <1>5
  <2> QED
    BY <1>4, <2>1
<1> QED
  BY <1>1, <1>4, <1>6, <1>7 DEF n

\* The refusal, and the intent.
LEMMA IntentTypes ==
  ASSUME TypeOK, NEW w \in Workers, Deny(w) \/ Authorize(w)
  PROVE  TypeOK'
<1>1. pc[w] \in AskSteps /\ pc[w] \in PublishSteps /\ call[w] \in PublishCalls
  BY DEF Deny, Authorize, AskSteps, PublishSteps, TypeOK, AtItsStep
<1>2. PICK k \in Keys : k = Key(w)
  BY <1>1, PublishKey
<1>3. AtItsStep(w) /\ tools \in Seq([type : ToolTypes, key : Keys]) /\ mem[w] \in Locals
  BY DEF TypeOK, Typed
<1>4. CASE Deny(w)
  <2>1. tools' \in Seq([type : ToolTypes, key : Keys])
    BY <1>2, <1>3, <1>4, RecordTwo DEF Deny, ToolTypes
  <2>2. Typed'
    BY <1>4, <2>1, FinishTypes DEF Deny, TypeOK, Typed, providerVars
  <2> QED
    BY <1>4, <2>2, FinishTypes, QuietStep DEF Deny, providerVars
<1>5. CASE Authorize(w) /\ Duplicate(k)
  <2>1. /\ Remember(w, "result", action[k]) /\ Goto(w, "answer") /\ action[k] \in ActionStatuses
        /\ action[k] # "none" /\ UNCHANGED <<dbVars, providerVars, call, calls, cut>>
    BY <1>2, <1>5 DEF Authorize, Duplicate, dbVars, TypeOK, Typed
  <2>2. /\ mem' \in [Workers -> Locals] /\ \A v \in Workers \ {w} : mem'[v] = mem[v]
        /\ mem'[w].item = mem[w].item /\ mem'[w].allowed = mem[w].allowed
        /\ mem'[w].result = action[k]
    BY <2>1, Remembers
  <2> QED
    BY <1>1, <1>2, <1>3, <1>5, <2>1, <2>2, AskMove DEF Authorize, AskSteps, AtItsStep
<1>6. CASE Authorize(w) /\ ~Duplicate(k)
  <2>1. /\ action[k] = "none" /\ action' = [action EXCEPT ![k] = "authorized"]
        /\ RecordTool(k, <<"tool.requested", "tool.authorized">>)
        /\ Goto(w, "mark_social") /\ UNCHANGED <<mem, exec, approval, item, providerVars, call, calls, cut>>
    BY <1>2, <1>6 DEF Authorize, Duplicate
  <2>2. tools' \in Seq([type : ToolTypes, key : Keys])
    BY <1>3, <2>1, RecordTwo DEF ToolTypes
  <2>3. "mark_social" \in PublishSteps /\ "mark_social" \in HoldSteps /\ "mark_social" \notin DecisionSteps
    BY DEF PublishSteps, HoldSteps, DecisionSteps
  <2>4. Typed'
    BY <2>1, <2>2, <2>3, Moves DEF TypeOK, Typed, providerVars, ActionStatuses
  <2>5. action'[k] = "authorized"
    BY <2>1 DEF TypeOK, Typed
  <2>6. AtItsStep(w)'
    BY <1>1, <1>2, <1>3, <1>6, <2>1, <2>3, <2>5, Moves
    DEF AtItsStep, Authorize, Holds, Key, AskSteps, AnswerSteps
  <2>7. \A j \in Keys \ {k} : action'[j] = action[j] /\ ~Holder(w, j)'
    BY <1>2, <2>1 DEF Holder, Key, TypeOK, Typed
  <2>8. Local(w)
    BY <1>2, <2>1, <2>3, <2>7, Moves DEF Local, providerVars, Final
  <2> QED
    BY <2>4, <2>6, <2>8, LocalStep
<1> QED
  BY <1>2, <1>4, <1>5, <1>6

\* The holder of a key goes on with it.
LEMMA HoldMove ==
  ASSUME TypeOK, NEW w \in Workers, pc[w] \in HoldSteps, NEW k \in Keys, k = Key(w),
         NEW s \in HoldSteps \cup {"answer"}, Goto(w, s), Typed', approval' = approval,
         call'[w].key = k, call'[w].via = call[w].via, call'[w] \in PublishCalls,
         \A v \in Workers \ {w} : call'[v] = call[v] /\ mem'[v] = mem[v],
         mem'[w].allowed = mem[w].allowed, mem'[w].item = mem[w].item,
         \A j \in Keys \ {k} :
           action'[j] = action[j] /\ sent'[j] = sent[j] /\ delivered'[j] = delivered[j],
         action[k] \in Final => action'[k] = action[k],
         s \in {"mark_social", "execute"} => action'[k] = "authorized",
         s \in {"call", "response"} => action'[k] = "executing",
         s = "call" => sent'[k] = 0,
         s = "finish_row" =>
           /\ action'[k] \in {"authorized", "executing"} /\ mem'[w].result \in Final
           /\ mem'[w].result = "succeeded" => delivered'[k]
           /\ mem'[w].result = "failed" => ~delivered'[k],
         s \in {"finish_event", "finish_social", "answer"} =>
           mem'[w].result \in Final /\ action'[k] = mem'[w].result
  PROVE  TypeOK'
<1>1. s \in PublishSteps /\ pc[w] \in PublishSteps /\ pc[w] \notin AskSteps
  BY DEF PublishSteps, HoldSteps, AnswerSteps, AskSteps
<1>2. pc'[w] = s /\ Key(w)' = k
  BY <1>1, Moves DEF Key
<1>3. AtItsStep(w)
  BY DEF TypeOK
<1>4. Holds(pc[w], Key(w), mem[w].result)'
  BY <1>2 DEF Holds
<1>5. s = "answer" => mem'[w].result # "none"
  BY DEF Final
<1>6. s \notin DecisionSteps /\ s \notin {"idle", "authorize", "load_draft"}
  BY DEF DecisionSteps, HoldSteps
<1>7. call[w].via = "nova" => mem[w].item \in Publishable
  BY <1>1, <1>3 DEF AtItsStep, AskSteps
<1>8. mem[w].allowed => approval = "approved"
  BY <1>3 DEF AtItsStep
<1>9. AtItsStep(w)'
  BY <1>2, <1>4, <1>5, <1>6, <1>7, <1>8 DEF AtItsStep, AnswerSteps, HoldSteps
<1>10. Local(w)
  BY <1>1, <1>2, Moves DEF Local, Holder
<1> QED
  BY <1>9, <1>10, LocalStep

\* The steps of the holder.
LEMMA HoldTypes ==
  ASSUME TypeOK, NEW w \in Workers,
         \/ MarkSocial(w) \/ NotConfigured(w) \/ MarkExecuting(w) \/ InvalidSchedule(w)
         \/ CallProvider(w) \/ Respond(w) \/ FinishRow(w) \/ FinishEvent(w) \/ FinishSocial(w),
         \A k \in Keys : action[k] \in {"none", "authorized"} => sent[k] = 0,
         \A k \in Keys : sent[k] = 0 => ~delivered[k]
  PROVE  TypeOK'
<1>1. pc[w] \in HoldSteps /\ pc[w] \in PublishSteps
  BY DEF MarkSocial, NotConfigured, MarkExecuting, InvalidSchedule, CallProvider, Respond,
         FinishRow, FinishEvent, FinishSocial, HoldSteps, PublishSteps
<1>2. PICK k \in Keys : k = Key(w)
  BY <1>1, PublishKey
<1>3. /\ AtItsStep(w) /\ mem[w] \in Locals /\ call[w] \in PublishCalls
      /\ Holds(pc[w], k, mem[w].result) /\ (pc[w] = "call" => sent[k] = 0)
  BY <1>1, <1>2 DEF TypeOK, Typed, AtItsStep
<1>4. CASE MarkSocial(w)
  <2>1. pc[w] = "mark_social" /\ Goto(w, "execute")
        /\ UNCHANGED <<exec, approval, action, tools, providerVars, call, mem, calls, cut>>
    BY <1>4 DEF MarkSocial
  <2>2. item' \in ItemStatuses
    BY <1>4 DEF MarkSocial, TypeOK, Typed, ItemStatuses
  <2>3. Typed'
    BY <2>1, <2>2, Moves DEF TypeOK, Typed, providerVars, HoldSteps, PublishSteps
  <2> QED
    BY <1>1, <1>2, <1>3, <2>1, <2>3, HoldMove DEF Key, providerVars, HoldSteps, Holds
<1>5. CASE NotConfigured(w)
  <2>1. /\ pc[w] = "execute" /\ Remember(w, "result", "failed") /\ Goto(w, "finish_row")
        /\ call' = [call EXCEPT ![w].op = "unconfigured"]
        /\ UNCHANGED <<dbVars, providerVars, calls, cut>>
    BY <1>5 DEF NotConfigured
  <2>2. /\ mem' \in [Workers -> Locals] /\ \A v \in Workers \ {w} : mem'[v] = mem[v]
        /\ mem'[w].item = mem[w].item /\ mem'[w].allowed = mem[w].allowed
        /\ mem'[w].result = "failed"
    BY <2>1, Remembers DEF ActionStatuses, Final
  <2>3. /\ call'[w] \in PublishCalls /\ call'[w].key = call[w].key /\ call'[w].via = call[w].via
        /\ \A v \in Workers \ {w} : call'[v] = call[v]
        /\ call' \in [Workers -> {NoCall} \cup DecisionCalls \cup PublishCalls]
    BY <1>3, <2>1 DEF PublishCalls, TypeOK, Typed
  <2>4. Typed'
    BY <2>1, <2>2, <2>3, Moves DEF TypeOK, Typed, dbVars, providerVars, HoldSteps, PublishSteps
  <2>5. action'[k] \in {"authorized", "executing"} /\ "failed" \in Final /\ ~delivered'[k]
    BY <1>3, <2>1 DEF Holds, dbVars, providerVars, Final
  <2> QED
    BY <1>1, <1>2, <1>3, <2>1, <2>2, <2>3, <2>4, <2>5, HoldMove
    DEF Key, dbVars, providerVars, HoldSteps
<1>6. CASE MarkExecuting(w)
  <2>1. /\ pc[w] = "execute" /\ action' = [action EXCEPT ![k] = "executing"] /\ Goto(w, "call")
        /\ UNCHANGED <<exec, approval, item, tools, providerVars, call, mem, calls, cut>>
    BY <1>2, <1>6 DEF MarkExecuting
  <2>2. Typed'
    BY <2>1, Moves DEF TypeOK, Typed, providerVars, HoldSteps, PublishSteps, ActionStatuses
  <2>3. /\ action[k] = "authorized" /\ sent'[k] = 0 /\ action'[k] = "executing"
        /\ \A j \in Keys \ {k} : action'[j] = action[j]
    BY <1>3, <2>1 DEF Holds, providerVars, TypeOK, Typed
  <2> QED
    BY <1>1, <1>2, <1>3, <2>1, <2>2, <2>3, HoldMove DEF Key, providerVars, HoldSteps, Holds, Final
<1>7. CASE InvalidSchedule(w) \/ Respond(w)
  <2>1. PICK v \in Final :
          /\ Remember(w, "result", v) /\ Goto(w, "finish_row")
          /\ v = "succeeded" => delivered[k]
          /\ v = "failed" => ~delivered[k]
    BY <1>2, <1>3, <1>7 DEF InvalidSchedule, Respond, Verdicts, Final
  <2>2. pc[w] \in {"call", "response"} /\ UNCHANGED <<dbVars, providerVars, call, calls, cut>>
    BY <1>7 DEF InvalidSchedule, Respond
  <2>3. /\ mem' \in [Workers -> Locals] /\ \A x \in Workers \ {w} : mem'[x] = mem[x]
        /\ mem'[w].item = mem[w].item /\ mem'[w].allowed = mem[w].allowed
        /\ mem'[w].result = v
    BY <2>1, Remembers DEF ActionStatuses
  <2>4. Typed'
    BY <2>1, <2>2, <2>3, Moves DEF TypeOK, Typed, dbVars, providerVars, HoldSteps, PublishSteps
  <2>5. /\ action'[k] \in {"authorized", "executing"}
        /\ v = "succeeded" => delivered'[k]
        /\ v = "failed" => ~delivered'[k]
    BY <1>3, <2>1, <2>2 DEF Holds, dbVars, providerVars
  <2> QED
    BY <1>1, <1>2, <1>3, <2>1, <2>2, <2>3, <2>4, <2>5, HoldMove DEF Key, dbVars, providerVars, HoldSteps
<1>8. CASE CallProvider(w)
  <2>1. PICK done \in BOOLEAN : delivered' = [delivered EXCEPT ![k] = @ \/ done]
    BY <1>2, <1>8 DEF CallProvider
  <2>2. /\ pc[w] = "call" /\ sent' = [sent EXCEPT ![k] = @ + 1] /\ Goto(w, "response")
        /\ UNCHANGED <<dbVars, call, mem, calls, cut>>
    BY <1>2, <1>8 DEF CallProvider
  <2>3. /\ sent' \in [Keys -> Nat] /\ delivered' \in [Keys -> BOOLEAN]
        /\ \A j \in Keys \ {k} : sent'[j] = sent[j] /\ delivered'[j] = delivered[j]
    BY <2>1, <2>2 DEF TypeOK, Typed
  <2>4. Typed'
    BY <2>2, <2>3, Moves DEF TypeOK, Typed, dbVars, HoldSteps, PublishSteps
  <2> QED
    BY <1>1, <1>2, <1>3, <2>2, <2>3, <2>4, HoldMove DEF Key, dbVars, HoldSteps, Holds
<1>9. CASE FinishRow(w)
  <2>1. /\ pc[w] = "finish_row" /\ action' = [action EXCEPT ![k] = mem[w].result]
        /\ Goto(w, "finish_event")
        /\ UNCHANGED <<exec, approval, item, tools, providerVars, call, mem, calls, cut>>
    BY <1>2, <1>9 DEF FinishRow
  <2>2. mem[w].result \in Final /\ action[k] \notin Final
    BY <1>3, <2>1 DEF Holds, Final
  <2>3. Typed'
    BY <2>1, <2>2, Moves DEF TypeOK, Typed, providerVars, HoldSteps, PublishSteps, ActionStatuses
  <2>4. action'[k] = mem[w].result /\ \A j \in Keys \ {k} : action'[j] = action[j]
    BY <2>1 DEF TypeOK, Typed
  <2> QED
    BY <1>1, <1>2, <1>3, <2>1, <2>2, <2>3, <2>4, HoldMove DEF Key, providerVars, HoldSteps, Holds
<1>10. CASE FinishEvent(w)
  <2>1. /\ pc[w] = "finish_event" /\ Goto(w, "finish_social")
        /\ UNCHANGED <<exec, approval, item, action, providerVars, call, mem, calls, cut>>
    BY <1>10 DEF FinishEvent
  <2>2. tools' \in Seq([type : ToolTypes, key : Keys])
    <3>1. PICK t \in ToolTypes : RecordTool(k, <<t>>)
      BY <1>2, <1>10 DEF FinishEvent, ToolTypes
    <3> QED
      BY <3>1, RecordOne DEF TypeOK, Typed
  <2>3. Typed'
    BY <2>1, <2>2, Moves DEF TypeOK, Typed, providerVars, HoldSteps, PublishSteps
  <2> QED
    BY <1>1, <1>2, <1>3, <2>1, <2>3, HoldMove DEF Key, providerVars, HoldSteps, Holds
<1>11. CASE FinishSocial(w)
  <2>1. /\ pc[w] = "finish_social" /\ item' = SocialStatus(mem[w].result, k)
        /\ UNCHANGED <<exec, approval, action, tools, providerVars, calls, cut>>
    BY <1>2, <1>11 DEF FinishSocial
  <2>2. mem[w].result \in Final /\ action[k] = mem[w].result
    BY <1>3, <2>1 DEF Holds
  <2>3. item' \in ItemStatuses
    BY <2>1, <2>2 DEF SocialStatus, ItemStatuses, Final
  <2>4. CASE Finish(w)
    <3>1. Typed'
      BY <2>1, <2>3, <2>4, FinishTypes DEF TypeOK, Typed, providerVars
    <3> QED
      BY <2>1, <2>4, <3>1, FinishTypes, QuietStep DEF providerVars
  <2>5. CASE Goto(w, "answer") /\ UNCHANGED <<call, mem>>
    <3>1. Typed'
      BY <2>1, <2>3, <2>5, Moves DEF TypeOK, Typed, providerVars, AnswerSteps, PublishSteps
    <3> QED
      BY <1>1, <1>2, <1>3, <2>1, <2>2, <2>5, <3>1, HoldMove DEF Key, providerVars, HoldSteps, Final
  <2> QED
    BY <1>11, <2>4, <2>5 DEF FinishSocial
<1> QED
  BY <1>4, <1>5, <1>6, <1>7, <1>8, <1>9, <1>10, <1>11
\* After the gateway's answer.
LEMMA AnswerTypes ==
  ASSUME TypeOK, NEW w \in Workers, SessionAnswer(w) \/ SaveItem(w) \/ Close(w)
  PROVE  TypeOK'
<1>1. pc[w] \in AnswerSteps /\ pc[w] \in PublishSteps /\ pc[w] \notin AskSteps
  BY DEF SessionAnswer, SaveItem, Close, AnswerSteps, PublishSteps, AskSteps
<1>2. /\ AtItsStep(w) /\ call[w] \in PublishCalls
      /\ call[w].via = "nova" => mem[w].item \in Publishable
  BY <1>1 DEF TypeOK, AtItsStep, AskSteps
<1>3. CASE SessionAnswer(w) \/ Close(w)
  <2>1. Finish(w) /\ UNCHANGED <<approval, item, action, tools, providerVars, calls, cut>>
    BY <1>3 DEF SessionAnswer, Close
  <2>2. exec' \in Statuses
    BY <1>3, FinalizeTypes DEF SessionAnswer, Close, TypeOK, Typed
  <2>3. Typed'
    BY <2>1, <2>2, FinishTypes DEF TypeOK, Typed, providerVars
  <2> QED
    BY <2>1, <2>3, FinishTypes, QuietStep DEF providerVars
<1>4. CASE SaveItem(w)
  <2>1. /\ call[w].via = "nova" /\ pc[w] = "answer" /\ Goto(w, "close")
        /\ UNCHANGED <<exec, approval, action, tools, providerVars, call, mem, calls, cut>>
    BY <1>4 DEF SaveItem
  <2>2. item' \in ItemStatuses
    <3>1. CASE mem[w].result \in Final
      BY <1>4, <3>1 DEF SaveItem, SocialStatus, Final, ItemStatuses
    <3>2. CASE mem[w].result \notin Final
      BY <1>2, <1>4, <2>1, <3>2 DEF SaveItem, Publishable, ItemStatuses
    <3> QED
      BY <3>1, <3>2
  <2>3. "close" \in PublishSteps /\ "close" \notin HoldSteps /\ "close" \notin DecisionSteps
    BY DEF PublishSteps, AnswerSteps, HoldSteps, DecisionSteps
  <2>4. Typed'
    BY <2>1, <2>2, <2>3, Moves DEF TypeOK, Typed, providerVars
  <2>5. pc'[w] = "close" /\ Key(w)' = Key(w)
    BY <2>1, <2>3, Moves DEF Key
  <2>6. AtItsStep(w)'
    BY <1>1, <1>2, <2>1, <2>3, <2>5 DEF AtItsStep, AnswerSteps, AskSteps
  <2>7. \A k \in Keys : ~Holder(w, k)'
    BY <2>3, <2>5 DEF Holder
  <2> QED
    BY <2>1, <2>3, <2>4, <2>6, <2>7, Moves, QuietStep DEF providerVars
<1> QED
  BY <1>3, <1>4

LEMMA InitTypes == Init => TypeOK
<1> SUFFICES ASSUME Init PROVE TypeOK
  OBVIOUS
<1>1. NoMem \in Locals
  BY DEF NoMem, Locals, ActionStatuses
<1>2. Typed
  BY <1>1, GatewayMaxCallsAssumption
  DEF Init, Typed, Statuses, TerminalStatuses, ItemStatuses, ActionStatuses
<1>3. \A w \in Workers : AtItsStep(w)
  BY DEF Init, AtItsStep, NoMem, DecisionSteps, PublishSteps, AskSteps, HoldSteps, AnswerSteps
<1>4. \A w \in Workers : \A k \in Keys : ~Holder(w, k)
  BY DEF Init, Holder, HoldSteps
<1> QED
  BY <1>2, <1>3, <1>4 DEF TypeOK

-----------------------------------------------------------------------------
(* The keys *)

Granted(k) == ToolEvents(k, {"tool.authorized"})
Completed(k) == ToolEvents(k, {"tool.completed"})

\* The rows of a key, the record of the tool and the provider agree.
KeyOK(k) ==
  /\ sent[k] <= 1
  /\ sent[k] = 0 => ~delivered[k]
  /\ action[k] \in {"none", "authorized"} => sent[k] = 0
  /\ action[k] = "none" => Granted(k) = {}
  /\ action[k] # "none" => approval = "approved" /\ \E i \in Nat : Granted(k) = {i}
  /\ action[k] = "succeeded" => delivered[k]
  /\ action[k] = "failed" => ~delivered[k]
  /\ Completed(k) # {} => action[k] = "succeeded"

\* What the item and the execution say of the keys.
RowsOK ==
  /\ item = "posted" => \E k \in Keys \ Schedules : action[k] = "succeeded"
  /\ item = "scheduled" => \E k \in Schedules : action[k] = "succeeded"
  /\ exec = "completed" => \E k \in Keys : action[k] = "succeeded"
  /\ exec = "blocked" => approval = "denied"

IInv == TypeOK /\ (\A k \in Keys : KeyOK(k)) /\ RowsOK

\* The new indices of a record that grows by one event, or by two.
LEMMA OneMore ==
  ASSUME tools \in Seq([type : ToolTypes, key : Keys]), NEW k \in Keys, NEW t \in ToolTypes,
         RecordTool(k, <<t>>), NEW j \in Keys
  PROVE  /\ t # "tool.authorized" => Granted(j)' = Granted(j)
         /\ ~(j = k /\ t = "tool.completed") => Completed(j)' = Completed(j)
<1> DEFINE n == Len(tools)
<1>1. /\ Len(tools') = n + 1 /\ DOMAIN tools' = 1..(n + 1) /\ DOMAIN tools = 1..n
      /\ n \in Nat /\ \A i \in 1..n : tools'[i] = tools[i]
      /\ tools'[n + 1] = [type |-> t, key |-> k]
  BY RecordOne, LenProperties
<1> HIDE DEF n
<1>2. 1..(n + 1) = 1..n \cup {n + 1}
  BY <1>1
<1> QED
  BY <1>1, <1>2 DEF Granted, Completed, ToolEvents, n

LEMMA TwoMore ==
  ASSUME tools \in Seq([type : ToolTypes, key : Keys]), NEW k \in Keys,
         NEW t \in ToolTypes, NEW u \in ToolTypes, RecordTool(k, <<t, u>>), NEW j \in Keys,
         t \notin {"tool.authorized", "tool.completed"}
  PROVE  /\ Granted(j)' = Granted(j) \cup
              (IF j = k /\ u = "tool.authorized" THEN {Len(tools) + 2} ELSE {})
         /\ Completed(j)' = Completed(j) \cup
              (IF j = k /\ u = "tool.completed" THEN {Len(tools) + 2} ELSE {})
<1> DEFINE n == Len(tools)
<1>1. /\ Len(tools') = n + 2 /\ DOMAIN tools' = 1..(n + 2) /\ DOMAIN tools = 1..n
      /\ n \in Nat /\ \A i \in 1..n : tools'[i] = tools[i]
      /\ tools'[n + 1] = [type |-> t, key |-> k]
      /\ tools'[n + 2] = [type |-> u, key |-> k]
  BY RecordTwo, LenProperties
<1> HIDE DEF n
<1>2. 1..(n + 2) = 1..n \cup {n + 1} \cup {n + 2}
  BY <1>1
<1> QED
  BY <1>1, <1>2 DEF Granted, Completed, ToolEvents, n
\* Keys whose rows, record and calls a step leaves as they are.
LEMMA KeptKey ==
  ASSUME TypeOK, NEW k \in Keys, KeyOK(k),
         approval' = approval \/ approval = "pending",
         action'[k] = action[k], sent'[k] = sent[k], delivered'[k] = delivered[k],
         Granted(k)' = Granted(k), Completed(k)' = Completed(k)
  PROVE  KeyOK(k)'
BY DEF KeyOK

\* Steps that touch no key.
LEMMA KeptKeys ==
  ASSUME IInv, approval' = approval \/ approval = "pending",
         UNCHANGED <<action, tools, providerVars>>
  PROVE  \A k \in Keys : KeyOK(k)'
<1>1. \A k \in Keys : Granted(k)' = Granted(k) /\ Completed(k)' = Completed(k)
  BY DEF Granted, Completed, ToolEvents
<1> QED
  BY <1>1, KeptKey DEF IInv, providerVars

\* The steps that do.
KeyStep(w) ==
  Deny(w) \/ Authorize(w) \/ MarkExecuting(w) \/ CallProvider(w) \/ FinishRow(w) \/ FinishEvent(w)

LEMMA KeySteps ==
  ASSUME IInv, NEW w \in Workers, KeyStep(w)
  PROVE  \A k \in Keys : KeyOK(k)'
<1>1. pc[w] \in PublishSteps
  BY DEF KeyStep, Deny, Authorize, MarkExecuting, CallProvider, FinishRow, FinishEvent,
         PublishSteps, AskSteps, HoldSteps
<1>2. PICK k \in Keys : k = Key(w)
  BY <1>1, PublishKey DEF IInv
<1>3. /\ TypeOK /\ AtItsStep(w) /\ Typed /\ tools \in Seq([type : ToolTypes, key : Keys])
      /\ \A j \in Keys : KeyOK(j)
  BY DEF IInv, TypeOK, Typed
<1>4. pc[w] \in HoldSteps => Holds(pc[w], k, mem[w].result)
  BY <1>1, <1>2, <1>3 DEF AtItsStep
<1>5. ASSUME UNCHANGED tools
      PROVE  \A j \in Keys : Granted(j)' = Granted(j) /\ Completed(j)' = Completed(j)
  BY <1>5 DEF Granted, Completed, ToolEvents
<1>6. CASE Deny(w)
  <2>1. /\ RecordTool(k, <<"tool.requested", "tool.denied">>)
        /\ UNCHANGED <<approval, action, providerVars>>
    BY <1>2, <1>6 DEF Deny
  <2>2. ASSUME NEW j \in Keys PROVE Granted(j)' = Granted(j) /\ Completed(j)' = Completed(j)
    BY <1>3, <2>1, TwoMore DEF ToolTypes
  <2> QED
    BY <1>3, <2>1, <2>2, KeptKey DEF providerVars
<1>7. CASE Authorize(w) /\ Duplicate(k)
  <2>1. UNCHANGED <<approval, action, tools, providerVars>>
    BY <1>2, <1>7 DEF Authorize
  <2> QED
    BY <2>1, KeptKeys
<1>8. CASE Authorize(w) /\ ~Duplicate(k)
  <2>1. /\ action[k] = "none" /\ action' = [action EXCEPT ![k] = "authorized"]
        /\ RecordTool(k, <<"tool.requested", "tool.authorized">>)
        /\ UNCHANGED <<approval, providerVars>> /\ pc[w] = "authorize"
    BY <1>2, <1>8 DEF Authorize, Duplicate
  <2>2. \A j \in Keys : /\ Granted(j)' = Granted(j) \cup (IF j = k THEN {Len(tools) + 2} ELSE {})
                        /\ Completed(j)' = Completed(j)
    BY <1>3, <2>1, TwoMore DEF ToolTypes
  <2>3. action'[k] = "authorized" /\ \A j \in Keys \ {k} : action'[j] = action[j]
    BY <1>3, <2>1 DEF Typed
  <2>4. \A j \in Keys \ {k} : KeyOK(j)'
    BY <1>3, <2>1, <2>2, <2>3, KeptKey DEF providerVars
  <2>5. KeyOK(k)'
    <3>1. approval = "approved"
      BY <1>3, <2>1 DEF AtItsStep
    <3>2. \E i \in Nat : Granted(k)' = {i}
      <4>1. Len(tools) + 2 \in Nat
        BY <1>3, LenProperties
      <4>2. Granted(k)' = {Len(tools) + 2}
        BY <1>3, <2>1, <2>2 DEF KeyOK
      <4> QED
        BY <4>1, <4>2
    <3>3. /\ sent[k] = 0 /\ ~delivered[k] /\ sent'[k] = sent[k] /\ delivered'[k] = delivered[k]
          /\ Completed(k)' = {}
      BY <1>3, <2>1, <2>2 DEF KeyOK, providerVars
    <3> QED
      BY <2>1, <2>3, <3>1, <3>2, <3>3 DEF KeyOK
  <2> QED
    BY <2>4, <2>5
<1>9. CASE MarkExecuting(w)
  <2>1. /\ pc[w] = "execute" /\ action' = [action EXCEPT ![k] = "executing"]
        /\ UNCHANGED <<approval, tools, providerVars>>
    BY <1>2, <1>9 DEF MarkExecuting
  <2>2. /\ action[k] = "authorized" /\ action'[k] = "executing"
        /\ \A j \in Keys \ {k} : action'[j] = action[j]
    BY <1>3, <1>4, <2>1 DEF Holds, HoldSteps, Typed
  <2>3. \A j \in Keys \ {k} : KeyOK(j)'
    BY <1>3, <1>5, <2>1, <2>2, KeptKey DEF providerVars
  <2>4. KeyOK(k)'
    BY <1>3, <1>5, <2>1, <2>2 DEF KeyOK, providerVars
  <2> QED
    BY <2>3, <2>4
<1>10. CASE CallProvider(w)
  <2>1. PICK done \in BOOLEAN : delivered' = [delivered EXCEPT ![k] = @ \/ done]
    BY <1>2, <1>10 DEF CallProvider
  <2>2. /\ pc[w] = "call" /\ sent' = [sent EXCEPT ![k] = @ + 1]
        /\ UNCHANGED <<approval, action, tools>>
    BY <1>2, <1>10 DEF CallProvider, dbVars
  <2>3. /\ action[k] = "executing" /\ sent[k] = 0 /\ sent'[k] = 1
        /\ \A j \in Keys \ {k} : sent'[j] = sent[j] /\ delivered'[j] = delivered[j]
    BY <1>1, <1>2, <1>3, <1>4, <2>1, <2>2 DEF Holds, HoldSteps, Typed, AtItsStep
  <2>4. \A j \in Keys \ {k} : KeyOK(j)'
    BY <1>3, <1>5, <2>2, <2>3, KeptKey
  <2>5. KeyOK(k)'
    BY <1>3, <1>5, <2>2, <2>3 DEF KeyOK
  <2> QED
    BY <2>4, <2>5
<1>11. CASE FinishRow(w)
  <2>1. /\ pc[w] = "finish_row" /\ action' = [action EXCEPT ![k] = mem[w].result]
        /\ UNCHANGED <<approval, tools, providerVars>>
    BY <1>2, <1>11 DEF FinishRow
  <2>2. /\ action[k] \in {"authorized", "executing"} /\ mem[w].result \in Final
        /\ mem[w].result = "succeeded" => delivered[k]
        /\ mem[w].result = "failed" => ~delivered[k]
    BY <1>4, <2>1 DEF Holds, HoldSteps
  <2>3. /\ action'[k] = mem[w].result /\ \A j \in Keys \ {k} : action'[j] = action[j]
    BY <1>3, <2>1 DEF Typed
  <2>4. \A j \in Keys \ {k} : KeyOK(j)'
    BY <1>3, <1>5, <2>1, <2>3, KeptKey DEF providerVars
  <2>5. KeyOK(k)'
    BY <1>3, <1>5, <2>1, <2>2, <2>3 DEF KeyOK, providerVars, Final
  <2> QED
    BY <2>4, <2>5
<1>12. CASE FinishEvent(w)
  <2>1. PICK t \in {"tool.completed", "tool.failed"} :
          /\ RecordTool(k, <<t>>)
          /\ t = "tool.completed" => mem[w].result = "succeeded"
    BY <1>2, <1>12 DEF FinishEvent
  <2>2. pc[w] = "finish_event" /\ UNCHANGED <<approval, action, providerVars>>
    BY <1>12 DEF FinishEvent
  <2>3. action[k] = mem[w].result
    BY <1>4, <2>2 DEF Holds, HoldSteps
  <2>4. ASSUME NEW j \in Keys
        PROVE  /\ Granted(j)' = Granted(j)
               /\ Completed(j)' = Completed(j) \/ (j = k /\ t = "tool.completed")
    <3>1. t \in ToolTypes /\ t # "tool.authorized"
      BY DEF ToolTypes
    <3>2. Granted(j)' = Granted(j)
      BY <1>3, <2>1, <3>1, OneMore
    <3>3. ~(j = k /\ t = "tool.completed") => Completed(j)' = Completed(j)
      BY <1>3, <2>1, <3>1, OneMore
    <3> QED
      BY <3>2, <3>3
  <2>5. ASSUME NEW j \in Keys PROVE KeyOK(j)'
    <3>1. CASE Completed(j)' = Completed(j)
      BY <1>3, <2>2, <2>4, <3>1, KeptKey DEF providerVars
    <3>2. CASE j = k /\ t = "tool.completed"
      <4>1. KeyOK(k) /\ action[k] = "succeeded"
        BY <1>3, <2>1, <2>3, <3>2
      <4> QED
        BY <2>2, <2>4, <3>2, <4>1 DEF KeyOK, providerVars
    <3> QED
      BY <2>4, <3>1, <3>2
  <2> QED
    BY <2>5
<1> QED
  BY <1>2, <1>6, <1>7, <1>8, <1>9, <1>10, <1>11, <1>12 DEF KeyStep
-----------------------------------------------------------------------------
(* The rows *)

\* What succeeded stays so.
LEMMA SucceededStays ==
  ASSUME RowsOK, \A k \in Keys : action[k] = "succeeded" => action'[k] = "succeeded",
         approval' = approval \/ approval = "pending",
         item' = item \/ item' \notin {"posted", "scheduled"},
         exec' = exec \/ exec' \notin {"completed", "blocked"}
  PROVE  RowsOK'
BY SchedulesAssumption DEF RowsOK

\* An item status that stands for a result that is the key's.
LEMMA StatusStands ==
  ASSUME RowsOK, NEW k \in Keys, NEW r \in Final, r = action[k],
         item' = SocialStatus(r, k), UNCHANGED <<exec, approval, action>>
  PROVE  RowsOK'
<1>1. item' = "posted" => action[k] = "succeeded" /\ k \notin Schedules
  BY DEF SocialStatus, Final
<1>2. item' = "scheduled" => action[k] = "succeeded" /\ k \in Schedules
  BY DEF SocialStatus, Final
<1> QED
  BY <1>1, <1>2 DEF RowsOK

\* A finalization after the gateway's answer.
LEMMA OutcomeStands ==
  ASSUME RowsOK, NEW outcome \in {"completed", "failed"}, Finalize(outcome),
         UNCHANGED <<item, approval, action>>,
         outcome = "completed" => \E k \in Keys : action[k] = "succeeded"
  PROVE  RowsOK'
<1>1. exec' = exec \/ exec' = outcome
  BY DEF Finalize
<1> QED
  BY <1>1 DEF RowsOK

LEMMA RowSteps ==
  ASSUME IInv, NEW w \in Workers, Begin(w) \/ Step(w) \/ Die(w)
  PROVE  RowsOK'
<1>1. TypeOK /\ AtItsStep(w) /\ Typed /\ RowsOK
  BY DEF IInv, TypeOK
<1>2. \A v \in Workers : pc[v] \in PublishSteps => Key(v) \in Keys
  BY <1>1, PublishKey
<1>3. pc[w] \in HoldSteps => Holds(pc[w], Key(w), mem[w].result)
  BY <1>1 DEF AtItsStep, PublishSteps
<1>4. CASE \/ Begin(w) \/ Die(w) \/ LoadItem(w) \/ LoadDraft(w) \/ CheckExecution(w)
           \/ CheckItem(w) \/ EvaluatePolicy(w) \/ LookupKey(w) \/ NotConfigured(w)
           \/ InvalidSchedule(w) \/ CallProvider(w) \/ Respond(w) \/ Throw(w)
  <2>1. UNCHANGED <<exec, approval, item, action>>
    BY <1>4 DEF Begin, BeginDecide, BeginPublish, Accept, Die, LoadItem, LoadDraft, CheckExecution,
       CheckItem, EvaluatePolicy, LookupKey, NotConfigured, InvalidSchedule, CallProvider, Respond,
       Throw, dbVars
  <2> QED
    BY <1>1, <2>1, SucceededStays
<1>5. CASE DecideRow(w) \/ Deny(w) \/ FinishEvent(w)
  <2>1. UNCHANGED <<exec, item, action>> /\ (approval' = approval \/ approval = "pending")
    BY <1>5 DEF DecideRow, Undecided, Deny, FinishEvent
  <2> QED
    BY <1>1, <2>1, SucceededStays
<1>6. CASE Resume(w)
  BY <1>1, <1>6, SucceededStays DEF Resume
<1>7. CASE MarkItem(w) \/ SaveDecided(w) \/ MarkSocial(w)
  <2>1. UNCHANGED <<exec, approval, action>> /\ (item' = item \/ item' \notin {"posted", "scheduled"})
    BY <1>7 DEF MarkItem, SaveDecided, MarkSocial
  <2> QED
    BY <1>1, <2>1, SucceededStays
<1>8. CASE Block(w)
  <2>1. approval = "denied"
    BY <1>1, <1>8 DEF Block, AtItsStep, DecisionSteps
  <2>2. UNCHANGED <<approval, item, action>> /\ (exec' = exec \/ exec' = "blocked")
    BY <1>8 DEF Block, Finalize
  <2> QED
    BY <1>1, <2>1, <2>2 DEF RowsOK
<1>9. CASE Authorize(w) \/ MarkExecuting(w) \/ FinishRow(w)
  <2>1. PICK k \in Keys : k = Key(w)
    BY <1>2, <1>9 DEF Authorize, MarkExecuting, FinishRow, PublishSteps, AskSteps, HoldSteps
  <2>2. UNCHANGED <<exec, approval, item>>
    BY <1>9 DEF Authorize, MarkExecuting, FinishRow
  <2>3. \/ action' = action
        \/ action[k] # "succeeded" /\ \A j \in Keys \ {k} : action'[j] = action[j]
    <3>1. CASE Authorize(w)
      BY <1>1, <2>1, <3>1 DEF Authorize, Duplicate, Typed
    <3>2. CASE MarkExecuting(w)
      BY <1>1, <1>3, <2>1, <3>2 DEF MarkExecuting, HoldSteps, Holds, Typed
    <3>3. CASE FinishRow(w)
      BY <1>1, <1>3, <2>1, <3>3 DEF FinishRow, HoldSteps, Holds, Typed
    <3> QED
      BY <1>9, <3>1, <3>2, <3>3
  <2>4. \A j \in Keys : action[j] = "succeeded" => action'[j] = "succeeded"
    BY <2>3
  <2> QED
    BY <1>1, <2>2, <2>4, SucceededStays
<1>10. CASE FinishSocial(w)
  <2>1. PICK k \in Keys : k = Key(w)
    BY <1>2, <1>10 DEF FinishSocial, PublishSteps, HoldSteps
  <2>2. mem[w].result \in Final /\ action[k] = mem[w].result
    BY <1>3, <1>10, <2>1 DEF FinishSocial, HoldSteps, Holds
  <2>3. item' = SocialStatus(mem[w].result, k) /\ UNCHANGED <<exec, approval, action>>
    BY <1>10, <2>1 DEF FinishSocial
  <2> QED
    BY <1>1, <2>2, <2>3, StatusStands
<1>11. CASE SessionAnswer(w) \/ SaveItem(w) \/ Close(w)
  <2>1. pc[w] \in AnswerSteps /\ pc[w] \in PublishSteps
    BY <1>11 DEF SessionAnswer, SaveItem, Close, AnswerSteps, PublishSteps
  <2>2. PICK k \in Keys : k = Key(w)
    BY <1>2, <2>1
  <2>3. mem[w].result \in Final => action[k] = mem[w].result
    BY <1>1, <2>1, <2>2 DEF AtItsStep
  <2>4. CASE SessionAnswer(w) \/ Close(w)
    <3>1. UNCHANGED <<item, approval, action>>
      BY <2>4 DEF SessionAnswer, Close
    <3>2. \/ UNCHANGED exec
          \/ Finalize("failed")
          \/ Finalize("completed") /\ mem[w].result = "succeeded"
      BY <2>4 DEF SessionAnswer, Close, Completes
    <3>3. CASE UNCHANGED exec
      BY <1>1, <3>1, <3>3, SucceededStays
    <3>4. CASE Finalize("failed")
      BY <1>1, <3>1, <3>4, OutcomeStands
    <3>5. CASE Finalize("completed") /\ mem[w].result = "succeeded"
      BY <1>1, <2>3, <3>1, <3>5, OutcomeStands DEF Final
    <3> QED
      BY <3>2, <3>3, <3>4, <3>5
  <2>5. CASE SaveItem(w)
    <3>1. UNCHANGED <<exec, approval, action>>
      BY <2>5 DEF SaveItem
    <3>2. CASE mem[w].result \in Final
      <4>1. item' = SocialStatus(mem[w].result, k)
        BY <2>2, <2>5, <3>2 DEF SaveItem
      <4> QED
        BY <1>1, <2>3, <3>1, <3>2, <4>1, StatusStands
    <3>3. CASE mem[w].result \notin Final
      <4>1. mem[w].item \in Publishable
        BY <1>1, <2>1, <2>5 DEF SaveItem, AtItsStep, AnswerSteps
      <4>2. item' \notin {"posted", "scheduled"}
        BY <2>5, <3>3, <4>1 DEF SaveItem, Publishable
      <4> QED
        BY <1>1, <3>1, <4>2, SucceededStays
    <3> QED
      BY <3>2, <3>3
  <2> QED
    BY <1>11, <2>4, <2>5
<1> QED
  BY <1>4, <1>5, <1>6, <1>7, <1>8, <1>9, <1>10, <1>11 DEF Step

-----------------------------------------------------------------------------
(* The theorems *)

LEMMA InitInv == Init => IInv
<1> SUFFICES ASSUME Init PROVE IInv
  OBVIOUS
<1>1. \A k \in Keys : KeyOK(k)
  BY DEF Init, KeyOK, Granted, Completed, ToolEvents
<1>2. RowsOK
  BY DEF Init, RowsOK
<1> QED
  BY <1>1, <1>2, InitTypes DEF IInv

LEMMA NextInv == IInv /\ [Next]_vars => IInv'
<1> SUFFICES ASSUME IInv, [Next]_vars PROVE IInv'
  OBVIOUS
<1>1. TypeOK /\ (\A k \in Keys : KeyOK(k)) /\ RowsOK
  BY DEF IInv
<1>2. ASSUME NEW w \in Workers, Begin(w) \/ Step(w) \/ Die(w)
      PROVE  IInv'
  <2>1. TypeOK'
    <3>1. /\ \A k \in Keys : action[k] \in {"none", "authorized"} => sent[k] = 0
          /\ \A k \in Keys : sent[k] = 0 => ~delivered[k]
      BY <1>1 DEF KeyOK
    <3> QED
      BY <1>1, <1>2, <3>1, BeginTypes, DieTypes, DecisionTypes, AskTypes, IntentTypes, HoldTypes,
         AnswerTypes DEF Step
  <2>2. \A k \in Keys : KeyOK(k)'
    <3>1. CASE KeyStep(w)
      BY <3>1, KeySteps
    <3>2. CASE ~KeyStep(w)
      <4>1. approval' = approval \/ approval = "pending"
        BY <1>2, <3>2 DEF Step, KeyStep, Begin, BeginDecide, BeginPublish, Accept, Die, DecideRow,
           Undecided, Resume, MarkItem, LoadItem, SaveDecided, Block, LoadDraft, CheckExecution,
           CheckItem, EvaluatePolicy, LookupKey, MarkSocial, NotConfigured, InvalidSchedule,
           Respond, FinishSocial, SessionAnswer, SaveItem, Close, Throw, dbVars
      <4>2. UNCHANGED <<action, tools, providerVars>>
        BY <1>2, <3>2 DEF Step, KeyStep, Begin, BeginDecide, BeginPublish, Accept, Die, DecideRow,
           Resume, MarkItem, LoadItem, SaveDecided, Block, LoadDraft, CheckExecution,
           CheckItem, EvaluatePolicy, LookupKey, MarkSocial, NotConfigured, InvalidSchedule,
           Respond, FinishSocial, SessionAnswer, SaveItem, Close, Throw, dbVars
      <4> QED
        BY <4>1, <4>2, KeptKeys
    <3> QED
      BY <3>1, <3>2
  <2> QED
    BY <1>2, <2>1, <2>2, RowSteps DEF IInv
<1>3. CASE UNCHANGED vars
  <2>1. TypeOK'
    BY <1>1, <1>3 DEF TypeOK, Typed, AtItsStep, Holder, Holds, Key, vars, dbVars, providerVars, workerVars
  <2>2. \A k \in Keys : KeyOK(k)'
    BY <1>3, KeptKeys DEF vars, dbVars
  <2>3. RowsOK'
    BY <1>1, <1>3 DEF RowsOK, vars, dbVars
  <2> QED
    BY <2>1, <2>2, <2>3 DEF IInv
<1> QED
  BY <1>2, <1>3 DEF Next

LEMMA AlwaysInv == Spec => []IInv
BY InitInv, NextInv, PTL DEF Spec

\* Every request is at a step whose rows are as it left them, and a key has
\* one holder, in any interleaving of requests and deaths.
THEOREM GatewayTypes == Spec => []TypeOK
<1>1. IInv => TypeOK
  BY DEF IInv
<1> QED
  BY <1>1, AlwaysInv, PTL

\* requestConnectorAction calls the provider at most once with one
\* idempotency key, for any number of keys, requests, replays and deaths.
THEOREM ProviderCalledOnce == Spec => []AtMostOneCall
<1>1. IInv => AtMostOneCall
  BY DEF IInv, KeyOK, AtMostOneCall
<1> QED
  BY <1>1, AlwaysInv, PTL

\* No call leaves before its intent is durable: the approval is given, and
\* the authorization and the row of the action are committed, once.
THEOREM IntentIsFirst == Spec => []IntentBeforeCall
<1>1. ASSUME IInv, NEW k \in Keys, sent[k] > 0
      PROVE  /\ approval = "approved"
             /\ Cardinality(ToolEvents(k, {"tool.authorized"})) = 1
             /\ action[k] \in {"executing"} \cup Final
  <2>1. sent[k] # 0 /\ action[k] \in ActionStatuses /\ KeyOK(k)
    BY <1>1 DEF IInv, TypeOK, Typed
  <2>2. action[k] \notin {"none", "authorized"}
    BY <2>1 DEF KeyOK
  <2>3. PICK i \in Nat : ToolEvents(k, {"tool.authorized"}) = {i}
    BY <2>1, <2>2 DEF KeyOK, Granted
  <2>4. Cardinality({i}) = 1
    BY FS_Singleton
  <2> QED
    BY <2>1, <2>2, <2>3, <2>4 DEF KeyOK, ActionStatuses
<1>2. IInv => IntentBeforeCall
  BY <1>1 DEF IntentBeforeCall
<1> QED
  BY <1>2, AlwaysInv, PTL

\* Actions, tool events, the item and the execution never claim what the
\* provider did not do, although the item is written from copies.
THEOREM OutcomesAreTruthful == Spec => []TruthfulOutcome
<1>1. ASSUME IInv PROVE TruthfulOutcome
  <2>1. \A k \in Keys :
          /\ action[k] = "succeeded" \/ ToolEvents(k, {"tool.completed"}) # {} => delivered[k]
          /\ action[k] = "failed" => ~delivered[k]
    BY <1>1 DEF IInv, KeyOK, Completed
  <2>2. exec = "blocked" => approval = "denied" /\ \A k \in Keys : sent[k] = 0
    BY <1>1 DEF IInv, KeyOK, RowsOK
  <2> QED
    BY <1>1, <2>1, <2>2 DEF IInv, RowsOK, TruthfulOutcome
<1> QED
  BY <1>1, AlwaysInv, PTL

-----------------------------------------------------------------------------
(* Rest *)

\* Publishing needs an execution that does not wait any more, and it never
\* waits again.
Opened ==
  /\ \A k \in Keys : action[k] # "none" => exec # "waiting_approval"
  /\ \A w \in Workers :
       pc[w] \in PublishSteps \ {"load_draft", "execution"} => exec # "waiting_approval"

\* A request that throws in the end has failed.
Thrown ==
  \A w \in Workers : call[w].op = "unconfigured" =>
    pc[w] \in {"finish_row", "finish_event", "finish_social"} /\ mem[w].result = "failed"

\* w knows that k succeeded and is on its way to close the execution.
Closing(w, k) ==
  /\ pc[w] \in {"finish_event", "finish_social"} \cup AnswerSteps
  /\ Key(w) = k
  /\ mem[w].result = "succeeded"

Unfinished == {"authorized", "executing"}

\* Whatever is unsettled about a key, or about the decision, has a request
\* that will settle it, unless one died.
KeySettled(k) ==
  k \notin cut =>
    /\ action[k] \in Unfinished => \E w \in Workers : Holder(w, k)
    /\ action[k] = "succeeded" /\ exec \notin TerminalStatuses =>
         \E w \in Workers : Closing(w, k)

Telling == {"resume", "mark_item", "load_item", "save_decided"}

DecisionSettled ==
  approval # "pending" /\ {"decision", "bypass"} \cap cut = {} /\ item = "pending_approval" =>
    \E w \in Workers : pc[w] \in Telling

\* Until somebody decides the draft on a route that goes on, and for ever
\* once the approvals route has decided it, the item and the execution wait:
\* requests want to decide, or to look whether they may publish.
Waiting ==
  approval = "pending" \/ "bypass" \in cut =>
    /\ exec = "waiting_approval" /\ item = "pending_approval"
    /\ \A w \in Workers : pc[w] \in {"idle", "decide", "load_draft", "execution"}

Bypassed == ("bypass" \in cut => approval # "pending") /\ Waiting

SInv ==
  Opened /\ Thrown /\ (\A k \in Keys : KeySettled(k)) /\ DecisionSettled /\ Bypassed

Others(w) == \A v \in Workers \ {w} : pc'[v] = pc[v] /\ call'[v] = call[v] /\ mem'[v] = mem[v]

\* What a step of w may do about a key: leave it to those who had it, or go
\* on with it.
DutyKept(w, k) ==
  \/ k \in cut'
  \/ /\ action'[k] \in Unfinished =>
          Holder(w, k)' \/ (action[k] \in Unfinished /\ ~Holder(w, k))
     /\ action'[k] = "succeeded" /\ exec' \notin TerminalStatuses =>
          Closing(w, k)' \/ (action[k] = "succeeded" /\ ~Closing(w, k))

LEMMA DutyKeeps ==
  ASSUME NEW w \in Workers, NEW k \in Keys, KeySettled(k), Others(w), cut \subseteq cut',
         exec \in TerminalStatuses => exec' \in TerminalStatuses, DutyKept(w, k)
  PROVE  KeySettled(k)'
<1>1. \A v \in Workers \ {w} : /\ Holder(v, k) => Holder(v, k)'
                               /\ Closing(v, k) => Closing(v, k)'
  BY DEF Others, Holder, Closing, Key
<1>2. CASE k \in cut'
  BY <1>2 DEF KeySettled
<1>3. CASE k \notin cut'
  <2>1. k \notin cut
    BY <1>3
  <2>2. ASSUME action'[k] \in Unfinished PROVE \E v \in Workers : Holder(v, k)'
    BY <1>1, <1>3, <2>1, <2>2 DEF DutyKept, KeySettled
  <2>3. ASSUME action'[k] = "succeeded", exec' \notin TerminalStatuses
        PROVE  \E v \in Workers : Closing(v, k)'
    BY <1>1, <1>3, <2>1, <2>3 DEF DutyKept, KeySettled
  <2> QED
    BY <2>2, <2>3 DEF KeySettled
<1> QED
  BY <1>2, <1>3

LEMMA OthersKept ==
  ASSUME Typed, NEW w \in Workers
  PROVE  /\ Finish(w) => Others(w)
         /\ \A l : Goto(w, l) /\ UNCHANGED <<call, mem>> => Others(w)
         /\ \A l, f, x : Goto(w, l) /\ Remember(w, f, x) /\ UNCHANGED call => Others(w)
<1>1. Finish(w) => Others(w)
  BY DEF Finish, Others, Typed
<1>2. ASSUME NEW l, Goto(w, l), UNCHANGED <<call, mem>> PROVE Others(w)
  BY <1>2 DEF Goto, Others, Typed
<1>3. ASSUME NEW l, NEW f, NEW x, Goto(w, l), Remember(w, f, x), UNCHANGED call PROVE Others(w)
  BY <1>3 DEF Goto, Remember, Others, Typed
<1> QED
  BY <1>1, <1>2, <1>3

\* What every step leaves to the other requests, and what it never undoes.
LEMMA StepFrame ==
  ASSUME TypeOK, NEW w \in Workers, Begin(w) \/ Step(w) \/ Die(w)
  PROVE  /\ Others(w) /\ cut \subseteq cut'
         /\ exec \in TerminalStatuses => exec' \in TerminalStatuses
         /\ exec # "waiting_approval" => exec' # "waiting_approval"
<1>1. Typed
  BY DEF TypeOK
<1>2. /\ cut \subseteq cut'
      /\ exec \in TerminalStatuses => exec' \in TerminalStatuses
      /\ exec # "waiting_approval" => exec' # "waiting_approval"
  BY DEF Step, Begin, BeginDecide, BeginPublish, Accept, Die, DecideRow, Resume, MarkItem,
     LoadItem, SaveDecided, Block, Finalize, LoadDraft, CheckExecution, CheckItem, EvaluatePolicy,
     LookupKey, Deny, Authorize, MarkSocial, NotConfigured, MarkExecuting, InvalidSchedule,
     CallProvider, Respond, FinishRow, FinishEvent, FinishSocial, SessionAnswer, SaveItem, Close,
     Throw, dbVars, TerminalStatuses
<1>3. SUFFICES Others(w)
  BY <1>2
<1>4. CASE Begin(w)
  BY <1>1, <1>4 DEF Begin, BeginDecide, BeginPublish, Accept, Goto, Typed, Others
<1>5. CASE \/ Die(w) \/ DecideRow(w) \/ Resume(w) \/ MarkItem(w) \/ LoadItem(w)
           \/ SaveDecided(w) \/ Block(w) \/ LoadDraft(w) \/ CheckExecution(w)
           \/ CheckItem(w) \/ Throw(w)
  BY <1>1, <1>5, OthersKept DEF Die, DecideRow, Resume, MarkItem, LoadItem, SaveDecided, Block,
     LoadDraft, CheckExecution, CheckItem, Throw
<1>6. CASE \/ EvaluatePolicy(w) \/ LookupKey(w) \/ Deny(w) \/ Authorize(w) \/ MarkSocial(w)
           \/ MarkExecuting(w) \/ InvalidSchedule(w)
  BY <1>1, <1>6, OthersKept DEF EvaluatePolicy, LookupKey, Deny, Authorize, MarkSocial,
     MarkExecuting, InvalidSchedule
<1>7. CASE \/ CallProvider(w) \/ Respond(w) \/ FinishRow(w) \/ FinishEvent(w)
           \/ FinishSocial(w) \/ SessionAnswer(w) \/ SaveItem(w) \/ Close(w)
  BY <1>1, <1>7, OthersKept DEF CallProvider, Respond, FinishRow, FinishEvent, FinishSocial,
     SessionAnswer, SaveItem, Close
<1>8. CASE NotConfigured(w)
  BY <1>1, <1>8 DEF NotConfigured, Goto, Remember, Typed, Others
<1> QED
  BY <1>4, <1>5, <1>6, <1>7, <1>8 DEF Step

\* Opened, step by step.
LEMMA OpenedSteps ==
  ASSUME IInv, Opened, NEW w \in Workers, Begin(w) \/ Step(w) \/ Die(w)
  PROVE  Opened'
<1>1. TypeOK /\ Typed
  BY DEF IInv, TypeOK
<1>2. Others(w) /\ (exec # "waiting_approval" => exec' # "waiting_approval")
  BY <1>1, StepFrame
<1> DEFINE Late == PublishSteps \ {"load_draft", "execution"}
<1>3. pc'[w] \in Late => exec # "waiting_approval"
  <2>1. CASE pc[w] \in Late
    BY <2>1 DEF Opened
  <2>2. CASE CheckExecution(w)
    BY <1>1, <2>2 DEF CheckExecution, Finish, Typed, PublishSteps, AskSteps, HoldSteps, AnswerSteps
  <2>3. CASE pc[w] \notin Late /\ ~CheckExecution(w)
    <3>1. CASE Begin(w) \/ Die(w)
      BY <1>1, <2>3, <3>1 DEF Begin, BeginDecide, BeginPublish, Accept, Die, Finish, Goto, Typed,
         PublishSteps, AskSteps, HoldSteps, AnswerSteps
    <3>2. CASE Step(w)
      <4>1. \/ DecideRow(w) \/ Resume(w) \/ MarkItem(w) \/ LoadItem(w) \/ SaveDecided(w)
            \/ Block(w) \/ LoadDraft(w) \/ Throw(w)
        BY <2>3, <3>2 DEF Step, CheckItem, EvaluatePolicy, LookupKey, Deny, Authorize, MarkSocial,
           NotConfigured, MarkExecuting, InvalidSchedule, CallProvider, Respond, FinishRow,
           FinishEvent, FinishSocial, SessionAnswer, SaveItem, Close,
           PublishSteps, AskSteps, HoldSteps, AnswerSteps
      <4>2. pc'[w] \notin Late
        BY <1>1, <4>1 DEF DecideRow, Resume, MarkItem, LoadItem, SaveDecided, Block, LoadDraft,
           Throw, Finish, Goto, Typed, PublishSteps, AskSteps, HoldSteps, AnswerSteps
      <4> QED
        BY <4>2
    <3> QED
      BY <3>1, <3>2
  <2> QED
    BY <2>1, <2>2, <2>3
<1>4. ASSUME NEW k \in Keys, action'[k] # "none" PROVE exec # "waiting_approval"
  <2>1. CASE action[k] # "none"
    BY <2>1 DEF Opened
  <2>2. CASE action[k] = "none"
    <3>1. pc[w] \in Late
      BY <1>4, <2>2 DEF Step, Begin, BeginDecide, BeginPublish, Accept, Die, DecideRow, Resume,
         MarkItem, LoadItem, SaveDecided, Block, LoadDraft, CheckExecution, CheckItem,
         EvaluatePolicy, LookupKey, Deny, Authorize, MarkSocial, NotConfigured, MarkExecuting,
         InvalidSchedule, CallProvider, Respond, FinishRow, FinishEvent, FinishSocial,
         SessionAnswer, SaveItem, Close, Throw, dbVars, PublishSteps, AskSteps, HoldSteps
    <3> QED
      BY <3>1 DEF Opened
  <2> QED
    BY <2>1, <2>2
<1>5. \A v \in Workers : pc'[v] \in Late => exec # "waiting_approval"
  BY <1>2, <1>3 DEF Opened, Others
<1> QED
  BY <1>2, <1>4, <1>5 DEF Opened

\* Thrown, step by step.
LEMMA ThrownSteps ==
  ASSUME IInv, Thrown, NEW w \in Workers, Begin(w) \/ Step(w) \/ Die(w)
  PROVE  Thrown'
<1>1. TypeOK /\ Typed
  BY DEF IInv, TypeOK
<1>2. Others(w)
  BY <1>1, StepFrame
<1>3. mem[w] \in Locals /\ mem \in [Workers -> Locals]
  BY <1>1 DEF Typed
<1>4. ASSUME call'[w].op = "unconfigured"
      PROVE  /\ pc'[w] \in {"finish_row", "finish_event", "finish_social"}
             /\ mem'[w].result = "failed"
  <2>1. CASE call[w].op = "unconfigured"
    <3>1. pc[w] \in {"finish_row", "finish_event", "finish_social"} /\ mem[w].result = "failed"
      BY <2>1 DEF Thrown
    <3>2. \/ FinishRow(w) \/ FinishEvent(w) \/ FinishSocial(w) \/ Die(w)
      BY <3>1 DEF Step, Begin, BeginDecide, BeginPublish, Accept, DecideRow, Resume, MarkItem,
         LoadItem, SaveDecided, Block, LoadDraft, CheckExecution, CheckItem, EvaluatePolicy,
         LookupKey, Deny, Authorize, MarkSocial, NotConfigured, MarkExecuting, InvalidSchedule,
         CallProvider, Respond, SessionAnswer, SaveItem, Close, Throw
    <3>3. CASE FinishRow(w) \/ FinishEvent(w)
      BY <1>1, <3>1, <3>3 DEF FinishRow, FinishEvent, Goto, Typed
    <3>4. CASE FinishSocial(w) \/ Die(w)
      <4>1. call'[w] = NoCall
        BY <1>1, <2>1, <3>4 DEF FinishSocial, Die, Finish, Typed
      <4> QED
        BY <1>4, <4>1 DEF NoCall
    <3> QED
      BY <3>2, <3>3, <3>4
  <2>2. CASE call[w].op # "unconfigured"
    <3>1. NotConfigured(w)
      <4>1. CASE Begin(w)
        <5>1. call'[w].op \in {"decide", "publish"}
          BY <1>1, <4>1 DEF Begin, BeginDecide, BeginPublish, Accept, Typed
        <5> QED
          BY <1>4, <5>1
      <4>2. CASE Step(w) \/ Die(w)
        <5>1. call' = call \/ call'[w] = NoCall \/ NotConfigured(w)
          BY <1>1, <4>2 DEF Step, Die, DecideRow, Resume, MarkItem,
             LoadItem, SaveDecided, Block, LoadDraft, CheckExecution, CheckItem, EvaluatePolicy,
             LookupKey, Deny, Authorize, MarkSocial, MarkExecuting, InvalidSchedule, CallProvider,
             Respond, FinishRow, FinishEvent, FinishSocial, SessionAnswer, SaveItem, Close, Throw,
             Finish, Typed
        <5> QED
          BY <1>4, <2>2, <5>1 DEF NoCall
      <4> QED
        BY <4>1, <4>2
    <3>2. pc'[w] = "finish_row" /\ mem'[w] = [mem[w] EXCEPT !.result = "failed"]
      BY <1>1, <1>3, <3>1 DEF NotConfigured, Goto, Remember, Typed
    <3> QED
      BY <1>3, <3>2 DEF Locals
  <2> QED
    BY <2>1, <2>2
<1> QED
  BY <1>2, <1>4 DEF Thrown, Others

\* A step at which w neither holds a key nor knows of a success, and no
\* action changes.
LEMMA NoDuty ==
  ASSUME NEW w \in Workers, NEW k \in Keys, UNCHANGED action,
         pc[w] \notin HoldSteps \cup AnswerSteps
  PROVE  DutyKept(w, k)
BY DEF DutyKept, Holder, Closing, HoldSteps, AnswerSteps

\* The keys, step by step.
LEMMA DutySteps ==
  ASSUME IInv, Opened, Thrown, NEW w \in Workers, Begin(w) \/ Step(w) \/ Die(w), NEW k \in Keys
  PROVE  DutyKept(w, k)
<1>1. TypeOK /\ Typed /\ AtItsStep(w)
  BY DEF IInv, TypeOK
<1>2. pc[w] \in PublishSteps => Key(w) \in Keys
  BY <1>1, PublishKey
<1>3. pc[w] \in HoldSteps => Holds(pc[w], Key(w), mem[w].result)
  BY <1>1 DEF AtItsStep, PublishSteps
<1>4. mem[w] \in Locals /\ mem \in [Workers -> Locals]
  BY <1>1 DEF Typed
<1>5. CASE \/ Begin(w) \/ DecideRow(w) \/ Resume(w) \/ MarkItem(w) \/ LoadItem(w)
           \/ SaveDecided(w) \/ Block(w) \/ LoadDraft(w) \/ CheckExecution(w) \/ CheckItem(w)
           \/ EvaluatePolicy(w) \/ LookupKey(w) \/ Deny(w) \/ Throw(w)
  <2>1. UNCHANGED action /\ pc[w] \notin HoldSteps \cup AnswerSteps
    BY <1>5 DEF Begin, BeginDecide, BeginPublish, Accept, DecideRow, Resume, MarkItem, LoadItem,
       SaveDecided, Block, LoadDraft, CheckExecution, CheckItem, EvaluatePolicy, LookupKey, Deny,
       Throw, dbVars, HoldSteps, AnswerSteps
  <2> QED
    BY <2>1, NoDuty
<1>6. CASE Die(w)
  <2>1. UNCHANGED action
    BY <1>6 DEF Die, dbVars
  <2>2. CASE pc[w] \notin HoldSteps \cup AnswerSteps
    BY <2>1, <2>2, NoDuty
  <2>3. CASE pc[w] \in HoldSteps \cup AnswerSteps
    <3>1. call[w] \in PublishCalls
      BY <1>1, <2>3 DEF AtItsStep, PublishSteps
    <3>2. cut' = cut \cup {Key(w)}
      BY <1>6, <3>1 DEF Die, PublishCalls
    <3>3. CASE k = Key(w)
      BY <3>2, <3>3 DEF DutyKept
    <3>4. CASE k # Key(w)
      BY <2>1, <3>4 DEF DutyKept, Holder, Closing
    <3> QED
      BY <3>3, <3>4
  <2> QED
    BY <2>2, <2>3
<1>7. CASE Authorize(w)
  <2>1. pc[w] = "authorize"
    BY <1>7 DEF Authorize
  <2>2. CASE Duplicate(Key(w))
    <3>1. UNCHANGED action
      BY <1>7, <2>2 DEF Authorize
    <3> QED
      BY <2>1, <3>1, NoDuty DEF HoldSteps, AnswerSteps
  <2>3. CASE ~Duplicate(Key(w))
    <3>1. /\ action' = [action EXCEPT ![Key(w)] = "authorized"]
          /\ pc' = [pc EXCEPT ![w] = "mark_social"] /\ call' = call
      BY <1>7, <2>3 DEF Authorize, Goto
    <3>2. Holder(w, Key(w))' /\ ~Holder(w, k) /\ ~Closing(w, k)
      BY <1>1, <2>1, <3>1 DEF Holder, Closing, Key, HoldSteps, AnswerSteps, Typed
    <3>3. k # Key(w) => action'[k] = action[k]
      BY <1>1, <3>1 DEF Typed
    <3>4. k = Key(w) => action'[k] = "authorized" /\ Holder(w, k)'
      BY <1>1, <3>1, <3>2 DEF Typed, Holder, Key
    <3> QED
      BY <3>2, <3>3, <3>4 DEF DutyKept
  <2> QED
    BY <2>2, <2>3
<1>8. CASE \/ MarkSocial(w) \/ NotConfigured(w) \/ MarkExecuting(w) \/ InvalidSchedule(w)
           \/ CallProvider(w) \/ Respond(w)
  <2>1. /\ pc[w] \in {"mark_social", "execute", "call", "response"}
        /\ pc'[w] \in {"execute", "call", "response", "finish_row"}
    BY <1>1, <1>8 DEF MarkSocial, NotConfigured, MarkExecuting, InvalidSchedule, CallProvider,
       Respond, Goto, Typed
  <2>2. Key(w)' = Key(w)
    <3>1. CASE NotConfigured(w)
      <4>1. call' = [call EXCEPT ![w].op = "unconfigured"]
        BY <3>1 DEF NotConfigured
      <4>2. call[w] \in PublishCalls
        BY <1>1, <2>1 DEF AtItsStep, PublishSteps, HoldSteps
      <4>3. call'[w] = [call[w] EXCEPT !.op = "unconfigured"]
        BY <1>1, <4>1 DEF Typed
      <4> QED
        BY <4>2, <4>3 DEF Key, PublishCalls
    <3>2. CASE ~NotConfigured(w)
      BY <1>8, <3>2 DEF MarkSocial, MarkExecuting, InvalidSchedule, CallProvider, Respond, Key
    <3> QED
      BY <3>1, <3>2
  <2>3. \/ UNCHANGED action
        \/ action' = [action EXCEPT ![Key(w)] = "executing"]
    BY <1>8 DEF MarkSocial, NotConfigured, MarkExecuting, InvalidSchedule, CallProvider, Respond,
       dbVars
  <2>4. Holder(w, k) <=> k = Key(w)
    BY <2>1 DEF Holder, HoldSteps
  <2>5. Holder(w, k)' <=> k = Key(w)
    BY <2>1, <2>2 DEF Holder, HoldSteps
  <2>6. ~Closing(w, k)
    BY <2>1 DEF Closing, AnswerSteps
  <2>7. k # Key(w) => action'[k] = action[k]
    BY <1>1, <2>3 DEF Typed
  <2>8. k = Key(w) => action'[k] # "succeeded"
    <3>1. action[Key(w)] \in Unfinished
      BY <1>3, <2>1 DEF Holds, HoldSteps, Unfinished
    <3> QED
      BY <1>1, <1>2, <2>1, <2>3, <3>1 DEF Typed, Unfinished, PublishSteps, HoldSteps
  <2> QED
    BY <2>4, <2>5, <2>6, <2>7, <2>8 DEF DutyKept
<1>9. CASE FinishRow(w)
  <2>1. /\ pc[w] = "finish_row" /\ pc'[w] = "finish_event"
        /\ action' = [action EXCEPT ![Key(w)] = mem[w].result] /\ UNCHANGED <<call, mem>>
    BY <1>1, <1>9 DEF FinishRow, Goto, Typed
  <2>2. mem[w].result \in Final
    BY <1>3, <2>1 DEF Holds, HoldSteps
  <2>3. ~Closing(w, k) /\ (Holder(w, k) <=> k = Key(w))
    BY <2>1 DEF Closing, AnswerSteps, Holder, HoldSteps
  <2>4. CASE k = Key(w)
    <3>1. action'[k] = mem[w].result
      BY <1>1, <2>1, <2>4 DEF Typed
    <3>2. action'[k] \notin Unfinished
      BY <2>2, <3>1 DEF Final, Unfinished
    <3>3. action'[k] = "succeeded" => Closing(w, k)'
      BY <2>1, <2>4, <3>1 DEF Closing, Key
    <3> QED
      BY <3>2, <3>3 DEF DutyKept
  <2>5. CASE k # Key(w)
    <3>1. action'[k] = action[k]
      BY <1>1, <2>1, <2>5 DEF Typed
    <3> QED
      BY <2>3, <2>5, <3>1 DEF DutyKept
  <2> QED
    BY <2>4, <2>5
<1>10. CASE FinishEvent(w) \/ FinishSocial(w) \/ SaveItem(w)
  <2>1. /\ pc[w] \in {"finish_event", "finish_social", "answer"} /\ UNCHANGED action
    BY <1>10 DEF FinishEvent, FinishSocial, SaveItem
  <2>2. Holder(w, k) => action[k] \notin Unfinished
    BY <1>3, <2>1 DEF Holder, Holds, HoldSteps, Final, Unfinished
  <2>3. Closing(w, k) => Closing(w, k)'
    <3>1. CASE FinishEvent(w) \/ SaveItem(w)
      BY <1>1, <3>1 DEF FinishEvent, SaveItem, Goto, Closing, Key, AnswerSteps, Typed
    <3>2. CASE FinishSocial(w)
      <4>1. ASSUME Closing(w, k) PROVE Closing(w, k)'
        <5>1. call[w].op # "unconfigured"
          BY <4>1 DEF Thrown, Closing
        <5>2. pc'[w] = "answer" /\ UNCHANGED <<call, mem>>
          BY <1>1, <3>2, <5>1 DEF FinishSocial, Goto, Typed
        <5> QED
          BY <4>1, <5>2 DEF Closing, Key, AnswerSteps
      <4> QED
        BY <4>1
    <3> QED
      BY <1>10, <3>1, <3>2
  <2> QED
    BY <2>1, <2>2, <2>3 DEF DutyKept
<1>11. CASE SessionAnswer(w) \/ Close(w)
  <2>1. pc[w] \in AnswerSteps /\ UNCHANGED action
    BY <1>11 DEF SessionAnswer, Close, AnswerSteps
  <2>2. ~Holder(w, k)
    BY <2>1 DEF Holder, HoldSteps, AnswerSteps
  <2>3. Closing(w, k) => exec' \in TerminalStatuses
    <3>1. exec # "waiting_approval"
      BY <2>1 DEF Opened, PublishSteps, AnswerSteps
    <3>2. mem[w].result = "succeeded" => Finalize("completed")
      BY <1>11 DEF SessionAnswer, Close, Completes
    <3> QED
      BY <3>1, <3>2 DEF Closing, Finalize, TerminalStatuses
  <2> QED
    BY <2>1, <2>2, <2>3 DEF DutyKept
<1> QED
  BY <1>5, <1>6, <1>7, <1>8, <1>9, <1>10, <1>11 DEF Step

\* The decision, step by step: who decided goes on until the item tells.
LEMMA TellingSteps ==
  ASSUME IInv, DecisionSettled, NEW w \in Workers, Begin(w) \/ Step(w) \/ Die(w)
  PROVE  DecisionSettled'
<1>1. TypeOK /\ Typed /\ AtItsStep(w)
  BY DEF IInv, TypeOK
<1>2. Others(w) /\ cut \subseteq cut'
  BY <1>1, StepFrame
<1>3. SUFFICES ASSUME approval' # "pending", {"decision", "bypass"} \cap cut' = {},
                      item' = "pending_approval", pc'[w] \notin Telling
               PROVE  \E v \in Workers : pc'[v] \in Telling
  BY DEF DecisionSettled
<1>4. pc[w] \notin Telling /\ ~DecideRow(w)
  <2>1. ~DecideRow(w)
    BY <1>1, <1>3 DEF DecideRow, Goto, Typed, Telling
  <2>2. ASSUME pc[w] \in Telling PROVE FALSE
    <3>1. \/ Resume(w) \/ MarkItem(w) \/ LoadItem(w) \/ SaveDecided(w) \/ Die(w)
      BY <2>2 DEF Telling, Step, Begin, BeginDecide, BeginPublish, Accept, DecideRow, Block,
         LoadDraft, CheckExecution, CheckItem, EvaluatePolicy, LookupKey, Deny, Authorize,
         MarkSocial, NotConfigured, MarkExecuting, InvalidSchedule, CallProvider, Respond,
         FinishRow, FinishEvent, FinishSocial, SessionAnswer, SaveItem, Close, Throw
    <3>2. CASE Resume(w) \/ LoadItem(w)
      BY <1>1, <1>3, <3>2 DEF Resume, LoadItem, Goto, Typed, Telling
    <3>3. CASE MarkItem(w) \/ SaveDecided(w)
      BY <1>3, <3>3 DEF MarkItem, SaveDecided, Markable
    <3>4. CASE Die(w)
      <4>1. call[w].op = "decide"
        BY <1>1, <2>2 DEF AtItsStep, DecisionSteps, DecisionCalls, Telling
      <4> QED
        BY <1>3, <3>4, <4>1 DEF Die
    <3> QED
      BY <3>1, <3>2, <3>3, <3>4
  <2> QED
    BY <2>1, <2>2
<1>5. approval # "pending" /\ item = "pending_approval"
  <2>1. approval' = approval
    BY <1>4 DEF Step, Begin, BeginDecide, BeginPublish, Accept, Die, Resume, MarkItem, LoadItem,
       SaveDecided, Block, LoadDraft, CheckExecution, CheckItem, EvaluatePolicy, LookupKey, Deny,
       Authorize, MarkSocial, NotConfigured, MarkExecuting, InvalidSchedule, CallProvider, Respond,
       FinishRow, FinishEvent, FinishSocial, SessionAnswer, SaveItem, Close, Throw, dbVars
  <2>2. CASE item' = item
    BY <1>3, <2>1, <2>2
  <2>3. CASE item' # item
    <3>1. MarkSocial(w) \/ FinishSocial(w) \/ SaveItem(w)
      BY <1>4, <2>3 DEF Step, Begin, BeginDecide, BeginPublish, Accept, Die, Resume, MarkItem,
         LoadItem, SaveDecided, Block, LoadDraft, CheckExecution, CheckItem, EvaluatePolicy,
         LookupKey, Deny, Authorize, NotConfigured, MarkExecuting, InvalidSchedule, CallProvider,
         Respond, FinishRow, FinishEvent, SessionAnswer, Close, Throw, dbVars, Telling
    <3>2. ~MarkSocial(w)
      BY <1>3, <2>3 DEF MarkSocial
    <3>3. \A r \in Final : \A k \in Keys : SocialStatus(r, k) # "pending_approval"
      BY DEF Final, SocialStatus
    <3>4. pc[w] \in PublishSteps /\ Key(w) \in Keys
      BY <1>1, <3>1, <3>2, PublishKey DEF FinishSocial, SaveItem, PublishSteps, HoldSteps, AnswerSteps
    <3>5. ~FinishSocial(w)
      <4>1. ASSUME FinishSocial(w) PROVE mem[w].result \in Final
        BY <1>1, <3>4, <4>1 DEF FinishSocial, AtItsStep, Holds, HoldSteps
      <4> QED
        BY <1>3, <3>3, <3>4, <4>1 DEF FinishSocial
    <3>6. SaveItem(w) => item' # "pending_approval"
      <4>1. ASSUME SaveItem(w) PROVE mem[w].item \in Publishable
        BY <1>1, <3>4, <4>1 DEF SaveItem, AtItsStep
      <4> QED
        BY <3>3, <3>4, <4>1 DEF SaveItem, Publishable
    <3> QED
      BY <1>3, <3>1, <3>2, <3>5, <3>6
  <2> QED
    BY <2>2, <2>3
<1>6. PICK v \in Workers : pc[v] \in Telling
  BY <1>2, <1>3, <1>5 DEF DecisionSettled
<1>7. v # w
  BY <1>4, <1>6
<1> QED
  BY <1>2, <1>6, <1>7 DEF Others

\* A draft nobody has decided waits, and one that was decided by the
\* approvals route goes on doing so: every route beyond it asks for more.
LEMMA BypassedSteps ==
  ASSUME IInv, Bypassed, NEW w \in Workers, Begin(w) \/ Step(w) \/ Die(w)
  PROVE  Bypassed'
<1>1. TypeOK /\ Typed /\ AtItsStep(w)
  BY DEF IInv, TypeOK
<1>2. Others(w)
  BY <1>1, StepFrame
<1>3. ("bypass" \in cut' /\ "bypass" \notin cut) => approval' # "pending"
  <2>1. ASSUME "bypass" \in cut', "bypass" \notin cut PROVE DecideRow(w) \/ Die(w)
    BY <2>1 DEF Step, Begin, BeginDecide, BeginPublish, Accept, Resume, MarkItem, LoadItem,
       SaveDecided, Block, LoadDraft, CheckExecution, CheckItem, EvaluatePolicy, LookupKey, Deny,
       Authorize, MarkSocial, NotConfigured, MarkExecuting, InvalidSchedule, CallProvider, Respond,
       FinishRow, FinishEvent, FinishSocial, SessionAnswer, SaveItem, Close, Throw
  <2>2. Die(w) => ("bypass" \in cut' => "bypass" \in cut)
    <3>1. ASSUME Die(w), call[w].op # "decide" PROVE Key(w) \in Keys
      <4>1. pc[w] \in DecisionSteps \cup PublishSteps
        BY <1>1, <3>1 DEF Die, Typed
      <4> QED
        BY <1>1, <3>1, <4>1, PublishKey DEF AtItsStep, DecisionCalls
    <3> QED
      BY <3>1, KeysAssumption DEF Die
  <2> QED
    BY <2>1, <2>2 DEF DecideRow
<1>4. CASE ~(approval = "pending" \/ "bypass" \in cut)
  <2>1. approval' # "pending"
    BY <1>4 DEF Step, Begin, BeginDecide, BeginPublish, Accept, Die, DecideRow, Resume, MarkItem,
       LoadItem, SaveDecided, Block, LoadDraft, CheckExecution, CheckItem, EvaluatePolicy,
       LookupKey, Deny, Authorize, MarkSocial, NotConfigured, MarkExecuting, InvalidSchedule,
       CallProvider, Respond, FinishRow, FinishEvent, FinishSocial, SessionAnswer, SaveItem, Close,
       Throw, dbVars
  <2>2. "bypass" \notin cut'
    <3>1. ~DecideRow(w)
      BY <1>4 DEF DecideRow, Undecided
    <3>2. Die(w) => "bypass" \notin cut'
      <4>1. ASSUME Die(w), call[w].op # "decide" PROVE Key(w) \in Keys
        <5>1. pc[w] \in DecisionSteps \cup PublishSteps
          BY <1>1, <4>1 DEF Die, Typed
        <5> QED
          BY <1>1, <4>1, <5>1, PublishKey DEF AtItsStep, DecisionCalls
      <4> QED
        BY <1>4, <4>1, KeysAssumption DEF Die
    <3> QED
      BY <1>4, <3>1, <3>2 DEF Step, Begin, BeginDecide, BeginPublish, Accept, Resume, MarkItem,
         LoadItem, SaveDecided, Block, LoadDraft, CheckExecution, CheckItem, EvaluatePolicy,
         LookupKey, Deny, Authorize, MarkSocial, NotConfigured, MarkExecuting, InvalidSchedule,
         CallProvider, Respond, FinishRow, FinishEvent, FinishSocial, SessionAnswer, SaveItem,
         Close, Throw
  <2> QED
    BY <2>1, <2>2 DEF Bypassed, Waiting
<1>5. CASE approval = "pending" \/ "bypass" \in cut
  <2>1. /\ exec = "waiting_approval" /\ item = "pending_approval"
        /\ \A v \in Workers : pc[v] \in {"idle", "decide", "load_draft", "execution"}
        /\ "bypass" \in cut => approval # "pending"
    BY <1>5 DEF Bypassed, Waiting
  <2>2. \/ Begin(w) \/ Die(w) \/ DecideRow(w) \/ Throw(w) \/ LoadDraft(w) \/ CheckExecution(w)
    BY <2>1 DEF Step, Resume, MarkItem, LoadItem, SaveDecided, Block, CheckItem, EvaluatePolicy,
       LookupKey, Deny, Authorize, MarkSocial, NotConfigured, MarkExecuting, InvalidSchedule,
       CallProvider, Respond, FinishRow, FinishEvent, FinishSocial, SessionAnswer, SaveItem, Close
  <2>3. exec' = exec /\ item' = item
    BY <2>2 DEF Begin, BeginDecide, BeginPublish, Accept, Die, DecideRow, Throw, LoadDraft,
       CheckExecution, dbVars
  <2>4. \A v \in Workers \ {w} : pc'[v] \in {"idle", "decide", "load_draft", "execution"}
    BY <1>2, <2>1 DEF Others
  <2>5. CASE Begin(w)
    <3>1. /\ pc'[w] \in {"decide", "load_draft", "execution"}
          /\ approval' = approval /\ cut' = cut
      BY <1>1, <2>5 DEF Begin, BeginDecide, BeginPublish, Accept, Goto, Typed, dbVars
    <3> QED
      BY <1>5, <2>1, <2>3, <2>4, <3>1 DEF Bypassed, Waiting
  <2>6. CASE Die(w) \/ Throw(w) \/ LoadDraft(w) \/ CheckExecution(w)
    <3>1. Finish(w)
      BY <2>1, <2>6 DEF Die, Throw, LoadDraft, CheckExecution, Publishable
    <3>2. pc'[w] = "idle" /\ approval' = approval
      BY <1>1, <2>6, <3>1 DEF Finish, Typed, Die, Throw, LoadDraft, CheckExecution, dbVars
    <3> QED
      BY <1>3, <2>1, <2>3, <2>4, <3>2 DEF Bypassed, Waiting
  <2>7. CASE DecideRow(w)
    <3>1. approval = "pending" /\ approval' # "pending" /\ "bypass" \notin cut
      BY <1>5, <2>1, <2>7 DEF DecideRow, Undecided
    <3>2. CASE call[w].via = "approvals"
      <4>1. pc'[w] = "idle"
        BY <1>1, <2>7, <3>2 DEF DecideRow, Finish, Typed
      <4> QED
        BY <2>1, <2>3, <2>4, <3>1, <4>1 DEF Bypassed, Waiting
    <3>3. CASE call[w].via # "approvals"
      BY <2>7, <3>1, <3>3 DEF DecideRow, Bypassed, Waiting
    <3> QED
      BY <3>2, <3>3
  <2> QED
    BY <2>2, <2>5, <2>6, <2>7
<1> QED
  BY <1>4, <1>5

LEMMA InitSettled == Init => SInv
BY DEF Init, SInv, Opened, Thrown, KeySettled, DecisionSettled, Bypassed, Waiting, PublishSteps,
       AskSteps, HoldSteps, AnswerSteps, NoCall, Unfinished

LEMMA NextSettled == IInv /\ SInv /\ [Next]_vars => SInv'
<1> SUFFICES ASSUME IInv, SInv, [Next]_vars PROVE SInv'
  OBVIOUS
<1>1. ASSUME NEW w \in Workers, Begin(w) \/ Step(w) \/ Die(w) PROVE SInv'
  <2>1. /\ Opened /\ Thrown /\ (\A k \in Keys : KeySettled(k)) /\ DecisionSettled /\ Bypassed
        /\ TypeOK
    BY DEF SInv, IInv
  <2>2. /\ Others(w) /\ cut \subseteq cut'
        /\ exec \in TerminalStatuses => exec' \in TerminalStatuses
    BY <1>1, <2>1, StepFrame
  <2>3. \A k \in Keys : KeySettled(k)'
    BY <1>1, <2>1, <2>2, DutySteps, DutyKeeps
  <2> QED
    BY <1>1, <2>1, <2>3, OpenedSteps, ThrownSteps, TellingSteps, BypassedSteps DEF SInv
<1>2. CASE UNCHANGED vars
  BY <1>2 DEF SInv, Opened, Thrown, KeySettled, DecisionSettled, Bypassed, Waiting, Holder, Closing,
     Key, vars, dbVars, workerVars
<1> QED
  BY <1>1, <1>2 DEF Next

\* When no request is in progress, nothing but a request that died and a
\* decision on the approvals route has left an intent, a success, or a
\* decision half done, for any number of keys and requests:
\* requestConnectorAction, finishAction and their callers settle what they
\* begin on every path.  What the approvals route decided waits for ever.
THEOREM UnsettledIsExplained == Spec => []SettledAtRest
<1>1. ASSUME IInv, SInv, \A w \in Workers : pc[w] = "idle"
      PROVE  /\ \A k \in Keys \ cut :
                  /\ action[k] \in {"none"} \cup Final
                  /\ action[k] = "succeeded" => exec \in TerminalStatuses
             /\ approval # "pending" /\ item = "pending_approval" =>
                  {"decision", "bypass"} \cap cut # {}
             /\ "bypass" \in cut => item = "pending_approval" /\ exec = "waiting_approval"
  <2>1. \A w \in Workers : pc[w] \notin HoldSteps \cup AnswerSteps \cup Telling
    BY <1>1 DEF HoldSteps, AnswerSteps, Telling
  <2>2. \A w \in Workers : \A k \in Keys : ~Holder(w, k) /\ ~Closing(w, k)
    BY <2>1 DEF Holder, Closing, HoldSteps
  <2>3. \A k \in Keys : action[k] \in ActionStatuses
    BY <1>1 DEF IInv, TypeOK, Typed
  <2>4. \A k \in Keys \ cut : action[k] \notin Unfinished
    BY <1>1, <2>2 DEF SInv, KeySettled
  <2>5. \A k \in Keys \ cut : action[k] = "succeeded" => exec \in TerminalStatuses
    BY <1>1, <2>2 DEF SInv, KeySettled
  <2>6. \A k \in Keys \ cut : action[k] \in {"none"} \cup Final
    BY <2>3, <2>4 DEF ActionStatuses, Unfinished
  <2>7. approval # "pending" /\ item = "pending_approval" => {"decision", "bypass"} \cap cut # {}
    BY <1>1, <2>1 DEF SInv, DecisionSettled
  <2>8. "bypass" \in cut => item = "pending_approval" /\ exec = "waiting_approval"
    BY <1>1 DEF SInv, Bypassed, Waiting
  <2> QED
    BY <2>5, <2>6, <2>7, <2>8
<1>2. IInv /\ SInv => SettledAtRest
  BY <1>1 DEF SettledAtRest
<1>3. Spec => []SInv
  BY AlwaysInv, InitSettled, NextSettled, PTL DEF Spec
<1> QED
  BY <1>2, <1>3, AlwaysInv, PTL
=============================================================================
