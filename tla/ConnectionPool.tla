--------------------------- MODULE ConnectionPool ---------------------------
(***************************************************************************)
(* The connections of a core-api process.  buildServer (server.ts) makes   *)
(* one pg.Pool with a maximum and no connection timeout, so a request that *)
(* asks a full pool waits, first come first served, for as long as it      *)
(* takes.  Most requests hold one connection at a time; appending an event *)
(* holds one while it waits for the lock on the execution's row            *)
(* (execution/events.ts of the audit kernel).  requestExecutionApproval    *)
(* (execution/lifecycle.ts) asks the pool for a second connection inside   *)
(* its transaction, before it takes that lock.                             *)
(*                                                                         *)
(* pg.Pool and the row locks of PostgreSQL are external, modelled from how *)
(* these functions use them.  The chain lock of an append is Ledger's.     *)
(*                                                                         *)
(* Names that Access has too carry a prefix here, because the theorems     *)
(* about both, what a core-api process rations, stand in one module.       *)
(***************************************************************************)
EXTENDS Integers, Sequences, FiniteSets

CONSTANTS
  Clients,    \* requests in progress at once
  Executions,
  PoolSize,   \* the maximum of the pool
  MaxRequests \* bound on the requests of a behavior

ASSUME ClientsAssumption == IsFiniteSet(Clients)
ASSUME PoolSizeAssumption == PoolSize \in Nat \ {0}
ASSUME MaxRequestsAssumption == MaxRequests \in Nat

VARIABLES
  kind,      \* what each request does: approve, append, read or none
  exec,      \* the execution it is about, or none
  stage,     \* its next statement
  tx,        \* requests that hold a connection for their transaction
  single,    \* requests that hold a connection for one pool.query
  queue,     \* requests waiting for a connection, in order
  rowLock,   \* who holds the row of an execution FOR UPDATE
  begun      \* requests begun so far

poolVars == <<tx, single, queue>>
allVars == <<kind, exec, stage, poolVars, rowLock, begun>>

-----------------------------------------------------------------------------
Kinds == {"approve", "append", "read"}

\* Variant for mutation runs: appending reads its parent inside the
\* transaction too.
ParentInTransaction(k, s) ==
  CASE s = "query"  -> IF k = "read" THEN "done" ELSE "begin"
    [] s = "begin"  -> IF k = "approve" THEN "insert" ELSE "nested"
    [] s = "insert" -> "nested"
    [] s = "nested" -> "claim"
    [] s = "claim"  -> "commit"

\* What follows a statement of a request: every kind begins with a query on
\* the pool; an approval inserts its row, asks lastEventId on the pool and
\* then locks the execution to append its event.
NextStatement(k, s) ==
  CASE s = "query"  -> IF k = "read" THEN "done" ELSE "begin"
    [] s = "begin"  -> IF k = "approve" THEN "insert" ELSE "claim"
    [] s = "insert" -> "nested"
    [] s = "nested" -> "claim"
    [] s = "claim"  -> "commit"

Busy == {w \in Clients : stage[w] # "idle"}
InUse == Cardinality(tx) + Cardinality(single)
Queued(w) == \E i \in DOMAIN queue : queue[i] = w

\* Statements that need a connection from the pool, and those of them that
\* give it back when they are done.
Asking == {"query", "begin", "nested"}
Brief == {"query", "nested"}

Holds(w) == IF stage[w] = "begin" THEN w \in tx ELSE w \in single

FreeRow(w) ==
  rowLock' = [e \in Executions |-> rowLock[e] \ {w}]

\* Variant for mutation runs: a rollback that keeps its row locks.
KeepLocks(w) == UNCHANGED rowLock

\* The end of a transaction frees its row locks.
FreeLocks(w) == FreeRow(w)

Advance(w) == stage' = [stage EXCEPT ![w] = NextStatement(kind[w], @)]

PoolInit ==
  /\ kind = [w \in Clients |-> "none"]
  /\ exec = [w \in Clients |-> "none"]
  /\ stage = [w \in Clients |-> "idle"]
  /\ tx = {}
  /\ single = {}
  /\ queue = <<>>
  /\ rowLock = [e \in Executions |-> {}]
  /\ begun = 0

Accept(w, k, e) ==
  /\ stage[w] = "idle"
  /\ begun < MaxRequests
  /\ begun' = begun + 1
  /\ kind' = [kind EXCEPT ![w] = k]
  /\ exec' = [exec EXCEPT ![w] = e]
  /\ stage' = [stage EXCEPT ![w] = "query"]
  /\ UNCHANGED <<poolVars, rowLock>>

-----------------------------------------------------------------------------
(* The pool *)

HasFree == InUse < PoolSize

\* pool.connect and pool.query: a free connection, or the end of the queue.
Ask(w) ==
  /\ stage[w] \in Asking
  /\ ~Holds(w) /\ ~Queued(w)
  /\ IF HasFree
       THEN /\ tx' = IF stage[w] = "begin" THEN tx \cup {w} ELSE tx
            /\ single' = IF stage[w] \in Brief THEN single \cup {w} ELSE single
            /\ UNCHANGED queue
       ELSE /\ queue' = Append(queue, w)
            /\ UNCHANGED <<tx, single>>
  /\ UNCHANGED <<kind, exec, stage, rowLock, begun>>

\* A connection comes back and leaves the holders t and s: the first in the
\* queue gets it.
HandOver(t, s) ==
  IF queue = <<>>
    THEN tx' = t /\ single' = s /\ UNCHANGED queue
    ELSE /\ tx' = IF stage[Head(queue)] = "begin" THEN t \cup {Head(queue)} ELSE t
         /\ single' = IF stage[Head(queue)] \in Brief THEN s \cup {Head(queue)} ELSE s
         /\ queue' = Tail(queue)

-----------------------------------------------------------------------------
(* The statements of a request *)

Idle(w) ==
  /\ stage' = [stage EXCEPT ![w] = "idle"]
  /\ kind' = [kind EXCEPT ![w] = "none"]
  /\ exec' = [exec EXCEPT ![w] = "none"]

\* A query on the pool, by itself or inside a transaction; it needs no row
\* lock and gives its connection back.
Query(w) ==
  /\ stage[w] \in Brief
  /\ w \in single
  /\ HandOver(tx, single \ {w})
  /\ IF NextStatement(kind[w], stage[w]) = "done"
       THEN Idle(w)
       ELSE Advance(w) /\ UNCHANGED <<kind, exec>>
  /\ UNCHANGED <<rowLock, begun>>

BeginTransaction(w) ==
  /\ stage[w] = "begin"
  /\ w \in tx
  /\ Advance(w)
  /\ UNCHANGED <<kind, exec, poolVars, rowLock, begun>>

\* INSERT INTO command.approvals: the row names its execution without a
\* foreign key, so it waits for nobody.
InsertApproval(w) ==
  /\ stage[w] = "insert"
  /\ Advance(w)
  /\ UNCHANGED <<kind, exec, poolVars, rowLock, begun>>

\* appendExecutionEventInTransaction: SELECT ... FOR UPDATE.
Claimable(w) == rowLock[exec[w]] = {}

ClaimExecution(w) ==
  /\ stage[w] = "claim"
  /\ Claimable(w)
  /\ rowLock' = [rowLock EXCEPT ![exec[w]] = {w}]
  /\ Advance(w)
  /\ UNCHANGED <<kind, exec, poolVars, begun>>

\* COMMIT, and the release of the finally block after it.
Commit(w) ==
  /\ stage[w] = "commit"
  /\ FreeRow(w)
  /\ stage' = [stage EXCEPT ![w] = "release"]
  /\ UNCHANGED <<kind, exec, poolVars, begun>>

\* A statement throws: a query on the pool gives its connection back, and the
\* catch block rolls back what the transaction did.
QueryFails(w) ==
  /\ stage[w] \in Brief
  /\ w \in single
  /\ HandOver(tx, single \ {w})
  /\ IF w \in tx
       THEN stage' = [stage EXCEPT ![w] = "rollback"] /\ UNCHANGED <<kind, exec>>
       ELSE Idle(w)
  /\ UNCHANGED <<rowLock, begun>>

StatementFails(w) ==
  /\ stage[w] \in {"begin", "insert", "claim", "commit"}
  /\ w \in tx
  /\ stage' = [stage EXCEPT ![w] = "rollback"]
  /\ UNCHANGED <<kind, exec, poolVars, rowLock, begun>>

Rollback(w) ==
  /\ stage[w] = "rollback"
  /\ FreeLocks(w)
  /\ stage' = [stage EXCEPT ![w] = "release"]
  /\ UNCHANGED <<kind, exec, poolVars, begun>>

\* Variant for mutation runs: no finally block releases the client.
LeakClient(w) ==
  /\ stage[w] = "release"
  /\ Idle(w)
  /\ UNCHANGED <<poolVars, rowLock, begun>>

Release(w) ==
  /\ stage[w] = "release"
  /\ HandOver(tx \ {w}, single)
  /\ Idle(w)
  /\ UNCHANGED <<rowLock, begun>>

Step(w) ==
  \/ Ask(w)
  \/ Query(w)
  \/ BeginTransaction(w)
  \/ InsertApproval(w)
  \/ ClaimExecution(w)
  \/ Commit(w)
  \/ Rollback(w)
  \/ Release(w)

PoolNext ==
  \E w \in Clients :
    \/ \E k \in Kinds, e \in Executions : Accept(w, k, e)
    \/ Step(w)
    \/ QueryFails(w)
    \/ StatementFails(w)

PoolSpec == PoolInit /\ [][PoolNext]_allVars

\* Requests run, the pool serves, the database answers and grants a row to
\* those who wait for it; nothing has to fail.
PoolFairSpec == PoolSpec /\ \A w \in Clients : WF_allVars(Step(w))

-----------------------------------------------------------------------------
(* Properties *)

Stages == {"idle", "query", "begin", "insert", "nested", "claim", "commit",
           "rollback", "release"}

\* The statements of a transaction, which holds its connection throughout.
InTransaction == {"insert", "nested", "claim", "commit", "rollback", "release"}

\* The types of the variables, and what a connection is out for: no more than
\* the maximum are out, a request waits only while all of them are, and each
\* one out belongs to a request at a statement that needs it, on the failing
\* paths too, so that none is lost when requests fail, are aborted or are
\* served from the queue.  A row is locked by one request, whose transaction
\* has nothing to ask of the pool any more.
PoolTypeOK ==
  /\ kind \in [Clients -> Kinds \cup {"none"}]
  /\ exec \in [Clients -> Executions \cup {"none"}]
  /\ stage \in [Clients -> Stages]
  /\ \A w \in Clients : stage[w] = "idle" \/ (kind[w] \in Kinds /\ exec[w] \in Executions)
  /\ tx \subseteq Clients
  /\ \A w \in Clients : stage[w] \in InTransaction => w \in tx
  /\ \A w \in tx : stage[w] \in InTransaction \cup {"begin"}
  /\ single \subseteq Clients
  /\ \A w \in single : stage[w] \in Brief
  /\ queue \in Seq(Clients)
  /\ \A i, j \in DOMAIN queue : queue[i] = queue[j] => i = j
  /\ \A i \in DOMAIN queue : stage[queue[i]] \in Asking /\ ~Holds(queue[i])
  /\ InUse <= PoolSize
  /\ queue # <<>> => InUse = PoolSize
  /\ rowLock \in [Executions -> SUBSET Clients]
  /\ \A e \in Executions : \A w \in rowLock[e] :
       rowLock[e] = {w} /\ exec[w] = e /\ stage[w] \in {"commit", "rollback"}
  /\ begun \in 0..MaxRequests

\* A request that cannot take its next step by itself.
Stuck(w) ==
  \/ Queued(w)
  \/ stage[w] = "claim" /\ ~Claimable(w)

\* What brings the whole process to a standstill is known: it takes as many
\* approval requests as the pool has connections, all inside their
\* transaction and all waiting for a second connection.  Row locks never add
\* to it: whoever holds one is past its last query on the pool.
StandstillNeedsApprovals ==
  (Busy # {} /\ \A w \in Busy : Stuck(w)) =>
    /\ Cardinality(tx) = PoolSize
    /\ \A w \in tx : kind[w] = "approve" /\ Queued(w)

\* The transactions that will ask for a second connection, or have.
AskingTwice == {w \in tx : kind[w] = "approve" /\ stage[w] \in {"begin", "insert", "nested"}}

\* As long as fewer approval requests are in that part of their transaction
\* than the pool has connections, every request ends, however many others
\* are waiting for the pool or for the execution's row.
EveryRequestEnds ==
  [](Cardinality(AskingTwice) < PoolSize) =>
    \A w \in Clients : stage[w] # "idle" ~> stage[w] = "idle"
=============================================================================
