------------------------------- MODULE Ledger -------------------------------
(***************************************************************************)
(* The append path of the audit kernel, at the grain of its SQL            *)
(* statements: packages/audit-kernel/src/ledger/append.ts, the row lock    *)
(* that execution/events.ts takes on behalf of sealExecution and           *)
(* requestExecutionApproval, and execution/executions.ts.                  *)
(*                                                                         *)
(* A client is one connection running one transaction.  Committed rows are *)
(* the variables headSeq .. finalEntry; what a transaction has read or     *)
(* will write is private (job, base, leaves) until Commit.  PostgreSQL is  *)
(* READ COMMITTED: each statement sees what is committed when it runs, a   *)
(* statement that needs a locked row waits, and a rollback (an error, a    *)
(* crash, a deadlock victim) drops every lock and every write.             *)
(***************************************************************************)
EXTENDS Integers, Sequences, FiniteSets, ExecutionStatus

CONSTANTS
  Orgs,        \* organizations, each with its own chain
  Executions,  \* execution rows
  OrgOf,       \* the organization of each execution
  Clients,     \* database connections
  Nobody,      \* no lock holder
  Interval,    \* merkleSnapshotInterval; 0 turns checkpoints off
  MaxEntries   \* bound: no append begins once a chain is this long

ASSUME OrgOfAssumption == OrgOf \in [Executions -> Orgs]
ASSUME NobodyAssumption == Nobody \notin Clients
ASSUME IntervalAssumption == Interval \in Nat
ASSUME MaxEntriesAssumption == MaxEntries \in Nat

VARIABLES
  chainRow,    \* chain_state: whether the organization has a row
  headSeq,     \* chain_state.latest_sequence
  headHash,    \* chain_state.latest_entry_hash
  ledger,      \* ledger_entries: rows by organization and sequence
  checkpoints, \* merkle_checkpoints
  status,      \* executions.status
  finalEntry,  \* executions.final_entry_id, as the entry's sequence (0: NULL)
  chainLock,   \* who holds the chain_state row of an organization
  rowLocks,    \* locks on execution rows
  pc,          \* the next statement of each client
  job,         \* what each client was called with
  base,        \* the chain head each client read under its lock
  leaves       \* the leaf hashes a client collected for a checkpoint

chainVars == <<chainRow, headSeq, headHash, ledger, checkpoints>>
executionVars == <<status, finalEntry>>
lockVars == <<chainLock, rowLocks>>
clientVars == <<pc, job, base, leaves>>
vars == <<chainVars, executionVars, lockVars, clientVars>>

-----------------------------------------------------------------------------
(* Rows and hashes *)

\* SQL NULL, for a hash or a root.
Null == <<>>

\* Variant for mutation runs: the digest leaves previous_hash out.
UnchainedHash(o, n, e, type, prev) == <<o, n, e, type, Null>>

\* computeEntryHash over buildHashPayload: a collision-free digest, so the
\* tuple of the hashed fields stands for it.
EntryHash(o, n, e, type, prev) == <<o, n, e, type, prev>>

\* Variant for mutation runs: the increment is missing.
SameSequence(head) == head.seq

\* nextSequence = locked.latest_sequence + 1
NextSequence(head) == head.seq + 1

\* Whether this append closes a Merkle interval.
IsBoundary(n) == Interval > 0 /\ n % Interval = 0

\* Variant for mutation runs: the interval starts one entry early.
FromOneEarly(n) == n - Interval

\* fromSequence of the checkpoint that ends at n.
FromSequence(n) == n - Interval + 1

\* ORDER BY organization_sequence: the i-th of a set of sequences.
InOrder(S, i) == CHOOSE n \in S : Cardinality({m \in S : m <= n}) = i

\* The entry hashes of organization o already stored in from .. upto - 1.
PriorLeaves(o, from, upto) ==
  LET stored == (from..(upto - 1)) \cap DOMAIN ledger[o]
  IN  [i \in 1..Cardinality(stored) |-> ledger[o][InOrder(stored, i)].hash]

\* Status changes without a ledger entry: setExecutionStatus on the pool.
StatusOnly == "status_only"

\* What an append is called with: the execution, the entry type and the
\* status its side effect writes ("none" for action_completed).
Jobs ==
  { j \in [exec : Executions, type : EntryTypes \cup {StatusOnly},
           target : Statuses \cup {"none"}] :
      \/ j.type = StatusOnly /\ j.target = "running"
      \/ j.type = "action_completed" /\ j.target = "none"
      \/ j.type \in EntryTypes /\ j.target \in Targets(j.type) }

NoJob == [exec |-> "none", type |-> "none", target |-> "none"]
NoBase == [seq |-> -1, hash |-> Null]

OrgOfJob(c) == OrgOf[job[c].exec]

\* The ledger row client c inserts.
NewSequence(c) == NextSequence(base[c])
NewHash(c) ==
  EntryHash(OrgOfJob(c), NewSequence(c), job[c].exec, job[c].type, base[c].hash)
NewRow(c) ==
  [ exec |-> job[c].exec, type |-> job[c].type, prev |-> base[c].hash,
    hash |-> NewHash(c), root |-> leaves[c] ]

Extend(f, n, row) == [i \in DOMAIN f \cup {n} |-> IF i = n THEN row ELSE f[i]]

-----------------------------------------------------------------------------
(* Row locks on executions: a foreign key check shares the row, a status   *)
(* UPDATE changes no key column, SELECT .. FOR UPDATE excludes all others. *)

LockModes == {"key_share", "no_key_update", "for_update"}

Conflict(m1, m2) ==
  \/ m1 = "for_update"
  \/ m2 = "for_update"
  \/ m1 = "no_key_update" /\ m2 = "no_key_update"

\* Those whose lock on e a request of c in this mode has to wait for.
Blockers(c, e, mode) ==
  { l.client : l \in { x \in rowLocks : x.exec = e /\ x.client # c
                                        /\ Conflict(x.mode, mode) } }

CanTake(c, e, mode) == Blockers(c, e, mode) = {}

Take(c, e, mode) == rowLocks' = rowLocks \cup {[client |-> c, exec |-> e, mode |-> mode]}

\* Variant for mutation runs: the head is read without FOR UPDATE.
NeverWaits(c, o) == c \in Clients /\ o \in Orgs

CanLockChain(c, o) == chainLock[o] \in {Nobody, c}

\* Variant for mutation runs: the chain row stays locked.
KeepChainLock(c) ==
  /\ rowLocks' = {l \in rowLocks : l.client # c}
  /\ UNCHANGED chainLock

\* End of transaction: COMMIT and ROLLBACK both give up every lock of c.
ReleaseLocks(c) ==
  /\ chainLock' = [o \in Orgs |-> IF chainLock[o] = c THEN Nobody ELSE chainLock[o]]
  /\ rowLocks' = {l \in rowLocks : l.client # c}

\* Variant for mutation runs: the arguments of the last call survive.
KeepJob(c) ==
  /\ pc' = [pc EXCEPT ![c] = "idle"]
  /\ base' = [base EXCEPT ![c] = NoBase]
  /\ leaves' = [leaves EXCEPT ![c] = Null]
  /\ UNCHANGED job

ClearClient(c) ==
  /\ pc' = [pc EXCEPT ![c] = "idle"]
  /\ job' = [job EXCEPT ![c] = NoJob]
  /\ base' = [base EXCEPT ![c] = NoBase]
  /\ leaves' = [leaves EXCEPT ![c] = Null]

Goto(c, label) == pc' = [pc EXCEPT ![c] = label]

-----------------------------------------------------------------------------
Init ==
  /\ chainRow = [o \in Orgs |-> FALSE]
  /\ headSeq = [o \in Orgs |-> 0]
  /\ headHash = [o \in Orgs |-> Null]
  /\ ledger = [o \in Orgs |-> <<>>]
  /\ checkpoints = [o \in Orgs |-> {}]
  /\ status = [e \in Executions |-> Absent]
  /\ finalEntry = [e \in Executions |-> 0]
  /\ chainLock = [o \in Orgs |-> Nobody]
  /\ rowLocks = {}
  /\ pc = [c \in Clients |-> "idle"]
  /\ job = [c \in Clients |-> NoJob]
  /\ base = [c \in Clients |-> NoBase]
  /\ leaves = [c \in Clients |-> Null]

\* openExecution: one autocommitted INSERT with status 'created'.
OpenExecution(e) ==
  /\ status[e] = Absent
  /\ status' = [status EXCEPT ![e] = "created"]
  /\ UNCHANGED <<chainVars, finalEntry, lockVars, clientVars>>

\* BEGIN, with the arguments of the call.  Where the transaction starts
\* depends on the caller: requestExecutionApproval and sealExecution append
\* events first (the approval row names its execution without a foreign
\* key), appendLedgerEntry goes straight to the chain, and
\* setExecutionStatus only touches the row.
FirstStatement(type) ==
  CASE type \in {"approval_requested", "final", "failure"} -> "claim"
    [] type \in {"request_opened", "action_completed"}     -> "ensure"
    [] type = StatusOnly                                  -> "check"

Begin(c, j) ==
  /\ pc[c] = "idle"
  /\ status[j.exec] # Absent
  /\ j.type # StatusOnly => headSeq[OrgOf[j.exec]] < MaxEntries
  /\ job' = [job EXCEPT ![c] = j]
  /\ Goto(c, FirstStatement(j.type))
  /\ UNCHANGED <<chainVars, executionVars, lockVars, base, leaves>>

\* appendExecutionEventInTransaction: SELECT id .. FOR UPDATE on the execution.
ClaimExecution(c) ==
  /\ pc[c] = "claim"
  /\ CanTake(c, job[c].exec, "for_update")
  /\ Take(c, job[c].exec, "for_update")
  /\ Goto(c, "ensure")
  /\ UNCHANGED <<chainVars, executionVars, chainLock, job, base, leaves>>

\* INSERT INTO audit.chain_state .. ON CONFLICT DO NOTHING: against a
\* committed row nothing happens; the first inserter owns the new row, and
\* a second one waits for it to commit or roll back.
EnsureChainRow(c) ==
  /\ pc[c] = "ensure"
  /\ \/ /\ chainRow[OrgOfJob(c)]
        /\ UNCHANGED chainLock
     \/ /\ ~chainRow[OrgOfJob(c)]
        /\ CanLockChain(c, OrgOfJob(c))
        /\ chainLock' = [chainLock EXCEPT ![OrgOfJob(c)] = c]
  /\ Goto(c, "lock")
  /\ UNCHANGED <<chainVars, executionVars, rowLocks, job, base, leaves>>

\* SELECT latest_sequence, latest_entry_hash .. FOR UPDATE.
LockHead(c) ==
  /\ pc[c] = "lock"
  /\ CanLockChain(c, OrgOfJob(c))
  /\ chainLock' = [chainLock EXCEPT ![OrgOfJob(c)] = c]
  /\ base' = [base EXCEPT ![c] = [seq  |-> headSeq[OrgOfJob(c)],
                                  hash |-> headHash[OrgOfJob(c)]]]
  /\ Goto(c, "collect")
  /\ UNCHANGED <<chainVars, executionVars, rowLocks, job, leaves>>

\* At an interval boundary, SELECT the prior entry hashes and add our own.
CollectLeaves(c) ==
  /\ pc[c] = "collect"
  /\ leaves' =
       [leaves EXCEPT ![c] =
          IF IsBoundary(NewSequence(c))
            THEN Append(PriorLeaves(OrgOfJob(c), FromSequence(NewSequence(c)),
                                    NewSequence(c)),
                        NewHash(c))
            ELSE Null]
  /\ Goto(c, "insert")
  /\ UNCHANGED <<chainVars, executionVars, lockVars, job, base>>

\* INSERT the ledger row (unique per organization and sequence; its foreign
\* key shares the execution row), UPDATE chain_state and INSERT the
\* checkpoint, all uncommitted.
InsertEntry(c) ==
  /\ pc[c] = "insert"
  /\ NewSequence(c) \notin DOMAIN ledger[OrgOfJob(c)]
  /\ CanTake(c, job[c].exec, "key_share")
  /\ Take(c, job[c].exec, "key_share")
  /\ Goto(c, IF job[c].type = "action_completed" THEN "commit" ELSE "check")
  /\ UNCHANGED <<chainVars, executionVars, chainLock, job, base, leaves>>

\* setExecutionStatus, first half: read the row and assert the transition.
\* An invalid one throws, which is the Rollback below.
CheckStatus(c) ==
  /\ pc[c] = "check"
  /\ CanMove(status[job[c].exec], job[c].target)
  /\ Goto(c, "mark")
  /\ UNCHANGED <<chainVars, executionVars, lockVars, job, base, leaves>>

\* setExecutionStatus, second half: UPDATE .. WHERE id = $1, which waits for
\* the row and does not look at the status again.
MarkExecution(c) ==
  /\ pc[c] = "mark"
  /\ CanTake(c, job[c].exec, "no_key_update")
  /\ Take(c, job[c].exec, "no_key_update")
  /\ Goto(c, "commit")
  /\ UNCHANGED <<chainVars, executionVars, chainLock, job, base, leaves>>

\* The effect of the transaction on the chain of its organization.
PublishEntry(c) ==
  LET o == OrgOfJob(c)
      n == NewSequence(c)
  IN  /\ chainRow' = [chainRow EXCEPT ![o] = TRUE]
      /\ headSeq' = [headSeq EXCEPT ![o] = n]
      /\ headHash' = [headHash EXCEPT ![o] = NewHash(c)]
      /\ ledger' = [ledger EXCEPT ![o] = Extend(@, n, NewRow(c))]
      /\ checkpoints' =
           [checkpoints EXCEPT ![o] =
              IF leaves[c] = Null THEN @
              ELSE @ \cup {[from |-> FromSequence(n), through |-> n, leaves |-> leaves[c]]}]

\* Its effect on the execution row: COALESCE keeps an earlier final_entry_id.
PublishStatus(c) ==
  LET e == job[c].exec
  IN  /\ status' = IF job[c].type = "action_completed" THEN status
                   ELSE [status EXCEPT ![e] = job[c].target]
      /\ finalEntry' = IF IsSeal(job[c].type)
                         THEN [finalEntry EXCEPT ![e] = NewSequence(c)]
                         ELSE finalEntry

Commit(c) ==
  /\ pc[c] = "commit"
  /\ IF job[c].type = StatusOnly THEN UNCHANGED chainVars ELSE PublishEntry(c)
  /\ PublishStatus(c)
  /\ ReleaseLocks(c)
  /\ ClearClient(c)

\* Any statement may throw (a failed assertion, a crash, a deadlock abort).
Rollback(c) ==
  /\ pc[c] # "idle"
  /\ ReleaseLocks(c)
  /\ ClearClient(c)
  /\ UNCHANGED <<chainVars, executionVars>>

Step(c) ==
  \/ ClaimExecution(c)
  \/ EnsureChainRow(c)
  \/ LockHead(c)
  \/ CollectLeaves(c)
  \/ InsertEntry(c)
  \/ CheckStatus(c)
  \/ MarkExecution(c)
  \/ Commit(c)

Next ==
  \/ \E e \in Executions : OpenExecution(e)
  \/ \E c \in Clients : \/ \E j \in Jobs : Begin(c, j)
                        \/ Step(c)
                        \/ Rollback(c)

Spec == Init /\ [][Next]_vars

-----------------------------------------------------------------------------
(* Fairness.  A connection keeps executing statements, PostgreSQL grants a *)
(* lock queue in order (so a statement that can repeatedly run does run),  *)
(* an assertion that fails throws, and the deadlock detector aborts a      *)
(* transaction of a cycle.                                                 *)

\* The clients whose locks keep c's next statement waiting.
WaitsFor(c) ==
  CASE pc[c] = "claim"  -> Blockers(c, job[c].exec, "for_update")
    [] pc[c] = "insert" -> Blockers(c, job[c].exec, "key_share")
    [] pc[c] = "mark"   -> Blockers(c, job[c].exec, "no_key_update")
    [] pc[c] = "lock" \/ (pc[c] = "ensure" /\ ~chainRow[OrgOfJob(c)]) ->
         {chainLock[OrgOfJob(c)]} \ {Nobody, c}
    [] OTHER -> {}

Deadlocked(c) ==
  \E S \in SUBSET Clients : c \in S /\ \A d \in S : WaitsFor(d) \cap S # {}

Refused(c) == pc[c] = "check" /\ ~CanMove(status[job[c].exec], job[c].target)

AbortDeadlock(c) == Deadlocked(c) /\ Rollback(c)
ThrowTransition(c) == Refused(c) /\ Rollback(c)

Fairness ==
  \A c \in Clients : /\ SF_vars(Step(c))
                     /\ WF_vars(AbortDeadlock(c))
                     /\ WF_vars(ThrowTransition(c))

FairSpec == Spec /\ Fairness

-----------------------------------------------------------------------------
(* Properties *)

IsFcn(f, S) == f = [x \in S |-> f[x]]

Labels == {"idle", "claim", "ensure", "lock", "collect", "insert",
           "check", "mark", "commit"}

\* Every variable has its type; hashes are typed by ChainIntact instead.
TypeOK ==
  /\ chainRow \in [Orgs -> BOOLEAN]
  /\ headSeq \in [Orgs -> Nat]
  /\ IsFcn(headHash, Orgs)
  /\ IsFcn(ledger, Orgs)
  /\ IsFcn(checkpoints, Orgs)
  /\ status \in [Executions -> Statuses \cup {Absent}]
  /\ finalEntry \in [Executions -> Nat]
  /\ chainLock \in [Orgs -> Clients \cup {Nobody}]
  /\ rowLocks \subseteq [client : Clients, exec : Executions, mode : LockModes]
  /\ pc \in [Clients -> Labels]
  /\ IsFcn(job, Clients)
  /\ \A c \in Clients : IF pc[c] = "idle" THEN job[c] = NoJob ELSE job[c] \in Jobs
  /\ IsFcn(base, Clients)
  /\ IsFcn(leaves, Clients)

\* The hash stored in the entry before n, or NULL for the first.
PreviousHash(o, n) == IF n = 1 THEN Null ELSE ledger[o][n - 1].hash

\* An organization's chain never forks, skips or dangles: its entries are
\* numbered 1 .. latest_sequence without a gap, each stores the hash of the
\* one before it and a hash of its own fields, and chain_state names the
\* last one.  This is what verifyOrganizationChain recomputes.
ChainIntact ==
  \A o \in Orgs :
    /\ DOMAIN ledger[o] = 1..headSeq[o]
    /\ headHash[o] = PreviousHash(o, headSeq[o] + 1)
    /\ \A n \in 1..headSeq[o] :
         LET row == ledger[o][n]
         IN  /\ row.prev = PreviousHash(o, n)
             /\ row.hash = EntryHash(o, n, row.exec, row.type, row.prev)
             /\ OrgOf[row.exec] = o

Building(c) == pc[c] \in {"collect", "insert", "check", "mark", "commit"}
               /\ job[c].type # StatusOnly

\* The head a transaction computed its entry from is still the committed
\* head of the chain for as long as the transaction lasts: it holds the
\* chain_state row, and no append of another connection can slip between
\* its read and its commit, so the unique (organization, sequence)
\* constraint never fires.
HeadFresh ==
  \A c \in Clients :
    Building(c) =>
      /\ chainLock[OrgOfJob(c)] = c
      /\ base[c].seq = headSeq[OrgOfJob(c)]
      /\ base[c].hash = headHash[OrgOfJob(c)]

\* The three hold together and need one another: a commit keeps the chain
\* intact because the head it was built on is still the committed one, and
\* that head stays because its reader holds the lock.
IInv == TypeOK /\ ChainIntact /\ HeadFresh

\* The Merkle checkpoints of an organization are exactly the completed
\* intervals, each over the hashes of the entries it names, in order; an
\* entry carries a root exactly when it closes one.
CheckpointsExact ==
  \A o \in Orgs :
    LET closed == {n \in 1..headSeq[o] : Interval > 0 /\ n % Interval = 0}
        span(n) == [i \in 1..Interval |-> ledger[o][n - Interval + i].hash]
    IN  /\ checkpoints[o] =
             {[from |-> n - Interval + 1, through |-> n, leaves |-> span(n)] : n \in closed}
        /\ \A n \in 1..headSeq[o] :
             ledger[o][n].root = IF n \in closed THEN span(n) ELSE Null

\* The sequences of the entries that sealed execution e.
Seals(e) == {n \in DOMAIN ledger[OrgOf[e]] :
               /\ ledger[OrgOf[e]][n].exec = e
               /\ ledger[OrgOf[e]][n].type \in {"final", "failure"}}

\* final_entry_id and the ledger agree at every commit: it names the last
\* entry that sealed the execution and is null only if there is none, and a
\* terminal status is always the outcome that entry recorded.  (A crash
\* between the ledger insert and the status update would break this.)
FinalEntryAgrees ==
  \A e \in Executions :
    /\ finalEntry[e] = 0 <=> Seals(e) = {}
    /\ Seals(e) # {} => /\ finalEntry[e] \in Seals(e)
                        /\ \A n \in Seals(e) : n <= finalEntry[e]
    /\ status[e] \in TerminalStatuses =>
         /\ finalEntry[e] # 0
         /\ ledger[OrgOf[e]][finalEntry[e]].type =
              IF status[e] = "completed" THEN "final" ELSE "failure"

\* Every transaction that begins ends: waiting for the chain, for an
\* execution row or in a lock cycle (a seal holds the execution and wants
\* the chain while an opening append holds the chain and wants the
\* execution) never lasts for ever.
EveryAppendEnds == \A c \in Clients : pc[c] # "idle" ~> pc[c] = "idle"

-----------------------------------------------------------------------------
(* What the ledger promises its readers: see HashChain. *)
Chain == INSTANCE HashChain WITH
  chain <- [o \in Orgs |-> [n \in DOMAIN ledger[o] |->
              [exec |-> ledger[o][n].exec, type |-> ledger[o][n].type,
               prev |-> ledger[o][n].prev]]]

\* The append path implements an atomic hash chain per organization: each
\* step appends one linked entry to one chain or changes none.
ImplementsHashChain == Chain!Spec
=============================================================================
