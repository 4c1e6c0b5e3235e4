# VerityOS V0.1: models and proofs of the governed core

VerityOS runs every task of an organization as a *governed execution*: a row
with a status, an append-only list of events, approvals by people, calls to
external services, and entries in a hash-chained audit ledger that an exported
bundle lets anybody verify.  This directory holds TLA+ models of that core,
TLC configurations that check them on small instances, and TLAPS proofs for
every instance.  Paths below are relative to the repository root.

## 1. Inventory

| Component | State it keeps | Operations | Hard behaviour | What makes it correct |
|---|---|---|---|---|
| Audit ledger (`packages/audit-kernel/src/ledger`, `hashing`) | `audit.chain_state`, `ledger_entries`, `merkle_checkpoints` | `appendLedgerEntry(InTransaction)` | concurrent appends, lock order, rollback anywhere, interval boundaries | one unforked chain per organization; checkpoints are exactly the closed intervals |
| Execution rows (`audit-kernel/src/execution/executions.ts`) | `audit.executions.status`, `final_entry_id` | `openExecution`, `setExecutionStatus` | the transition is asserted on a read that may be stale | terminal statuses are final and agree with the sealing entry |
| Events and sealing (`events.ts`, `finalize.ts`, `graph-v2.ts`) | `execution_events` | append an event, `sealExecution` | events racing a seal; parents read outside the transaction | a seal commits to the history; every parent resolves |
| Execution lifecycle (`apps/core-api/src/execution`) | none of its own; sequences of commits | open, skill, retrieve, model, request approval, decide, finalize | requests of several commits interleave and die between them | the ledger of an execution tells a lawful story |
| Approvals (`packages/command/src/index.ts`) | `command.approvals` | request, decide | several deciders, two routes | one decision, never by the requester |
| Connector gateway (`apps/core-api/src/connectors/gateway.ts`, `packages/connectors`) | `command.connector_actions`, tool events | `requestConnectorAction`, `finishAction` | an external call that is no part of any transaction; replays, timeouts, deaths | at most one call per key, intent first, no untrue outcome |
| Nova (`apps/nova`) | `social.content_items`, onboarding sessions, skill runs | `run`, `decide_social`, `publish_social`, Slack handlers | rows loaded before and saved whole after remote calls | the item shows what was done |
| Evidence export and verification (`audit-kernel/src/export`, `verify`, `merkle`) | none | `exportOrganizationEvidence`, `verifyEvidenceBundle` | several reads while the system writes | a sound bundle verifies, an altered one does not |
| Policy (`command/src/index.ts`, `connectors.ts`) | policies, bindings, skills and their roles | `seedDefaultCommand`, `evaluatePolicy`, `evaluateConnectorAction` | thirty inserts without a transaction; decisions of several reads | what is not seeded is denied |
| Identity (`packages/identity`) | organizations, users, memberships, sessions | create organization and user, log in and out | creation in several statements; resets while requests run | rows refer to rows; a user without a membership has a reason |
| Knowledge (`packages/knowledge`) | sources, versions, chunks, retrieval runs | upload, approve, index, reindex, retrieve | reindexing in two transactions; retrieval at the same time | only approved, readable text is returned |
| Model router (`packages/model-router`) | models | `registerModel`, `routeModel` | four or more reads per choice | only lawful models are chosen, local ones first |
| Rate limiter (`apps/core-api/src/rate-limit.ts`) | times of calls, in memory | `allow` | window boundaries, restarts | the limit of every window |
| HTTP routes (`server.ts`, `shell.ts`) | none | about ninety routes | each is a sequence of the calls above | as above |
| Connection pool (`server.ts:154`, used by `lifecycle.ts`, `events.ts`) | connections out, queue of requests | `pool.query`, `pool.connect`, `release` | a request that asks for a second connection while it holds one; connections lost on failing paths | no connection is lost; what can stop the process is known |
| Database schema (`db/migrations`) | tables, foreign keys, cascades | inserts and deletes | an order of deletes that twenty foreign keys allow | no row refers to a row that is gone |
| Seeds and demo wipe (`seed-demo.ts`, `seed-dev.ts`, `demo-wipe.ts`) | the tenant they build, the seed file | wipe in one transaction, build in some forty | deaths half way, repeated and overlapping runs, requests meanwhile | a tenant is whole or gone; a calm run rebuilds it |
| Web shell, SDK, metrics, logging, operations scripts, kernel v1 | none the others depend on | | | not modelled |

How they interact.  The Core API is one Node process with a pool of PostgreSQL
connections; Nova is a Python process that calls the Core over HTTP and shares
the database.  Components meet in rows: a request is a sequence of statements
and transactions on the pool, and the requests of many users interleave
between any two of them.  Within a transaction the append path orders itself
by a row lock on `audit.chain_state`; events order themselves by `FOR UPDATE`
on the execution row.  The only remote effect that cannot be rolled back is
the call to a provider.  Nothing resumes a request that died.

## 2. Modules

| Module | Models | Lines of code it stands for |
|---|---|---|
| `ExecutionStatus` | the transition table, entry types and their side effect on the row | `executions.ts`, `append.ts:207-227` |
| `HashChain` | the abstract promise: an atomic, linked, append-only chain per organization | `docs/architecture/audit-kernel.md` in `AppendEntry`'s terms |
| `Ledger` | the append path, one SQL statement at a time, with row locks, rollbacks and commits | `append.ts`, `executions.ts`, the locks of `events.ts`, `finalize.ts`, `lifecycle.ts` |
| `LedgerProofs` | the theorems about `Ledger`; that it implements `HashChain` | |
| `Execution` | the lifecycle of executions, one commit or pool read at a time | `service.ts`, `lifecycle.ts`, `events.ts`, `finalize.ts`, `graph-v2.ts`, `command/src/index.ts` |
| `ExecutionProofs` | the theorems about `Execution` | |
| `ConnectorGateway` | publishing one artifact through both entrances, down to the provider | `gateway.ts`, `shell.ts`, the approvals route of `server.ts`, `meta-facebook.ts`, Nova's `engine.py` |
| `GatewayProofs` | the theorems about `ConnectorGateway` | |
| `ConnectionPool` | who holds and who waits for the connections of the pool, and for the row of an execution | `server.ts` (`buildServer`), `lifecycle.ts`, `events.ts` |
| `Merkle` | the tree, its proofs and their verification | `merkle.ts` |
| `Evidence` | verifying a record: the reads of the record and of the export, the verifier, alterations of a bundle | `records.ts`, `bundle.ts`, `verify.ts` |
| `EvidenceProofs` | the theorems about `Evidence` and `Merkle` | |
| `Knowledge` | versions of a source, their approval and index, retrieval runs, the context of model calls | `ingest.ts`, `retrieve.ts`, `context.ts`, `service.ts` |
| `KnowledgeProofs` | the theorems about `Knowledge` | |
| `Nova` | skill runs, content items, run rows, the onboarding interview and its brand, one await at a time | `engine.py`, `internal.py`, `interactions.py`, `events.py`, `onboarding.py`, `persistence.py`, `shell.ts`, the approvals route of `server.ts` |
| `NovaProofs` | the theorems about `Nova` | |
| `Policy` | the rows of a tenant's seed, the decisions of Command and the choice of the router, as operators | `command/src/index.ts`, `model-router/src/index.ts` |
| `Access` | tenants, users, sessions, the login limiters, and policy and routing requests, one statement at a time | `identity/src/index.ts`, `server.ts`, `rate-limit.ts`, `demo-wipe.ts`, and `Policy`'s |
| `AccessProofs` | the theorems about `Access`, `Policy` and `ConnectionPool` | |
| `TenantTables` | the tables of a tenant, their foreign keys and cascades, as sets of pairs | `db/migrations` |
| `DemoReset` | the seeds and the wipe, one statement at a time, beside requests of members | `seed-demo.ts`, `seed-dev.ts`, `demo-wipe.ts`, and the schema of `TenantTables` |
| `DemoProofs` | the theorems about `DemoReset` | |
| `MCLedger`, `MCExecution`, `MCConnectorGateway`, `MCConnectionPool`, `MCEvidence`, `MCKnowledge`, `MCNova`, `MCAccess`, `MCDemoReset` | small instances | |

**Ledger.** A client is a connection in a transaction. `pc` names its next
statement: `claim` (`FOR UPDATE` on the execution), `ensure` (`INSERT .. ON
CONFLICT DO NOTHING` of the chain row), `lock` (the head `FOR UPDATE`),
`collect` (the leaves of a closing interval), `insert`, `check` and `mark` (the
two halves of `setExecutionStatus`), `commit`. Committed rows change only in
`Commit` (`PublishEntry`, `PublishStatus`); `Rollback` is possible at every
statement. Three lock modes of PostgreSQL on execution rows are modelled
because the lock cycles come from their conflicts. A hash is the tuple of the
hashed fields, that is, SHA-256 without collisions.

**Execution.**  A worker is a request; a step is one commit or one read on the
pool.  `seen` is the status it read at its start and `parent` the event it read
as the parent, both possibly stale when used.  A transaction that appends to
the ledger is one step; `Ledger` refines `HashChain`, which is what justifies
that grain.  A graph hash is the graph itself.  `AtItsStep` says what a request
at each step holds and what the rows already show of it; `cut` is a history
variable, the decisions that a death stopped half way.  `LateTypes` are the
events that may follow a seal: the lifecycle checks the status before it takes
the row, and a decision checks none.  A record with such an event is exported
as unlinked, which is one of the three states the documentation names.

**ConnectorGateway.**  One execution with one approval and one content item, as
`SkillEngine.run` leaves them.  `via` says whether a request entered through the
session routes, through Nova, or, for a decision, through `POST
/v1/approvals/:approvalId/decide` (`"approvals"`), which updates the row and
ends: neither the execution nor the item hears of it.  `delivered` is what the
provider did, whether or not anybody learned it.  The races inside an approval
decision or a finalization are those of `Execution` and are single steps here.
A key has one holder (`Holder`), the request that inserted its action row, from
the intent to the end of `finishAction`; `cut` names what nobody will finish:
what requests that died were at, and with `"bypass"` a decision on the approvals
route.

**ConnectionPool.**  A client is a request and a step a statement.  `tx` and
`single` are the connections out, for a transaction and for one query;
`queue` is that of `pg.Pool`, first come first served and without a timeout,
because `buildServer` sets none.  An append locks the row of the execution
inside its transaction; an approval request first inserts its row and asks
`lastEventId` on the pool.  `QueryFails` and `StatementFails` are the failing
paths, which have to give connections back too.  The chain lock is `Ledger`'s.

**Evidence.**  One request of `POST /v1/audit/records/:id/verify`, read by
read, between the commits of other requests.  `Issues` is
`verifyEvidenceBundle`, a set of codes with sequences.  The writers are the
transactions of `Execution` reduced to what an export sees.  A bundle leaves
the system, so afterwards one field, proof step, leaf, root, graph, row or
event of it may be altered; a step of a proof only where its sibling is not a
copy of the node itself, for there the sides are the same.  Merkle indexes count
from 1.  Left out: the
format constants in a bundle, and duplicate graph exports (an export makes one
per execution).  Dropping the last entries is not an alteration here: the
documentation says that a bundle does not prove completeness against a later
head, and it does not.

**Knowledge.**  A version is identified by its content, which is unique in its
source; one source is modelled, and further uploads to it are those with the
optional `sourceId` of `uploadSourceVersion`, which no route or script passes
today.  Requests are workers, as in `Execution`; `chunks` carry an `id` that
is fresh for each writing, so a reindexed version has other chunks.  The
constraints of the schema are guards (`VersionCollides`, `ChunkCollides`,
`HitAllowed`) because the code relies on them instead of checking.  The second
`DELETE` of a reindex fails when a hit was inserted after the first one.
`answers` and `prompts` record what left the system.

**Nova.**  Nova is one event loop, and its store is synchronous, so a task is
a handler suspended at an `await` and `pc` names the call it awaits.  `Target`,
`Accepted` and `Effect` say what the core does with that call; `Execution`
shows what happens inside.  Serving a call and running on to the next `await`
is one step, except where others can act on what the call did before Nova
does: after an approval request, a post and a decision.  `copy` is the row a
handler loaded before an `await` and saves whole after it.  `Raise` is the
error path of `run`: the core's refusals and lost answers (`Break`) take
different ways through it.  Restarting an interview keeps the row id, so old
buttons act on the new session.  `DecideOnly` is the approvals route of the
core, one statement that Nova never hears of.  The history variables `hits`,
`raced`, `bypassed` and `acked` delimit what the properties promise: the code
loses a decision that meets a post, one that the approvals route took, and an
answer that meets a handler holding the session.
Publishing is in `ConnectorGateway`.

**Access.**  A worker is a request or a seed script, as in the other modules.
A tenant's seed is the sequence `SeedRows` in the order of the inserts, and
`seeded` counts how many of them exist; a decision is a function of the rows
there are, so a half-seeded tenant needs no cases of its own.  `ReadPolicy` is
a read of its own because `evaluatePolicy` reads the policy and then the
skill; a routing request asks up to four times.  A reset is one transaction,
and so one action; what it does to requests under way comes from the foreign
keys, which are guards (`Live`, `InsertSession`).  `Logout` also stands for
the end of a session's lifetime.  `tried`, `decided` and `routed` record what
was answered, and the limiter's `hits` are places in `tried`.  Seed and requests
meet in one more way: an administrator who registers a model with the key of
the seed's before the seed has come to it makes the seed fail there, and the rest
of its rows are never written (`Preempted`; the instance's catalog has such a
model).  The execution around a routing request is in `Execution`.
`selectOrganization` is left out because nothing in the code gives a user a
second membership, and policies do not change because nothing changes them.

**DemoReset.**  A table of an organization has rows or has none; `References`
in `TenantTables` are its foreign keys, and a statement that would leave a row
without the row it refers to fails.  The wipe is one transaction, but READ
COMMITTED: `gone`, `seen` and `dropped` are what it has deleted and read so
far, while others commit between its statements.  The builds are `DemoBuild` and
`DevBuild`, sequences in the order of their statements, each its own commit; a
development seed skips what it takes as done.  A request is a member's session
that inserts rows of `RowTables` and may outlive its tenant.  `calm`, `late`
and `mishap` are history variables that delimit what the properties promise.

Definitions introduced by a comment "Variant for mutation runs" are plausible
mistakes in the definition that follows them.  They are used only to see that a
property notices: `PROJECT.json` lists which variant replaces which definition
and which property must then fail.

## 3. Runs

| Run | Instance | What it shows |
|---|---|---|
| `ledger` | one organization, one execution, two connections, interval 2, chain of 3 | chain, head, checkpoints and rows consistent at every commit; refinement of `HashChain`; every transaction ends, lock cycles and refused transitions included |
| `exec` | one execution, two requests at once, five in all, two approvals, deaths | seals are prefixes of the history, the last one holds the final status and misses only late events, the ledger's story is lawful, decisions are final, evidence agrees with rows, a grant that no death stopped takes effect, only a late resume revives |
| `gateway` | two keys (publish now, schedule), two requests at once, four in all, deaths | one call per key, intent first, truthful outcomes from the provider to the item; at rest, nothing but a death has left an intent or an execution unsettled, and nothing but a death or a decision on the approvals route a decision without its item |
| `pool` | a pool of two, four requests at once on one execution, four in all, failing statements | no connection is lost; nothing but approval requests that fill the pool stops it; otherwise every request ends |
| `evidence` | two executions, a chain of three that closes an odd interval of three, two commits during the request, one alteration | an unraced export is faulted only for graphs that changed since their seal; alterations fail; a verified provenance is in the bundle |
| `knowledge` | three versions of two chunks, two executions, two requests at once, four in all, one restart or failure | versions are numbered without gaps, indexes are whole and come back, answers mix no two writings, prompts hold approved and returned text and are traceable |
| `nova` | two handlers at once, five in all, two executions, two answers, two phases, one failed call or restart | items tell what was decided in Slack or the shell, a draft decided on the approvals route stays pending, one error leaves no execution open, run rows agree, brand versions are not reused, quiet answers are kept |
| `access` | two tenants, two addresses, four models beside the seed's, two requests at once, three in all, two logins a window, one restart | rows refer to rows through resets and deaths; a half-seeded tenant is refused or served as a whole one; routed models are lawful; the limiters hold in every window |
| `demo` | either script, two runs of it at once, three in all, deaths, one member's request that inserts one row into one of three tables | a tenant is destroyed as a unit, a run that nothing disturbs rebuilds all of it |
| `exec_revived`, `gateway_false_failure` | smallest instance that shows it | the findings of section 6 |

Bounds and why they are enough. Two connections suffice for every pairwise race
on a lock; a cycle of three would need a third lock, and a transaction holds at
most one execution row and one chain row. `MaxEntries` bounds when an append may
*begin*, so the chain passes one closed interval of two and starts the next. One
execution is enough for what the run asks, since executions of one organization
meet only in the chain row; `LedgerProofs` has any number. In `exec`, five
requests allow open, request, decide, and a race of two more; two approvals
allow one to be granted while the other waits; skill requests stand for all work
in that run, for retrievals and model calls take the same steps with longer
chains of events, and the proofs cover every operation. In `gateway`, four
requests allow a decision and three publications, more than there are keys. In
`evidence`, an interval of three is the smallest tree with an odd level; two
commits during the reads allow entries to be older than both checkpoints and
rows. In `knowledge`, four requests allow index, retrieve and a model call with
a reindex at any point; three versions let a query match some but not all of
what is indexed, and two uploads meet beside the source's first version. In
`nova`, five handlers allow an interview of two phases, its approval and a
regeneration or a restart, or a draft, its post and its decision from both
sides; two tasks are enough for every race of two, which all its races are. In
`access`, three requests allow a tenant to be created, entered before its seed
is complete and asked for a decision or a model, or a login to be refused and
tried again when the window has moved on; a window of two ticks with a clock of
two is the smallest with a call inside, on the edge and outside. In `pool`, two
connections and four requests allow two approval requests to fill the pool while
two others wait, and one to wait for the row while the others pass it. In
`demo`, three runs allow a wipe to overlap a build, or a death to be followed by
a run beside another; the three tables are one tied to the organization, one
that is not, and one that is append-only. `MaxCalls` (in `Nova` `MaxRequests`,
in `DemoReset` `MaxRuns` and `MaxRows`) is the only bound on histories of
`Execution`, `ConnectorGateway`, `ConnectionPool`, `Knowledge`, `Nova`, `Access`
and `DemoReset`, with the number of failures where those are counted.
`CHECK_DEADLOCK FALSE` appears where the instance comes to rest after `MaxCalls`
requests, as a server without requests does; `Ledger` has no such end and is
checked for deadlock.

Fairness.  `Ledger`: strong fairness of each connection's next statement, for
PostgreSQL queues lock requests and grants them in order; weak fairness of the
abort of a transaction in a lock cycle (the deadlock detector runs after
`deadlock_timeout`) and of the exception a refused transition throws.
`ConnectionPool`: weak fairness of the steps of each request, for a
request in progress is served, the pool hands its connections out in order,
and the database answers and grants a free row.  Failing is not fair: nothing
has to fail.  `EveryRequestEnds` is conditional on there being, at all times,
fewer approval requests asking twice than connections, because nothing in the
code prevents the opposite.

`Execution`, `ConnectorGateway` and the other modules assume no fairness.  What
their requests have to bring about is stated where it cannot be delayed any
more: `GrantTakesEffect` and `SettledAtRest` speak of the states in which no
request is in progress, and excuse only what a request that died was at
and what a decision on the approvals route leaves undone (`cut`; in `Execution`
also an approval decided on that route only), for nothing in the code takes
either up again.  `CalmRunRebuilds` speaks
of a run's end.

## 4. Proofs

All proofs are for any value of the constants, under the assumptions named
here, which TLC evaluates in the runs.  Each follows one plan: an inductive
invariant, `Init => IInv`, `IInv /\ [Next]_vars => IInv'` with one lemma per
action, and the property from the invariant.

**Ledger** (`LedgerProofs`; assuming `OrgOf \in [Executions
-> Orgs]`, `Nobody \notin Clients`, and two naturals).  The inductive invariant
is `IInv == TypeOK /\ ChainIntact /\ HeadFresh`.  `ChainIntact`, no fork, gap or
dangling hash, is not inductive alone: a commit extends the chain by an entry
computed from `base`, a head read several statements earlier, so it needs
`HeadFresh`.  `HeadFresh` needs that its client still holds the chain lock,
which is why the lock is a conjunct of it: any other client that reached
`collect` would have had to take the same lock (`BuilderExcludes`).  Only
`Commit` changes committed chain rows (`OnlyCommitPublishes`), which leaves one
interesting case per conjunct.  `FinalEntryAlwaysAgrees` adds what a
transaction knows of the execution's row between its two updates (`RowStep`).
`CheckpointsStayExact` adds that the leaves a transaction collected are the
hashes of the chain it will extend (`LeavesFresh`): the chain row is locked, so
nobody else extends it in between (`OthersChain`).
`LedgerImplementsChain` is the refinement: `Commit` of an append is the atomic
append of `HashChain`, and every other statement a stutter.

**Execution** (`ExecutionProofs`; assuming `Approvers \subseteq Users` and
`Operations \subseteq AllOperations`).  `ExecutionTypes` is the type invariant
with `AtItsStep`: another request only makes rows grow, or keeps what this one
relies on.  It includes that every parent of an event is an earlier event, so
graphs can be built although parents are read outside the transaction.
`DecisionsAreFinal` and `OnlyResumesRevive` are action properties that follow
from it.  `SealsAlwaysMatch` relates two lists, the sealing entries and the
sealing events: each transaction adds to both or to neither, and appending an
event keeps every prefix.  That the last seal stands (`StandsStep`) needs the
story of the ledger as well: only a seal makes a status terminal, and it adds
the entry that says so, and whatever else appends to a terminal execution is at
a step whose event is a late one (`LateEvent`).  The other three name the
request in between.  `StoriesAreLawful`: the request that still opens an
execution is alone with it, for callers do not know the id yet (`Opener`), so
`request_opened` goes to an empty ledger, and an approval row exists only for an
opened execution. `EvidenceAgrees`: at most one request has decided an approval
without having written the event, there is no decision event until it does, and
the row says what it decided (`Deciding`); a request for approval adds one row,
one event and one entry in a transaction, which counts them (`Counted`).
`GrantsResume`: an execution waits because of an approval whose every decider
read that it waits, and which has no grant yet, or whose granting request is
about to resume (`HoldsUp`); any request for approval that makes the execution
wait again brings a new such approval with it.

**ConnectorGateway** (`GatewayProofs`; assuming `Schedules \subseteq Keys`, and
that the two marks of `cut` are no keys).  The
heart is that a key has one holder: the unique index lets one request insert
the row, and until that request ends no other changes the row, the count of
calls or what the provider did with it.  `GatewayTypes` has this as a conjunct
with the step of each request; `ProviderCalledOnce`, `IntentIsFirst` and
`OutcomesAreTruthful` follow from what the rows of each key say (`KeyOK`) and
from what the item and the execution say of the keys (`RowsOK`).
`UnsettledIsExplained` says of every unsettled key, execution and decision that
a request is under way that will settle it, that one died, or that the approvals
route decided.  Whoever decides there leaves a request no way to mark the item
or to publish: deciders find the row decided, and a publication needs an item
that is approved (`BypassedSteps`).

**ConnectionPool** (`AccessProofs`, last part; assuming a finite set of requests
and at least one connection).  `ConnectionsAreAccountedFor`: the connections out
are counted with the library's theorems on cardinality (`Counts`), and the one
case that matters is a connection that comes back and goes to the head of the
queue, who did not hold one (`ComesBack`).  `StandstillIsKnown`: if everybody in
progress is stuck, the pool is full; a holder of a single connection or of a row
is never stuck, so all holders are transactions that wait in the queue, and only
approval requests wait there with a transaction open.

**Knowledge** (`KnowledgeProofs`; assuming finitely many versions and at least
one chunk to a version).  Chunk ids are never used again, so a deleted chunk
stays deleted and one that exists keeps its hits (`Keeps`).  If the two queries
of a retrieval saw two writings of a version, a chunk of them that still has to
get its hit is gone for good, and the foreign key refuses the hit
(`WritingHits`).  From this `AnswersAreConsistent`; `IndexIsWhole` and
`PromptsAreTraced` are conjuncts of the same invariant.

**Nova** (`NovaProofs`; assuming a natural number of executions, phases and
bounds, at least one phase).  `NovaTypes` has each handler at a step of its kind
with what it has read (`Typed`).  `OwnerInv` names who works on an execution: at
most one run, alone with it until there is an approval, and the deciders, who
know what the core has written; an execution that is running without an approval
has such a run or was hit by two errors, which is `OneErrorIsClosed` when nobody
works on it.  `StoryInv` follows the item and the run row of an execution that
no error hit from statement to statement of its run, and beyond; where errors
did hit, neither the item nor a copy that will be saved shows a decision the
core did not take (`ItemsTellApprovals`).  `WaitInv` says the same of a draft
that nobody has decided through Nova or the shell: the item and every copy of it
are pending and the execution waits, before the approvals route decides as
after, which is why such a decision changes nothing else for ever.  `BrandInv`:
the version of a proposal is the brand's or the next, and if it is the brand's,
its draft is the brand's content, which is why a version names one content
although proposals are synthesized at once (`BrandsAreNumbered`).  `AnswersInv`:
the session, and the copy of every handler that will save it, contain every
answer of their thread that was acknowledged while nobody held the session
(`AnswersAreKept`).

**DemoReset** (`DemoProofs`; assuming `Profiles \subseteq {"demo", "dev"}`,
`RowTables` tables other than organizations, users and memberships, and natural
bounds).  The schema and the scripts are closed definitions, so what is needed
of them is proved from them: the audit schema is not tied to the organization
and everything else is (`UntiedKeys`, `TiedKeys`), the wipe reads the members
before it deletes their memberships (`MembersReadFirst`), and the builds create
what they refer to (`BuildSound`).  `TenantsAreWholeOrGone` is an invariant of
three sets of tables that are closed under the foreign keys: what is stored for
an organization (`Referential`), what the open wipe still sees of it
(`WipeSound`), and, once its last DELETE is past, what its COMMIT leaves. An
insert of another session keeps them because it checks the first and waits for
rows that the second has lost.  `MemberInv` names the script that stands between
the two inserts of `createUser`; `Quiet` says that there is nobody else without
a membership as long as nobody died or overlapped.  The organizations that may
still be drawn are counted with the library's theorems on cardinality (`Drawn`).
`CalmRunsRebuild` follows an undisturbed script from statement to statement.
Its wipe is not rejected because what keeps a row is deleted before it
(`WipeOrder`, `CalmWipe`), and leaves every address free because a live demo
organization is the director's, so there is only one (`DirectorLeads`); its
build is not rejected because what a statement refers to is created before it
(`BuildOrder`, `CalmBuild`).  A development script also needs that the tenant it
finds is whole, which holds as long as none died (`DevInv`).

**Access** (`AccessProofs`; assuming that ids are positive and the first tenant's
is 1, that `Null` is no membership and no address, and that models and requests
have the columns the CHECK constraints and schemas allow).  `RowsInv` is the type
invariant with what the requests know: a seeding script is alone with its tenant
and not done (`SeederKnows`), and between the two inserts of `createUser` one
request knows the user (`AdderKnows`), so a wipe, a login or another request
that commits in between disturbs neither.  `AccessTypes` follows from it and from
`LimiterInv`: what a limiter remembers are calls it allowed, and all of those
that still count (`Remembers`), so that it counts exactly what `LimiterIsExact`
says.  For `DecisionsFailClosed` the seed is shown to only grow (`RowsAfterGrow`)
and a decision on a part of it to deny or to be that on the whole
(`PartDecides`).  `ChoiceIsLawful` follows the candidates of a request from
read to read (`Routes`) and uses that the order of the candidates has a first
one, which is local if any is (`FirstExists`, `ChoiceIsNearest`); that keys differ
is `RowsInv` again.

**Evidence** and **Merkle** (`EvidenceProofs`; assuming an interval of at least
one entry and that what an alteration writes is no execution's name).  The
levels of a tree, the places of a leaf's ancestors and the fold of a proof are
recursive functions; that each is the function of its equation is proved with
the well-foundedness of the naturals, because the library's induction takes an
operator (`LayersAre`, `PlacesAre`, `NodesAre`).  A level of more than one node
is followed by a shorter one, so there is a root (`LayerWidths`,
`DepthIsLeast`), and a step of a proof leads from a node to its parent, odd
levels included (`StepToParent`): from this `ProofsVerify`.  Because hashing is
injective, a step on the other side, unless it pairs a node with its own copy,
changes every node above it (`SwappedStepFails`). The inductive invariant `IInv`
has three parts.  `DbInv` is the shape of the tables: every entry but its
execution, type and graph is determined by the chain before it, and there is one
checkpoint for each completed interval. `ExportInv` says that what was read of a
table is the first part of it, and all of it as long as no commit fell into the
export; it is needed because the verdict is on rows read at different moments.
Of an altered bundle only the issues are kept: an export is altered when nothing
else can happen any more. `EvidenceVerdict` follows from the exported rows:
sorting leaves them in place (`SortedInOrder`), the checkpoint an entry's proof
comes from is the only one that covers it (`OneCheckpoint`), and each sealing
entry has its execution's graph with it (`BearingExported`).  For
`EvidenceAlterations` each kind of alteration has a lemma of its own; an altered
`sequence` may put the entry anywhere in the sorted chain, but its hash is wrong
wherever it is (`SortedHolds`, `EntryIssueFound`).

Only model-checked: all liveness (`EveryAppendEnds`, `EveryRequestEnds`), which
is outside the prover's reach.

## 5. Hazards

`PROJECT.json` lists every place where this code is hard to test, with the
properties that would catch it.  Where a note follows, it says what the
properties excuse: mostly what a death leaves half done, which the code accepts.

## 6. Findings

* `exec_revived`: a decision resumes on the status it read before deciding and
  writes `running` over a terminal status.
* `gateway_false_failure`: a repeated publish request replays the unfinished
  action and Nova fails an execution whose post goes out.

## 7. Not modelled

Could be modelled next: `evaluateConnectorAction` rule by rule, whose result is
a `BOOLEAN` of the request in `ConnectorGateway`; service credentials and
their scopes; the collections of `packages/knowledge` and their permissions,
which are written once and only read.

Left out for good, with the reason:

* parsing, authentication headers, error mapping, metrics, logging and
  runtime configuration, the web shell, the SDKs and the stub of the knowledge
  worker: no state the other components depend on;
* down migrations, the contents of demonstration documents and the operations
  scripts: run by hand on a stopped system;
* the retired kernel v1: read-only verification of an old format;
* canonical JSON and SHA-256 (assumed free of collisions) and the ranking
  scores of retrieval, which no property tells apart;
* `selectOrganization` and changes of policies: nothing in the code gives a user
  a second membership or changes a policy.
