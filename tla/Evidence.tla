------------------------------ MODULE Evidence ------------------------------
(***************************************************************************)
(* Verifying a record: the route POST /v1/audit/records/:id/verify, that   *)
(* is getVerityRecord (apps/core-api/src/execution/records.ts),            *)
(* exportOrganizationEvidence (packages/audit-kernel/src/export/bundle.ts) *)
(* and verifyEvidenceBundle (verify/verify.ts) with the Merkle proofs of   *)
(* Merkle.  The export reads its tables in separate statements while other *)
(* requests commit.  Those commits are the ones of Execution, in one chain *)
(* of one organization, each the single step that Ledger shows it to be.   *)
(* A bundle leaves the system, so it may also be altered before it is      *)
(* verified.                                                               *)
(***************************************************************************)
EXTENDS Integers, Sequences, FiniteSets, ExecutionStatus, Merkle

CONSTANTS
  Executions,
  Interval,    \* merkleSnapshotInterval
  MaxEntries,  \* bound on the chain
  MaxEvents,   \* bound on the events of an execution
  MaxRaces     \* bound on the commits while a record is verified

ASSUME EvidenceIntervalAssumption == Interval \in Nat \ {0}
\* An alteration is another value.
ASSUME AlteredAssumption == "altered" \notin Executions
ASSUME EvidenceBoundsAssumption == {MaxEntries, MaxEvents, MaxRaces} \subseteq Nat

VARIABLES
  status,       \* executions.status
  finalEntry,   \* executions.final_entry_id, as a sequence (0: NULL)
  events,       \* execution_events: [type, parents] by event_sequence
  ledger,       \* ledger_entries by sequence
  checkpoints,  \* merkle_checkpoints
  pc,           \* what the verifying request reads next
  record,       \* the execution it is about and what it read of it
  linked,       \* provenance_status = "linked"
  todo,         \* the tables or event lists the export has still to read
  bundle,       \* the evidence bundle
  races,        \* commits since the record's row was read
  stale,        \* whether any of them fell into the export
  altered       \* what was altered in the bundle afterwards

dbVars == <<status, finalEntry, events, ledger, checkpoints>>
requestVars == <<pc, record, linked, todo, bundle, altered>>
raceVars == <<races, stale>>
vars == <<dbVars, requestVars, raceVars>>

-----------------------------------------------------------------------------
(* Entries, graphs and their hashes.  A hash is the tuple of what it       *)
(* digests.                                                                *)

Null == <<>>
Organization == "org"

\* buildHashPayload and computeEntryHash.  content stands for the request
\* and response hashes and the kernel version, at for created_at_canonical.
EntryHash(e) ==
  <<"entry", e.org, e.seq, e.exec, e.type, e.content, e.graph, e.prev, e.at>>

\* computeExecutionGraphHash(buildExecutionGraphV2(..)), while every parent
\* resolves.
GraphHash(e, st, es) == <<"graph", e, st, es>>

Unresolved(es) == \E i \in DOMAIN es : ~(es[i].parents \subseteq {es[j].id : j \in DOMAIN es})

LastHash == IF ledger = <<>> THEN Null ELSE ledger[Len(ledger)].hash

NewEntry(e, type, graph) ==
  LET fields == [org |-> Organization, seq |-> Len(ledger) + 1, exec |-> e, type |-> type,
                 content |-> "content", graph |-> graph, prev |-> LastHash, at |-> "now"]
  IN  [f \in DOMAIN fields \cup {"hash"} |-> IF f = "hash" THEN EntryHash(fields) ELSE fields[f]]

\* Variant for mutation runs: the interval starts one entry early.
WideCheckpoint(chain) ==
  LET n == Len(chain)
      leaves == [i \in 1..Interval |-> chain[n - Interval + i].hash]
  IN  IF n % Interval = 0
        THEN <<[from |-> n - Interval, through |-> n, leaves |-> leaves,
                root |-> MerkleRoot(leaves)]>>
        ELSE <<>>

\* The checkpoint that closes with the last entry of a chain, if any.
NewCheckpoint(chain) ==
  LET n == Len(chain)
      leaves == [i \in 1..Interval |-> chain[n - Interval + i].hash]
  IN  IF n % Interval = 0
        THEN <<[from |-> n - Interval + 1, through |-> n, leaves |-> leaves,
                root |-> MerkleRoot(leaves)]>>
        ELSE <<>>

AppendLedger(e, type, graph) ==
  LET chain == Append(ledger, NewEntry(e, type, graph))
  IN  /\ Len(ledger) < MaxEntries
      /\ ledger' = chain
      /\ checkpoints' = checkpoints \o NewCheckpoint(chain)

NewEvent(es, type) ==
  [id |-> Len(es) + 1, type |-> type, parents |-> IF es = <<>> THEN {} ELSE {Len(es)}]

Init ==
  /\ status = [e \in Executions |-> Absent]
  /\ finalEntry = [e \in Executions |-> 0]
  /\ events = [e \in Executions |-> <<>>]
  /\ ledger = <<>>
  /\ checkpoints = <<>>
  /\ pc = "idle"
  /\ record = [exec |-> "none"]
  /\ linked = FALSE
  /\ todo = {}
  /\ bundle = [entries |-> <<>>, checkpoints |-> <<>>, rows |-> <<>>, events |-> <<>>,
               graphs |-> <<>>]
  /\ races = 0
  /\ stale = FALSE
  /\ altered = "none"

-----------------------------------------------------------------------------
(* What other requests commit: the transactions of Execution, reduced to   *)
(* what an export sees of them.  Like there, an event is appended whatever *)
(* the status is, and a resume may come late.                              *)

\* (After the export nothing the system does matters to the bundle.)
Commits ==
  /\ pc # "done"
  /\ pc = "idle" \/ races < MaxRaces
  /\ races' = IF pc = "idle" THEN races ELSE races + 1
  /\ stale' = (stale \/ pc \in {"tables", "events"})
  /\ UNCHANGED requestVars

OpenExecution(e) ==
  /\ Commits
  /\ status[e] = Absent
  /\ status' = [status EXCEPT ![e] = "created"]
  /\ UNCHANGED <<finalEntry, events, ledger, checkpoints>>

RecordEvent(e) ==
  /\ Commits
  /\ status[e] # Absent
  /\ Len(events[e]) < MaxEvents
  /\ events' = [events EXCEPT ![e] = Append(@, NewEvent(@, "work"))]
  /\ UNCHANGED <<status, finalEntry, ledger, checkpoints>>

\* request_opened and approval_requested move the row and carry no graph.
AppendEntry(e, type) ==
  /\ Commits
  /\ status[e] # Absent
  /\ \E target \in Targets(type) :
       CanMove(status[e], target) /\ status' = [status EXCEPT ![e] = target]
  /\ AppendLedger(e, type, Null)
  /\ UNCHANGED <<finalEntry, events>>

\* The UPDATE of setExecutionStatus at the end of a decision.
Resume(e) ==
  /\ Commits
  /\ \E n \in DOMAIN ledger : ledger[n].exec = e /\ ledger[n].type = "approval_requested"
  /\ status[e] # "running"
  /\ status' = [status EXCEPT ![e] = "running"]
  /\ UNCHANGED <<finalEntry, events, ledger, checkpoints>>

Seal(e, type, outcome) ==
  /\ Commits
  /\ status[e] # Absent
  /\ outcome \in Targets(type)
  /\ CanMove(status[e], outcome)
  /\ Len(events[e]) < MaxEvents
  /\ LET es == Append(events[e], NewEvent(events[e], "sealed"))
     IN  /\ events' = [events EXCEPT ![e] = es]
         /\ AppendLedger(e, type, GraphHash(e, outcome, es))
  /\ status' = [status EXCEPT ![e] = outcome]
  /\ finalEntry' = [finalEntry EXCEPT ![e] = Len(ledger) + 1]

-----------------------------------------------------------------------------
(* getVerityRecord: the row, its events and its entries, one at a time. *)

ReadRow(e) ==
  /\ pc = "idle"
  /\ status[e] # Absent
  /\ record' = [exec |-> e, status |-> status[e], final |-> finalEntry[e]]
  /\ pc' = "record_events"
  /\ UNCHANGED <<dbVars, linked, todo, bundle, raceVars, altered>>

ReadRecordEvents ==
  /\ pc = "record_events"
  /\ record' = [exec |-> record.exec, status |-> record.status, final |-> record.final,
                events |-> events[record.exec]]
  /\ pc' = "record_entries"
  /\ UNCHANGED <<dbVars, linked, todo, bundle, raceVars, altered>>

\* linked: there is a graph, a final entry, and their hashes are the same.
ReadRecordEntries ==
  /\ pc = "record_entries"
  /\ linked' = (/\ record.events # <<>>
                /\ record.final # 0
                /\ ledger[record.final].graph
                     = GraphHash(record.exec, record.status, record.events))
  /\ todo' = {"entries", "checkpoints", "rows"}
  /\ record' = [exec |-> record.exec]
  /\ pc' = "tables"
  /\ UNCHANGED <<dbVars, bundle, raceVars, altered>>

-----------------------------------------------------------------------------
(* exportOrganizationEvidence *)

Read(table, value) ==
  /\ pc = "tables"
  /\ table \in todo
  /\ bundle' = [bundle EXCEPT ![table] = value]
  /\ todo' = todo \ {table}

\* Promise.all: the three queries run on connections of their own.
ReadTable ==
  /\ \/ Read("entries", ledger)
     \/ Read("checkpoints", checkpoints)
     \/ Read("rows", [e \in {x \in Executions : status[x] # Absent} |-> status[e]])
  /\ UNCHANGED <<dbVars, pc, record, linked, raceVars, altered>>

\* Then the events of each execution found, one query each.
BeginEvents ==
  /\ pc = "tables"
  /\ todo = {}
  /\ todo' = DOMAIN bundle.rows
  /\ pc' = "events"
  /\ UNCHANGED <<dbVars, record, linked, bundle, raceVars, altered>>

Extend(f, x, y) == [z \in DOMAIN f \cup {x} |-> IF z = x THEN y ELSE f[z]]

\* An execution without events gets no graph.
ReadEvents(e) ==
  /\ pc = "events"
  /\ e \in todo
  /\ LET graph == GraphHash(e, bundle.rows[e], events[e])
     IN  bundle' = [bundle EXCEPT
           !.events = Extend(@, e, events[e]),
           !.graphs = IF events[e] = <<>> THEN @
                      ELSE Extend(@, e, [hash |-> graph, graph |-> graph])]
  /\ todo' = todo \ {e}
  /\ UNCHANGED <<dbVars, pc, record, linked, raceVars, altered>>

CheckpointOf(n, cs) == {k \in DOMAIN cs : cs[k].from <= n /\ n <= cs[k].through}

\* Variant for mutation runs: the index counts from the wrong entry.
IndexFromZero(n, from) == IF n > from THEN n - from ELSE 1

\* The place of entry n among the leaves of its checkpoint.
LeafIndex(n, from) == n - from + 1

\* The exported entry: created_at is the canonical string, and a proof if a
\* checkpoint read covers the entry.
ExportEntry(entry, cs) ==
  [f \in DOMAIN entry \cup {"created", "proof"} |->
     CASE f = "created" -> entry.at
       [] f = "proof" ->
            IF CheckpointOf(entry.seq, cs) = {} THEN <<>>
            ELSE LET k == CHOOSE k \in CheckpointOf(entry.seq, cs) : TRUE
                 IN  MerkleProof(cs[k].leaves, LeafIndex(entry.seq, cs[k].from))
       [] OTHER -> entry[f]]

FinishExport ==
  /\ pc = "events"
  /\ todo = {}
  /\ bundle' = [bundle EXCEPT
       !.entries = [n \in DOMAIN @ |-> ExportEntry(@[n], bundle.checkpoints)]]
  /\ pc' = "done"
  /\ UNCHANGED <<dbVars, record, linked, todo, raceVars, altered>>

-----------------------------------------------------------------------------
(* verifyEvidenceBundle: a set of issues, each with its sequence. *)

Issue(code, n) == [code |-> code, sequence |-> n]
IssueIf(condition, code, n) == IF condition THEN {Issue(code, n)} ELSE {}

\* verifyLedgerEntry
EntryIssues(entry, prev) ==
  IssueIf(EntryHash(entry) # entry.hash, "ENTRY_HASH_MISMATCH", entry.seq)
    \cup IssueIf(entry.prev # prev, "PREVIOUS_HASH_MISMATCH", entry.seq)
    \cup IssueIf(entry.created # entry.at, "CANONICAL_TIMESTAMP_DRIFT", entry.seq)

\* verifyOrganizationChain sorts the entries by sequence first; sorted is a
\* stable sort, as Array.prototype.sort is.
Sorted(entries) ==
  LET before(i, j) == \/ entries[i].seq < entries[j].seq
                      \/ entries[i].seq = entries[j].seq /\ i < j
      place(i) == 1 + Cardinality({j \in DOMAIN entries : before(j, i)})
  IN  [k \in DOMAIN entries |-> entries[CHOOSE i \in DOMAIN entries : place(i) = k]]

ChainIssues(entries) ==
  LET sorted == Sorted(entries)
  IN  UNION {
        EntryIssues(sorted[i], IF i = 1 THEN Null ELSE sorted[i - 1].hash)
          \cup (IF i = 1 THEN IssueIf(sorted[1].seq # 1, "SEQUENCE_START", sorted[1].seq)
                ELSE IssueIf(sorted[i].seq # sorted[i - 1].seq + 1, "SEQUENCE_GAP",
                             sorted[i].seq))
        : i \in DOMAIN sorted }

\* verifyMerkleCheckpoints: the root over the leaves, each leaf against its
\* entry and the entry's proof against the root.
LeafIssues(entries, checkpoint, i) ==
  LET n == checkpoint.from + i - 1
      found == {k \in DOMAIN entries : entries[k].seq = n}
      entry == entries[CHOOSE k \in found : \A j \in found : j <= k]
  IN  IF found = {} THEN {Issue("MERKLE_LEAF_MISSING", n)}
      ELSE IssueIf(entry.hash # checkpoint.leaves[i], "MERKLE_LEAF_MISMATCH", n)
             \cup IssueIf(/\ entry.proof # <<>>
                          /\ ~VerifyMerkleProof(entry.hash, entry.proof, checkpoint.root),
                          "MERKLE_PROOF_INVALID", n)

CheckpointIssues(entries, checkpoint) ==
  IssueIf(MerkleRoot(checkpoint.leaves) # checkpoint.root, "MERKLE_ROOT_MISMATCH",
          checkpoint.through)
    \cup UNION {LeafIssues(entries, checkpoint, i) : i \in DOMAIN checkpoint.leaves}

\* Variant for mutation runs: the rebuilt graph is compared with the export
\* only.
ForgetLedger(entryGraph, rebuilt) == entryGraph = Null /\ rebuilt # Null

\* expectedLedgerHash !== recomputed
LedgerDiffers(entryGraph, rebuilt) == entryGraph # Null /\ entryGraph # rebuilt

\* compareGraphEvidence, for the entry of sequence n (0: none).
GraphIssues(b, e, entryGraph, n) ==
  LET rebuilt == GraphHash(e, b.rows[e], b.events[e])
  IN  IF Unresolved(b.events[e]) THEN {Issue("UNRESOLVED_GRAPH_PARENT", n)}
      ELSE IssueIf(rebuilt # b.graphs[e].hash, "GRAPH_HASH_MISMATCH", n)
             \cup IssueIf(\/ b.graphs[e].graph # b.graphs[e].hash
                          \/ b.graphs[e].graph # rebuilt, "GRAPH_EVIDENCE_MISMATCH", n)
             \cup IssueIf(LedgerDiffers(entryGraph, rebuilt), "GRAPH_LEDGER_MISMATCH", n)

HasEvents(b, e) == e \in DOMAIN b.events /\ b.events[e] # <<>>

GraphBearing(b) ==
  {k \in DOMAIN b.entries : b.entries[k].type \in {"final", "failure"}
                            /\ b.entries[k].graph # Null}

\* verifyExecutionGraphs
BearingIssues(b, k) ==
  LET e == b.entries[k].exec
      n == b.entries[k].seq
      known == e \in DOMAIN b.rows
      exported == e \in DOMAIN b.graphs
  IN  IssueIf(~known \/ ~exported, "GRAPH_EVIDENCE_MISSING", n)
        \cup IssueIf(~HasEvents(b, e), "GRAPH_EVENTS_MISSING", n)
        \cup (IF known /\ exported /\ HasEvents(b, e)
                THEN GraphIssues(b, e, b.entries[k].graph, n) ELSE {})

OtherGraphIssues(b, e) ==
  IF e \notin DOMAIN b.rows THEN {Issue("GRAPH_ORG_MISMATCH", 0)}
  ELSE IF ~HasEvents(b, e) THEN {Issue("GRAPH_EVENTS_MISSING", 0)}
  ELSE GraphIssues(b, e, Null, 0)

ExecutionGraphIssues(b) ==
  (UNION {BearingIssues(b, k) : k \in GraphBearing(b)})
    \cup UNION {OtherGraphIssues(b, e) :
                  e \in DOMAIN b.graphs \ {b.entries[k].exec : k \in GraphBearing(b)}}

Issues(b) ==
  (UNION {IssueIf(b.entries[k].org # Organization, "ORG_MISMATCH", b.entries[k].seq) :
            k \in DOMAIN b.entries})
    \cup ChainIssues(b.entries)
    \cup (UNION {CheckpointIssues(b.entries, b.checkpoints[k]) : k \in DOMAIN b.checkpoints})
    \cup ExecutionGraphIssues(b)

-----------------------------------------------------------------------------
(* One alteration of a bundle on its way to another verifier. *)

HashedFields == {"org", "seq", "exec", "type", "content", "graph", "prev", "at"}

AlteredValue(field, value) ==
  CASE field = "seq"                       -> value + 1
    [] field \in {"graph", "prev", "hash"} -> <<"altered">>
    [] OTHER                               -> "altered"

Alter(kind, b) ==
  /\ altered = "none"
  /\ altered' = kind
  /\ bundle' = b
  /\ UNCHANGED <<dbVars, pc, record, linked, todo, raceVars>>

AlterEntry ==
  \E k \in DOMAIN bundle.entries, field \in HashedFields \cup {"hash", "created"} :
    Alter("field", [bundle EXCEPT !.entries[k][field] = AlteredValue(field, @)])

Opposite(position) == IF position = "left" THEN "right" ELSE "left"

\* Swapping a node with its own copy, as an odd level pairs it, would change
\* nothing.
AlterProof ==
  \E k \in DOMAIN bundle.entries : \E i \in DOMAIN bundle.entries[k].proof :
    /\ LET entry == bundle.entries[k]
       IN  entry.proof[i].sibling # Nodes(entry.hash, entry.proof)[i - 1]
    /\ Alter("sibling", [bundle EXCEPT !.entries[k].proof[i].position = Opposite(@)])

AlterCheckpoint ==
  \E k \in DOMAIN bundle.checkpoints :
    \/ Alter("root", [bundle EXCEPT !.checkpoints[k].root = <<"altered">>])
    \/ \E i \in DOMAIN bundle.checkpoints[k].leaves :
         Alter("leaf", [bundle EXCEPT !.checkpoints[k].leaves[i] = <<"altered">>])

AlterGraph ==
  \E e \in DOMAIN bundle.graphs :
    \/ Alter("graph", [bundle EXCEPT !.graphs[e].hash = <<"altered">>])
    \/ Alter("graph", [bundle EXCEPT !.graphs[e].graph = <<"altered">>])
    \/ Alter("graph", [bundle EXCEPT !.rows[e] = "altered"])
    \/ Alter("graph", [bundle EXCEPT !.events[e] = Tail(@)])
    \/ \E i \in DOMAIN bundle.events[e] :
         Alter("graph", [bundle EXCEPT !.events[e][i].type = "altered"])

\* (Of interest for a bundle that verified before.)
AlterBundle ==
  /\ pc = "done"
  /\ Issues(bundle) = {}
  /\ AlterEntry \/ AlterProof \/ AlterCheckpoint \/ AlterGraph

Next ==
  \/ \E e \in Executions :
       \/ OpenExecution(e)
       \/ RecordEvent(e)
       \/ \E type \in {"request_opened", "approval_requested"} : AppendEntry(e, type)
       \/ Resume(e)
       \/ \E type \in {"final", "failure"}, outcome \in TerminalStatuses :
            Seal(e, type, outcome)
       \/ ReadRow(e)
       \/ ReadEvents(e)
  \/ ReadRecordEvents
  \/ ReadRecordEntries
  \/ ReadTable
  \/ BeginEvents
  \/ FinishExport
  \/ AlterBundle

Spec == Init /\ [][Next]_vars

-----------------------------------------------------------------------------
(* Properties *)

\* The request, its flags and the rows are of their kinds, final_entry_id
\* refers to an entry of its execution, and the bundle never holds more than
\* the tables do while it is being read.
TypeOK ==
  /\ status \in [Executions -> Statuses \cup {Absent}]
  /\ finalEntry \in [Executions -> 0..Len(ledger)]
  /\ pc \in {"idle", "record_events", "record_entries", "tables", "events", "done"}
  /\ linked \in BOOLEAN /\ stale \in BOOLEAN /\ races \in 0..MaxRaces
  /\ altered \in {"none", "field", "sibling", "root", "leaf", "graph"}
  /\ Len(checkpoints) = Len(ledger) \div Interval
  /\ \A k \in DOMAIN checkpoints :
       checkpoints[k].from = (k - 1) * Interval + 1 /\ checkpoints[k].through = k * Interval

\* The sealing entries of the database whose graph is no longer the graph
\* of their execution's row and events.
Outdated ==
  {n \in DOMAIN ledger :
     /\ ledger[n].graph # Null
     /\ ledger[n].graph # GraphHash(ledger[n].exec, status[ledger[n].exec], events[ledger[n].exec])}

\* An export nothing was committed during verifies, but for one issue for
\* each sealing entry whose execution has changed since: no proof, root,
\* link, hash or export that bundle.ts makes is ever at fault.
CleanVerdict ==
  pc = "done" /\ ~stale /\ altered = "none"
    => Issues(bundle) = {Issue("GRAPH_LEDGER_MISMATCH", n) : n \in Outdated}

\* A modified hashed field, a swapped sibling, an altered
\* created_at_canonical, checkpoint or graph evidence fails verification
\* (docs/architecture/audit-kernel.md:91).
AlterationFails ==
  altered # "none" => Issues(bundle) # {}

\* "Provenance Verified" (the record was linked when it was read, and the
\* later bundle verifies) means that the bundle itself holds a seal of that
\* execution whose graph is rebuilt from the events in it.
VerifiedRecordIsSound ==
  pc = "done" /\ altered = "none" /\ linked /\ Issues(bundle) = {}
    => LET e == record.exec
       IN  /\ e \in DOMAIN bundle.rows
           /\ \E k \in DOMAIN bundle.entries :
                /\ bundle.entries[k].exec = e
                /\ bundle.entries[k].graph = GraphHash(e, bundle.rows[e], bundle.events[e])
=============================================================================
