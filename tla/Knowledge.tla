----------------------------- MODULE Knowledge -----------------------------
(***************************************************************************)
(* Knowledge: the versions of one source, their approval and their index   *)
(* (packages/knowledge/src/ingest.ts), retrieval runs with their hits      *)
(* (retrieve.ts), and the chunks a model call takes into its prompt        *)
(* (context.ts, executeModelForExecution).  Requests are processes; a step *)
(* is one statement outside a transaction, or a transaction.  The events   *)
(* the two operations append are the subject of Execution.                 *)
(***************************************************************************)
EXTENDS Integers, FiniteSets, FiniteSetsExt

CONSTANTS
  Workers,
  Executions,
  Versions,      \* by content: UNIQUE (source_id, content_hash)
  FirstVersion,  \* the upload that created the source
  ChunkIndexes,  \* the chunks a version is cut into
  Providers,     \* embedding provider keys
  Modes,
  Matches,       \* which versions the text of a query may match
  TopK,
  MaxCalls,      \* bound on requests
  MaxFaults      \* bound on restarts and embedding failures

ASSUME KnowledgeAssumption ==
  /\ FirstVersion \in Versions
  /\ Matches \subseteq SUBSET Versions
  /\ Modes \subseteq {"strict", "grounded", "general"}
  /\ {TopK, MaxCalls, MaxFaults} \subseteq Nat
\* A text that is not blank has chunks; a blank one is never retrieved.
ASSUME TextAssumption == IsFiniteSet(Versions) /\ ChunkIndexes # {}

VARIABLES
  provider,  \* VERITY_EMBEDDING_PROVIDER of the running process
  number,    \* source_versions.version_number (0: no row)
  approved,  \* versions with approved_at
  chunks,    \* knowledge.chunks
  written,   \* how often a version's chunks were written, for fresh ids
  runs,      \* knowledge.retrieval_runs by id
  hits,      \* knowledge.retrieval_hits
  answers,   \* retrieval responses that were sent
  prompts,   \* model.execution.started events
  pc, call, mem,
  calls, faults

sourceVars == <<number, approved>>
indexVars == <<chunks, written>>
runVars == <<runs, hits>>
history == <<answers, prompts>>
workerVars == <<pc, call, mem>>
bounds == <<calls, faults>>
vars == <<provider, sourceVars, indexVars, runVars, history, workerVars, bounds>>

NoCall == [op |-> "none"]
NoMem == {}
ChunksOf(v) == {c \in chunks : c.version = v}

Init ==
  /\ provider \in Providers
  /\ number = [v \in Versions |-> IF v = FirstVersion THEN 1 ELSE 0]
  /\ approved = {}
  /\ chunks = {}
  /\ written = [v \in Versions |-> 0]
  /\ runs = <<>>
  /\ hits = {}
  /\ answers = {} /\ prompts = {}
  /\ pc = [w \in Workers |-> "idle"]
  /\ call = [w \in Workers |-> NoCall]
  /\ mem = [w \in Workers |-> NoMem]
  /\ calls = 0 /\ faults = 0

-----------------------------------------------------------------------------
(* Requests *)

Accept(w, request, label) ==
  /\ pc[w] = "idle"
  /\ calls < MaxCalls
  /\ calls' = calls + 1
  /\ pc' = [pc EXCEPT ![w] = label]
  /\ call' = [call EXCEPT ![w] = request]
  /\ UNCHANGED <<provider, sourceVars, indexVars, runVars, history, mem, faults>>

\* The next statement, with what this one read.
Goto(w, label, value) ==
  /\ pc' = [pc EXCEPT ![w] = label]
  /\ mem' = [mem EXCEPT ![w] = value]
  /\ UNCHANGED call

\* The request ends, with a response or an error.
Finish(w) ==
  /\ pc' = [pc EXCEPT ![w] = "idle"]
  /\ call' = [call EXCEPT ![w] = NoCall]
  /\ mem' = [mem EXCEPT ![w] = NoMem]

\* uploadSourceVersion with a sourceId.  (Its callers in the repository pass
\* none, and give each upload a source of its own; an upload then meets no
\* other, and is FirstVersion here.)
BeginUpload(w, v) == Accept(w, [op |-> "upload", version |-> v], "last")

\* provider is a default parameter: it is read when the call starts.
BeginIndex(w, v) ==
  number[v] > 0 /\ Accept(w, [op |-> "index", version |-> v, provider |-> provider], "existing")

BeginReindex(w, v) ==
  number[v] > 0 /\ Accept(w, [op |-> "reindex", version |-> v, provider |-> provider], "delete_hits")

\* keywords: the versions whose text matches the query.
BeginRetrieve(w, e, mode, keywords) ==
  Accept(w, [op |-> "retrieve", exec |-> e, mode |-> mode, keywords |-> keywords,
             provider |-> provider], "vector")

\* run 0: no retrieval_run_id was given.
BeginModel(w, e, run, ids) ==
  Accept(w, [op |-> "model", exec |-> e, run |-> run, chunks |-> ids], "load_run")

-----------------------------------------------------------------------------
(* uploadSourceVersion and approveSourceVersion *)

Last == Max({number[v] : v \in Versions})

\* FOR UPDATE makes a second upload wait, but it then returns the row it had
\* chosen; so the number may be stale when the row is inserted.
ReadLast(w) ==
  /\ pc[w] = "last"
  /\ Goto(w, "insert_version", Last + 1)
  /\ UNCHANGED <<provider, sourceVars, indexVars, runVars, history, bounds>>

\* Variant for mutation runs: UNIQUE (source_id, content_hash) only.
SameContent(v, n) == number[v] > 0

\* The two unique constraints of source_versions.
VersionCollides(v, n) == number[v] > 0 \/ \E u \in Versions : number[u] = n

InsertVersion(w) ==
  LET v == call[w].version
  IN  /\ pc[w] = "insert_version"
      /\ number' = IF VersionCollides(v, mem[w]) THEN number
                   ELSE [number EXCEPT ![v] = mem[w]]
      /\ Finish(w)
      /\ UNCHANGED <<provider, approved, indexVars, runVars, history, bounds>>

\* One UPDATE .. WHERE approved_at IS NULL.
Approve(v) ==
  /\ number[v] > 0
  /\ v \notin approved
  /\ approved' = approved \cup {v}
  /\ UNCHANGED <<provider, number, indexVars, runVars, history, workerVars, bounds>>

-----------------------------------------------------------------------------
(* indexSourceVersion and reindexSourceVersion *)

\* An index of the same provider is left as it is, another one is refused.
ReadExisting(w) ==
  /\ pc[w] = "existing"
  /\ IF ChunksOf(call[w].version) = {} THEN Goto(w, "write", NoMem) ELSE Finish(w)
  /\ UNCHANGED <<provider, sourceVars, indexVars, runVars, history, bounds>>

\* The hits the first DELETE of a reindex sees.
DeleteHits(w) ==
  /\ pc[w] = "delete_hits"
  /\ Goto(w, "delete_chunks", {h \in hits : h.chunk.version = call[w].version})
  /\ UNCHANGED <<provider, sourceVars, indexVars, runVars, history, bounds>>

\* Variant for mutation runs: the rebuild is left to somebody else.
LeaveEmpty(w) == Finish(w)

\* After its first transaction a reindex writes the chunks in a second one.
AfterDelete(w) == Goto(w, "write", NoMem)

SameRow(h, g) == h.run = g.run /\ h.chunk = g.chunk

\* The second DELETE and the commit.  A hit inserted since the first one
\* still refers to its chunk, and the transaction is rolled back.
DeleteChunks(w) ==
  LET mine == {h \in hits : h.chunk.version = call[w].version}
  IN  /\ pc[w] = "delete_chunks"
      /\ IF \A h \in mine : \E g \in mem[w] : SameRow(h, g)
           THEN /\ chunks' = chunks \ ChunksOf(call[w].version)
                /\ hits' = hits \ mine
                /\ AfterDelete(w)
           ELSE Finish(w) /\ UNCHANGED <<chunks, hits>>
      /\ UNCHANGED <<provider, sourceVars, written, runs, history, bounds>>

\* Variant for mutation runs: without the constraint.
NeverCollides(c, v, i) == FALSE

\* UNIQUE (source_version_id, chunk_index)
ChunkCollides(c, v, i) == c.version = v /\ c.index = i

\* writeChunks: all chunks of the version, or none.
WriteChunks(w) ==
  LET v == call[w].version
      p == call[w].provider
      rows == {[version |-> v, index |-> i, provider |-> p, id |-> written[v] + 1] : i \in ChunkIndexes}
  IN  /\ pc[w] = "write"
      /\ IF \E c \in chunks, i \in ChunkIndexes : ChunkCollides(c, v, i)
           THEN UNCHANGED indexVars
           ELSE chunks' = chunks \cup rows /\ written' = [written EXCEPT ![v] = @ + 1]
      /\ Finish(w)
      /\ UNCHANGED <<provider, sourceVars, runVars, history, bounds>>

\* The provider fails, or the blob cannot be read.
EmbedFails(w) ==
  /\ pc[w] = "write"
  /\ faults < MaxFaults
  /\ faults' = faults + 1
  /\ Finish(w)
  /\ UNCHANGED <<provider, sourceVars, indexVars, runVars, history, calls>>

-----------------------------------------------------------------------------
(* retrieve.  The caller may read the collection; topK * 4, the LIMIT of   *)
(* both queries, is never reached.                                         *)

\* Variant for mutation runs: the queries forget the approval.
AnyVersion(c, p) == c.provider = p

Searchable(c, p) == c.version \in approved /\ c.provider = p

VectorQuery(w) ==
  /\ pc[w] = "vector"
  /\ Goto(w, "keyword", {c \in chunks : Searchable(c, call[w].provider)})
  /\ UNCHANGED <<provider, sourceVars, indexVars, runVars, history, bounds>>

\* The second query, the fusion of both and the row of the run.  Scores are
\* left out: any topK of the candidates may come first.
KeywordQuery(w) ==
  LET rows == {c \in chunks : Searchable(c, call[w].provider) /\ c.version \in call[w].keywords}
      candidates == mem[w] \cup rows
      insufficient == call[w].mode = "strict" /\ rows = {}
      id == Cardinality(DOMAIN runs) + 1
  IN  /\ pc[w] = "keyword"
      /\ \E ranked \in kSubset(Min({TopK, Cardinality(candidates)}), candidates) :
           Goto(w, "hits", [run |-> id, left |-> candidates,
                            returned |-> IF insufficient THEN {} ELSE ranked])
      /\ runs' = [r \in DOMAIN runs \cup {id} |->
                    IF r = id THEN [exec |-> call[w].exec, mode |-> call[w].mode,
                                    insufficient |-> insufficient, provider |-> call[w].provider]
                    ELSE runs[r]]
      /\ UNCHANGED <<provider, sourceVars, indexVars, hits, history, bounds>>

\* Variant for mutation runs: without the foreign key to chunks.
Unchecked(c) == TRUE

\* retrieval_hits.chunk_id REFERENCES chunks
HitAllowed(c) == c \in chunks

\* The hits, one INSERT each; the first that fails ends the request.
InsertHit(w) ==
  /\ pc[w] = "hits"
  /\ \E c \in mem[w].left :
       IF HitAllowed(c)
         THEN /\ hits' = hits \cup {[run |-> mem[w].run, chunk |-> c, included |-> FALSE,
                                     returned |-> c \in mem[w].returned]}
              /\ Goto(w, "hits", [mem[w] EXCEPT !.left = @ \ {c}])
         ELSE Finish(w) /\ UNCHANGED hits
  /\ UNCHANGED <<provider, sourceVars, indexVars, runs, history, bounds>>

Answer(w) ==
  /\ pc[w] = "hits"
  /\ mem[w].left = {}
  /\ answers' = answers \cup {[run |-> mem[w].run, chunks |-> mem[w].returned]}
  /\ Finish(w)
  /\ UNCHANGED <<provider, sourceVars, indexVars, runVars, prompts, bounds>>

-----------------------------------------------------------------------------
(* executeModelForExecution *)

\* A run of another execution, or a strict one without evidence, is refused.
UsableRun(r, e) == runs[r].exec = e /\ ~(runs[r].mode = "strict" /\ runs[r].insufficient)

\* Chunks need a run; without chunks there is nothing to load.
LoadRun(w) ==
  LET ids == call[w].chunks
  IN  /\ pc[w] = "load_run"
      /\ \/ call[w].run = 0 /\ ids # {} /\ Finish(w)
         \/ call[w].run # 0 /\ ~UsableRun(call[w].run, call[w].exec) /\ Finish(w)
         \/ call[w].run # 0 /\ UsableRun(call[w].run, call[w].exec) /\ ids # {}
              /\ Goto(w, "load_chunks", NoMem)
         \/ (call[w].run # 0 => UsableRun(call[w].run, call[w].exec)) /\ ids = {}
              /\ Goto(w, "record", {})
      /\ UNCHANGED <<provider, sourceVars, indexVars, runVars, history, bounds>>

\* loadReturnedChunks: all of them must be returned hits of the run.
LoadChunks(w) ==
  LET returned == {h.chunk : h \in {g \in hits : g.run = call[w].run /\ g.returned}}
  IN  /\ pc[w] = "load_chunks"
      /\ IF call[w].chunks \subseteq returned THEN Goto(w, "mark", call[w].chunks) ELSE Finish(w)
      /\ UNCHANGED <<provider, sourceVars, indexVars, runVars, history, bounds>>

\* Variants for mutation runs: every returned chunk of the run is marked; one
\* chunk of the prompt is marked.
WholeRun(h, run, ids) == h.run = run /\ h.returned
OneOnly(h, run, ids) == h.run = run /\ h.chunk = CHOOSE c \in ids : TRUE

\* The WHERE of markChunksIncludedInContext.
Marked(h, run, ids) == h.run = run /\ h.chunk \in ids /\ h.returned

MarkIncluded(w) ==
  /\ pc[w] = "mark"
  /\ hits' = {[h EXCEPT !.included = @ \/ Marked(h, call[w].run, mem[w])] : h \in hits}
  /\ Goto(w, "record", mem[w])
  /\ UNCHANGED <<provider, sourceVars, indexVars, runs, history, bounds>>

\* model.execution.started; what the model answers changes nothing here.
RecordStarted(w) ==
  /\ pc[w] = "record"
  /\ prompts' = prompts \cup {[exec |-> call[w].exec, run |-> call[w].run, chunks |-> mem[w]]}
  /\ Finish(w)
  /\ UNCHANGED <<provider, sourceVars, indexVars, runVars, answers, bounds>>

-----------------------------------------------------------------------------
\* A restart ends every request and may come with another provider.
Restart ==
  /\ faults < MaxFaults
  /\ faults' = faults + 1
  /\ provider' \in Providers
  /\ pc' = [w \in Workers |-> "idle"]
  /\ call' = [w \in Workers |-> NoCall]
  /\ mem' = [w \in Workers |-> NoMem]
  /\ UNCHANGED <<sourceVars, indexVars, runVars, history, calls>>

Serve(w) ==
  \/ ReadLast(w) \/ InsertVersion(w)
  \/ ReadExisting(w) \/ DeleteHits(w) \/ DeleteChunks(w) \/ WriteChunks(w)
  \/ VectorQuery(w) \/ KeywordQuery(w) \/ InsertHit(w) \/ Answer(w)
  \/ LoadRun(w) \/ LoadChunks(w) \/ MarkIncluded(w) \/ RecordStarted(w)

Begin(w) ==
  \/ \E v \in Versions : BeginUpload(w, v) \/ BeginIndex(w, v) \/ BeginReindex(w, v)
  \/ \E e \in Executions, mode \in Modes, keywords \in Matches :
       BeginRetrieve(w, e, mode, keywords)
  \/ \E e \in Executions, run \in DOMAIN runs \cup {0}, ids \in SUBSET {h.chunk : h \in hits} :
       BeginModel(w, e, run, ids)

Next ==
  \/ \E w \in Workers : Begin(w) \/ Serve(w) \/ EmbedFails(w)
  \/ \E v \in Versions : Approve(v)
  \/ Restart

Spec == Init /\ [][Next]_vars

-----------------------------------------------------------------------------
(* Properties *)

\* Rows are of their kinds and refer to rows: a hit to a run and a chunk, a
\* chunk to a version.  The versions of a source are numbered 1, 2, .. without
\* gap or repetition, although a number is computed from a row that may be
\* stale.
TypeOK ==
  /\ provider \in Providers
  /\ number \in [Versions -> 0..Cardinality(Versions)]
  /\ LET uploaded == {v \in Versions : number[v] > 0}
     IN  {number[v] : v \in uploaded} = 1..Cardinality(uploaded)
  /\ approved \subseteq {v \in Versions : number[v] > 0}
  /\ \A c \in chunks : number[c.version] > 0 /\ c.id \in 1..written[c.version]
  /\ \A h \in hits : h.run \in DOMAIN runs /\ h.chunk \in chunks
  /\ calls \in 0..MaxCalls /\ faults \in 0..MaxFaults

\* However indexing, reindexing, failures and a change of the provider
\* interleave, a version has the chunks of one writing or none.  And while
\* nothing fails, a version that was ever indexed has chunks, except between
\* the two transactions of a reindex: whichever of several requests deletes
\* last, one of them writes again.
WholeIndex ==
  \A v \in Versions :
    IF ChunksOf(v) # {}
      THEN \E p \in Providers, n \in 1..written[v] :
             ChunksOf(v) = {[version |-> v, index |-> i, provider |-> p, id |-> n] :
                              i \in ChunkIndexes}
      ELSE written[v] > 0 /\ faults = 0 =>
             \E w \in Workers : pc[w] = "write" /\ call[w].version = v

\* A response never mixes two writings of a version, though its two queries
\* may fall on both sides of a reindex, and each of its chunks that exists
\* has its hit, marked as returned, in a run of the same provider.
AnswerConsistent ==
  \A a \in answers :
    /\ \A c, d \in a.chunks : c.version = d.version => c.id = d.id
    /\ \A c \in a.chunks \cap chunks :
         /\ c.provider = runs[a.run].provider
         /\ \E h \in hits : h.run = a.run /\ h.chunk = c /\ h.returned

\* A prompt can be traced.  Only text of approved versions, returned by a run
\* of the same execution that was not refused for want of evidence, gets into
\* it (docs/architecture/knowledge.md, lines 19 and 25).  And the marks agree
\* with the prompts although a reindex may delete hits between them: a chunk
\* in a prompt that still exists has a hit marked as included in context, and
\* a mark stands for a prompt, recorded or just about to be, unless a restart
\* fell between the two.
PromptIsTraced ==
  /\ \A p \in prompts : p.chunks # {} =>
       /\ runs[p.run].exec = p.exec
       /\ ~(runs[p.run].mode = "strict" /\ runs[p.run].insufficient)
       /\ \A c \in p.chunks : c.version \in approved
  /\ \A p \in prompts : \A c \in p.chunks \cap chunks :
       \E h \in hits : h.run = p.run /\ h.chunk = c /\ h.included
  /\ \A h \in hits :
       h.included =>
         \/ \E p \in prompts : p.run = h.run /\ h.chunk \in p.chunks
         \/ \E w \in Workers : pc[w] = "record" /\ call[w].run = h.run /\ h.chunk \in mem[w]
         \/ faults > 0
=============================================================================
