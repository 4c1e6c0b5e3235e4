-------------------------- MODULE KnowledgeProofs --------------------------
(***************************************************************************)
(* Proofs about Knowledge, for any number of versions, chunks, providers   *)
(* and requests.                                                           *)
(*                                                                         *)
(* A request computes from rows it read before others changed them.  What  *)
(* it read stays true enough: ids are never used again, so a chunk that    *)
(* was deleted stays deleted, and a chunk that exists has kept its hits    *)
(* (Keeps).                                                                *)
(***************************************************************************)
EXTENDS Knowledge, FiniteSetTheorems, TLAPS

Labels == {"idle", "last", "insert_version", "existing", "delete_hits", "delete_chunks", "write",
           "vector", "keyword", "hits", "load_run", "load_chunks", "mark", "record"}

Chunks == [version : Versions, index : ChunkIndexes, provider : Providers, id : Nat \ {0}]
Runs == [exec : Executions, mode : Modes, insufficient : BOOLEAN, provider : Providers]
Hits == [run : Nat, chunk : Chunks, included : BOOLEAN, returned : BOOLEAN]

UploadCalls == [op : {"upload"}, version : Versions]
IndexCalls == [op : {"index", "reindex"}, version : Versions, provider : Providers]
RetrieveCalls ==
  [op : {"retrieve"}, exec : Executions, mode : Modes, keywords : Matches, provider : Providers]
ModelCalls == [op : {"model"}, exec : Executions, run : Nat, chunks : SUBSET Chunks]

Uploaded == {v \in Versions : number[v] > 0}

\* Chunks that were written, of approved versions.  They may be gone.
Old == {c \in Chunks : c.id <= written[c.version] /\ c.version \in approved}

\* Those of cs that exist have a returned hit, or an included one, in run r.
ReturnedBy(r, cs) == \A c \in cs \cap chunks : \E h \in hits : h.run = r /\ h.chunk = c /\ h.returned
IncludedBy(r, cs) == \A c \in cs \cap chunks : \E h \in hits : h.run = r /\ h.chunk = c /\ h.included

\* What cs needs to be put into a prompt of e.
Evidenced(e, r, cs) ==
  /\ cs \subseteq Old
  /\ cs # {} => r \in DOMAIN runs /\ UsableRun(r, e)

OneWriting(cs) == \A c, d \in cs : c.version = d.version => c.id = d.id
ProvidedBy(p, cs) == \A c \in cs : c.provider = p

\* Hits are being written.  If the two queries saw two writings of a version,
\* then a chunk that is still to get its hit is gone, and stays gone.
WritingHits(m) ==
  /\ DOMAIN m = {"run", "left", "returned"}
  /\ m.run \in DOMAIN runs
  /\ m.left \subseteq Old /\ m.returned \subseteq Old
  /\ ProvidedBy(runs[m.run].provider, m.left \cup m.returned)
  /\ ReturnedBy(m.run, m.returned \ m.left)
  /\ OneWriting(m.returned) \/ \E c \in m.left : c \notin chunks

\* What a request at a step relies on.
AtItsStep(w) ==
  /\ pc[w] \in {"last", "insert_version"} => call[w] \in UploadCalls
  /\ pc[w] = "insert_version" => mem[w] \in 1..(Cardinality(Uploaded) + 1)
  /\ pc[w] \in {"existing", "delete_hits", "delete_chunks", "write"} =>
       call[w] \in IndexCalls /\ call[w].version \in Uploaded
  /\ pc[w] \in {"vector", "keyword"} => call[w] \in RetrieveCalls
  /\ pc[w] = "keyword" => mem[w] \subseteq Old /\ ProvidedBy(call[w].provider, mem[w])
  /\ pc[w] = "hits" => WritingHits(mem[w])
  /\ pc[w] \in {"load_run", "load_chunks", "mark", "record"} =>
       call[w] \in ModelCalls /\ call[w].run \in DOMAIN runs \cup {0}
  /\ pc[w] = "load_chunks" => call[w].run # 0 /\ UsableRun(call[w].run, call[w].exec)
  /\ pc[w] \in {"mark", "record"} => Evidenced(call[w].exec, call[w].run, mem[w])
  /\ pc[w] = "mark" => ReturnedBy(call[w].run, mem[w])
  /\ pc[w] = "record" => IncludedBy(call[w].run, mem[w])

Typed ==
  /\ FirstVersion \in Uploaded
  /\ written \in [Versions -> Nat]
  /\ chunks \subseteq Chunks
  /\ Cardinality(DOMAIN runs) \in Nat /\ DOMAIN runs = 1..Cardinality(DOMAIN runs)
  /\ \A r \in DOMAIN runs : runs[r] \in Runs
  /\ hits \subseteq Hits
  /\ \A h \in hits : h.chunk.version \in approved
  /\ pc \in [Workers -> Labels]
  /\ DOMAIN call = Workers /\ DOMAIN mem = Workers

AnswerOK(a) ==
  /\ a.run \in DOMAIN runs
  /\ a.chunks \subseteq Old
  /\ ProvidedBy(runs[a.run].provider, a.chunks)
  /\ OneWriting(a.chunks)
  /\ ReturnedBy(a.run, a.chunks)

PromptOK(p) == Evidenced(p.exec, p.run, p.chunks) /\ IncludedBy(p.run, p.chunks)

MarksTraced ==
  \A h \in hits :
    h.included =>
      \/ \E p \in prompts : p.run = h.run /\ h.chunk \in p.chunks
      \/ \E w \in Workers : pc[w] = "record" /\ call[w].run = h.run /\ h.chunk \in mem[w]
      \/ faults > 0

IInv ==
  /\ TypeOK
  /\ Typed
  /\ WholeIndex
  /\ \A w \in Workers : AtItsStep(w)
  /\ \A a \in answers : AnswerOK(a)
  /\ \A p \in prompts : PromptOK(p)
  /\ MarksTraced

\* What no step of a request takes back.
Keeps ==
  /\ Uploaded \subseteq Uploaded'
  /\ approved \subseteq approved'
  /\ \A v \in Versions : written[v] <= written'[v]
  /\ \A c \in chunks' : c \in chunks \/ c.id > written[c.version]
  /\ \A r \in DOMAIN runs : r \in DOMAIN runs' /\ runs'[r] = runs[r]
  /\ \A h \in hits : h.chunk \in chunks' =>
       \E g \in hits' : /\ SameRow(g, h)
                        /\ h.returned => g.returned
                        /\ h.included => g.included

\* The other requests stay where they are.
OthersWait(w) ==
  \A v \in Workers \ {w} : pc'[v] = pc[v] /\ call'[v] = call[v] /\ mem'[v] = mem[v]

-----------------------------------------------------------------------------
(* What a step leaves true *)

\* Chunks of former times do not come back, and those that stay keep their
\* hits.
LEMMA OldKept ==
  ASSUME Typed, Typed', Keeps, NEW cs \in SUBSET Old
  PROVE  /\ cs \subseteq Old'
         /\ cs \cap chunks' \subseteq chunks
         /\ \A r : ReturnedBy(r, cs) => ReturnedBy(r, cs)'
         /\ \A r : IncludedBy(r, cs) => IncludedBy(r, cs)'
<1>1. ASSUME NEW c \in cs PROVE c \in Old'
  <2>1. c \in Chunks /\ c.version \in Versions /\ c.id \in Nat
    BY DEF Old, Chunks
  <2>2. written[c.version] \in Nat /\ written'[c.version] \in Nat
    BY <2>1 DEF Typed
  <2> QED
    BY <2>1, <2>2 DEF Old, Keeps
<1>2. ASSUME NEW c \in cs, c \in chunks' PROVE c \in chunks
  <2>1. c.id \in Nat /\ c.version \in Versions /\ c.id <= written[c.version]
    BY DEF Old, Chunks
  <2>2. written[c.version] \in Nat
    BY <2>1 DEF Typed
  <2> QED
    BY <1>2, <2>1, <2>2 DEF Keeps
<1>3. ASSUME NEW r, ReturnedBy(r, cs) PROVE ReturnedBy(r, cs)'
  BY <1>2, <1>3 DEF Keeps, ReturnedBy, SameRow
<1>4. ASSUME NEW r, IncludedBy(r, cs) PROVE IncludedBy(r, cs)'
  BY <1>2, <1>4 DEF Keeps, IncludedBy, SameRow
<1> QED
  BY <1>1, <1>2, <1>3, <1>4

LEMMA RunKept ==
  ASSUME Keeps, NEW r \in DOMAIN runs
  PROVE  /\ r \in DOMAIN runs' /\ runs'[r] = runs[r]
         /\ \A e : UsableRun(r, e) => UsableRun(r, e)'
BY DEF Keeps, UsableRun

LEMMA EvidenceKept ==
  ASSUME Typed, Typed', Keeps, NEW e, NEW r, NEW cs, Evidenced(e, r, cs)
  PROVE  Evidenced(e, r, cs)'
BY OldKept, RunKept DEF Evidenced

LEMMA WritingKept ==
  ASSUME Typed, Typed', Keeps, NEW m, WritingHits(m)
  PROVE  WritingHits(m)'
<1>1. /\ m.run \in DOMAIN runs /\ m.left \subseteq Old /\ m.returned \subseteq Old
      /\ (m.returned \ m.left) \subseteq Old
  BY DEF WritingHits
<1>2. m.run \in DOMAIN runs' /\ runs'[m.run] = runs[m.run]
  BY <1>1, RunKept
<1>3. m.left \subseteq Old' /\ m.returned \subseteq Old' /\ m.left \cap chunks' \subseteq chunks
  BY <1>1, OldKept
<1>4. ReturnedBy(m.run, m.returned \ m.left)'
  BY <1>1, OldKept DEF WritingHits
<1> QED
  BY <1>1, <1>2, <1>3, <1>4 DEF WritingHits, ProvidedBy, OneWriting

LEMMA UploadedGrows ==
  ASSUME Uploaded \subseteq Uploaded'
  PROVE  /\ IsFiniteSet(Uploaded) /\ Cardinality(Uploaded) \in Nat
         /\ IsFiniteSet(Uploaded)' /\ Cardinality(Uploaded)' \in Nat
         /\ Cardinality(Uploaded) <= Cardinality(Uploaded)'
<1>1. IsFiniteSet(Uploaded) /\ IsFiniteSet(Uploaded')
  BY TextAssumption, FS_Subset DEF Uploaded
<1> QED
  BY <1>1, FS_Subset, FS_CardinalityType

LEMMA WaitingKept ==
  ASSUME Typed, Typed', Keeps, NEW v \in Workers, AtItsStep(v),
         pc'[v] = pc[v], call'[v] = call[v], mem'[v] = mem[v]
  PROVE  AtItsStep(v)'
<1>1. pc[v] = "insert_version" => mem'[v] \in 1..(Cardinality(Uploaded)' + 1)
  BY UploadedGrows DEF AtItsStep, Keeps
<1>2. pc[v] = "keyword" => mem'[v] \subseteq Old'
  BY OldKept DEF AtItsStep
<1>3. pc[v] = "hits" => WritingHits(mem[v])'
  BY WritingKept DEF AtItsStep
<1>4. pc[v] \in {"load_run", "load_chunks", "mark", "record"} => call[v].run \in DOMAIN runs' \cup {0}
  BY RunKept DEF AtItsStep
<1>5. pc[v] = "load_chunks" => call[v].run # 0 /\ UsableRun(call[v].run, call[v].exec)'
  BY RunKept DEF AtItsStep
<1>6. pc[v] \in {"mark", "record"} => Evidenced(call[v].exec, call[v].run, mem[v])'
  BY EvidenceKept DEF AtItsStep
<1>7. pc[v] = "mark" => ReturnedBy(call[v].run, mem[v])'
  BY OldKept DEF AtItsStep, Evidenced
<1>8. pc[v] = "record" => IncludedBy(call[v].run, mem[v])'
  BY OldKept DEF AtItsStep, Evidenced
<1> QED
  BY <1>1, <1>2, <1>3, <1>4, <1>5, <1>6, <1>7, <1>8
  DEF AtItsStep, Keeps, ProvidedBy, WritingHits, Evidenced, ReturnedBy, IncludedBy, OneWriting,
      UsableRun

LEMMA SentKept ==
  ASSUME Typed, Typed', Keeps
  PROVE  /\ \A a : AnswerOK(a) => AnswerOK(a)'
         /\ \A p : PromptOK(p) => PromptOK(p)'
<1>1. ASSUME NEW a, AnswerOK(a) PROVE AnswerOK(a)'
  <2>1. a.run \in DOMAIN runs' /\ runs'[a.run] = runs[a.run]
    BY <1>1, RunKept DEF AnswerOK
  <2>2. a.chunks \subseteq Old' /\ ReturnedBy(a.run, a.chunks)'
    BY <1>1, OldKept DEF AnswerOK
  <2> QED
    BY <1>1, <2>1, <2>2 DEF AnswerOK, ProvidedBy, OneWriting
<1>2. ASSUME NEW p, PromptOK(p) PROVE PromptOK(p)'
  BY <1>2, EvidenceKept, OldKept DEF PromptOK, Evidenced
<1> QED
  BY <1>1, <1>2

\* What is left to show about a step of w.
LEMMA StepOf ==
  ASSUME IInv, NEW w \in Workers, Keeps, OthersWait(w), TypeOK', Typed', WholeIndex', MarksTraced',
         AtItsStep(w)',
         \A a \in answers' : a \in answers \/ AnswerOK(a)',
         \A p \in prompts' : p \in prompts \/ PromptOK(p)'
  PROVE  IInv'
<1>1. \A v \in Workers : AtItsStep(v)'
  BY WaitingKept DEF IInv, OthersWait
<1>2. (\A a \in answers' : AnswerOK(a)') /\ (\A p \in prompts' : PromptOK(p)')
  BY SentKept DEF IInv
<1> QED
  BY <1>1, <1>2 DEF IInv

\* A step that leaves the index alone, and is no writing of it.
LEMMA IndexKept ==
  ASSUME WholeIndex, NEW w \in Workers, OthersWait(w), pc[w] # "write",
         UNCHANGED indexVars, faults' = faults
  PROVE  WholeIndex'
<1>1. \A v \in Workers : pc[v] = "write" => pc'[v] = "write" /\ call'[v] = call[v]
  BY DEF OthersWait
<1>2. \A v \in Versions : ChunksOf(v)' = ChunksOf(v) /\ written'[v] = written[v]
  BY DEF ChunksOf, indexVars
<1> QED
  BY <1>1, <1>2 DEF WholeIndex

\* A step that marks nothing, and is no recording of a prompt.
LEMMA MarksKept ==
  ASSUME MarksTraced, NEW w \in Workers, OthersWait(w), pc[w] # "record",
         prompts' = prompts, faults' = faults,
         \A h \in hits' : h.included => \E g \in hits : SameRow(g, h) /\ g.included
  PROVE  MarksTraced'
<1>1. \A v \in Workers : pc[v] = "record" => pc'[v] = "record" /\ call'[v] = call[v] /\ mem'[v] = mem[v]
  BY DEF OthersWait
<1> QED
  BY <1>1 DEF MarksTraced, SameRow

-----------------------------------------------------------------------------
(* Steps that change no rows *)

LEMMA NothingChanged ==
  ASSUME Typed, UNCHANGED <<sourceVars, indexVars, runVars>>
  PROVE  Keeps
<1>1. \A c \in chunks' : c \in chunks
  BY DEF indexVars
<1>2. \A v \in Versions : written'[v] = written[v] /\ written[v] \in Nat
  BY DEF indexVars, Typed
<1> QED
  BY <1>1, <1>2 DEF Keeps, sourceVars, runVars, indexVars, Uploaded, SameRow

\* A request goes on at label s.
Moves(w, s) ==
  /\ pc' = [pc EXCEPT ![w] = s] /\ s \in Labels
  /\ DOMAIN call' = Workers /\ DOMAIN mem' = Workers
  /\ \A v \in Workers \ {w} : call'[v] = call[v] /\ mem'[v] = mem[v]

LEMMA Moved ==
  ASSUME Typed, NEW w \in Workers, NEW s, Moves(w, s)
  PROVE  /\ pc' \in [Workers -> Labels] /\ pc'[w] = s
         /\ DOMAIN call' = Workers /\ DOMAIN mem' = Workers
         /\ OthersWait(w)
BY DEF Typed, Moves, OthersWait

\* Its rows stay as they are.
LEMMA Quiet ==
  ASSUME IInv, NEW w \in Workers, NEW s, Moves(w, s), pc[w] \notin {"write", "record"},
         UNCHANGED <<provider, sourceVars, indexVars, runVars, prompts, faults>>,
         calls' \in 0..MaxCalls,
         \A a \in answers' : a \in answers \/ AnswerOK(a)',
         AtItsStep(w)'
  PROVE  IInv'
<1>1. TypeOK /\ Typed /\ WholeIndex /\ MarksTraced
  BY DEF IInv
<1>2. Keeps /\ OthersWait(w)
  BY <1>1, NothingChanged, Moved
<1>3. TypeOK'
  BY <1>1 DEF TypeOK, sourceVars, indexVars, runVars
<1>4. Typed'
  BY <1>1, Moved DEF Typed, Uploaded, sourceVars, indexVars, runVars
<1>5. WholeIndex'
  BY <1>1, <1>2, IndexKept
<1>6. MarksTraced'
  <2>1. \A h \in hits' : h.included => \E g \in hits : SameRow(g, h) /\ g.included
    BY DEF runVars, SameRow
  <2> QED
    BY <1>1, <1>2, <2>1, MarksKept
<1> QED
  BY <1>2, <1>3, <1>4, <1>5, <1>6, StepOf

\* Nothing is asked of a request that has ended.
LEMMA IdleStep ==
  ASSUME NEW w \in Workers, pc'[w] = "idle"
  PROVE  AtItsStep(w)'
BY DEF AtItsStep

LEMMA FinishMoves ==
  ASSUME Typed, NEW w \in Workers, Finish(w)
  PROVE  Moves(w, "idle") /\ AtItsStep(w)'
<1>1. Moves(w, "idle") /\ pc'[w] = "idle"
  BY DEF Finish, Moves, Labels, Typed
<1> QED
  BY <1>1, IdleStep

LEMMA GotoMoves ==
  ASSUME Typed, NEW w \in Workers, NEW s \in Labels, NEW m, Goto(w, s, m)
  PROVE  /\ Moves(w, s) /\ pc'[w] = s /\ mem'[w] = m /\ call'[w] = call[w]
BY DEF Goto, Moves, Typed

LEMMA AcceptMoves ==
  ASSUME Typed, NEW w \in Workers, NEW c, NEW s \in Labels, Accept(w, c, s)
  PROVE  /\ Moves(w, s) /\ pc'[w] = s /\ call'[w] = c
BY DEF Accept, Moves, Typed

LEMMA AcceptInv ==
  ASSUME IInv, NEW w \in Workers, NEW c, NEW s \in Labels, Accept(w, c, s), AtItsStep(w)'
  PROVE  IInv'
<1>1. Moves(w, s) /\ pc[w] \notin {"write", "record"}
  BY AcceptMoves DEF Accept, IInv
<1>2. UNCHANGED <<provider, sourceVars, indexVars, runVars, prompts, faults, answers>>
  BY DEF Accept, history
<1>3. calls' \in 0..MaxCalls
  BY KnowledgeAssumption DEF Accept, IInv, TypeOK
<1> QED
  BY <1>1, <1>2, <1>3, Quiet

LEMMA BeginInv ==
  ASSUME IInv, NEW w \in Workers, Begin(w)
  PROVE  IInv'
<1>1. TypeOK /\ Typed
  BY DEF IInv
<1>2. ASSUME NEW v \in Versions, BeginUpload(w, v) PROVE IInv'
  <2>1. Accept(w, [op |-> "upload", version |-> v], "last") /\ "last" \in Labels
    BY <1>2 DEF BeginUpload, Labels
  <2>2. pc'[w] = "last" /\ call'[w] = [op |-> "upload", version |-> v]
    BY <1>1, <2>1, AcceptMoves
  <2>3. AtItsStep(w)'
    BY <2>2 DEF AtItsStep, UploadCalls
  <2> QED
    BY <2>1, <2>3, AcceptInv
<1>3. ASSUME NEW v \in Versions, NEW o \in {"index", "reindex"},
             NEW s \in {"existing", "delete_hits"}, number[v] > 0,
             Accept(w, [op |-> o, version |-> v, provider |-> provider], s)
      PROVE  IInv'
  <2>1. s \in Labels
    BY DEF Labels
  <2>2. pc'[w] = s /\ call'[w] = [op |-> o, version |-> v, provider |-> provider]
    BY <1>1, <1>3, <2>1, AcceptMoves
  <2>3. number' = number
    BY <1>3 DEF Accept, sourceVars
  <2>4. AtItsStep(w)'
    BY <1>1, <1>3, <2>2, <2>3 DEF AtItsStep, IndexCalls, TypeOK, Uploaded
  <2> QED
    BY <1>3, <2>1, <2>4, AcceptInv
<1>4. ASSUME NEW e \in Executions, NEW mode \in Modes, NEW keywords \in Matches,
             BeginRetrieve(w, e, mode, keywords)
      PROVE  IInv'
  <2> DEFINE c == [op |-> "retrieve", exec |-> e, mode |-> mode, keywords |-> keywords,
                   provider |-> provider]
  <2>1. Accept(w, c, "vector") /\ "vector" \in Labels
    BY <1>4 DEF BeginRetrieve, Labels
  <2>2. c \in RetrieveCalls
    BY <1>1 DEF RetrieveCalls, TypeOK
  <2> HIDE DEF c
  <2>3. pc'[w] = "vector" /\ call'[w] = c
    BY <1>1, <2>1, AcceptMoves
  <2>4. AtItsStep(w)'
    BY <2>2, <2>3 DEF AtItsStep
  <2> QED
    BY <2>1, <2>4, AcceptInv
<1>5. ASSUME NEW e \in Executions, NEW run \in DOMAIN runs \cup {0},
             NEW ids \in SUBSET {h.chunk : h \in hits}, BeginModel(w, e, run, ids)
      PROVE  IInv'
  <2> DEFINE c == [op |-> "model", exec |-> e, run |-> run, chunks |-> ids]
  <2>1. Accept(w, c, "load_run") /\ "load_run" \in Labels
    BY <1>5 DEF BeginModel, Labels
  <2>2. run \in Nat /\ ids \in SUBSET Chunks
    BY <1>1 DEF Typed, Hits
  <2>3. c \in ModelCalls /\ c.run = run
    BY <2>2 DEF ModelCalls
  <2> HIDE DEF c
  <2>4. pc'[w] = "load_run" /\ call'[w] = c
    BY <1>1, <2>1, AcceptMoves
  <2>5. runs' = runs
    BY <2>1 DEF Accept, runVars
  <2>6. AtItsStep(w)'
    BY <2>3, <2>4, <2>5 DEF AtItsStep
  <2> QED
    BY <2>1, <2>6, AcceptInv
<1> QED
  BY <1>2, <1>3, <1>4, <1>5 DEF Begin, BeginIndex, BeginReindex

\* The numbers of a source are 1, 2, .. without gap, so the next one is at
\* most one past the number of versions.
LEMMA NextNumber ==
  ASSUME TypeOK, Typed
  PROVE  Last + 1 \in 1..(Cardinality(Uploaded) + 1)
<1> DEFINE S == {number[v] : v \in Versions}
           K == Cardinality(Uploaded)
<1>1. K \in Nat
  BY TextAssumption, FS_Subset, FS_CardinalityType DEF Uploaded
<1>2. {number[v] : v \in Uploaded} = 1..K /\ number \in [Versions -> Nat]
  BY TextAssumption, FS_CardinalityType DEF TypeOK, Uploaded
<1>3. \A v \in Versions : number[v] \in 0..K
  <2> SUFFICES ASSUME NEW v \in Versions PROVE number[v] \in 0..K
    OBVIOUS
  <2>1. CASE v \in Uploaded
    BY <1>1, <1>2, <2>1
  <2>2. CASE v \notin Uploaded
    BY <1>1, <1>2, <2>2 DEF Uploaded
  <2> QED
    BY <2>1, <2>2
<1>4. number[FirstVersion] \in 1..K
  BY <1>2 DEF Typed
<1>5. K \in {number[v] : v \in Uploaded}
  BY <1>1, <1>2, <1>4
<1>6. K \in S
  BY <1>5 DEF Uploaded
<1>7. \A n \in S : n \in 0..K
  BY <1>3
<1> HIDE DEF S, K
<1>8. \E x \in S : \A y \in S : x >= y
  BY <1>1, <1>6, <1>7
<1>9. Max(S) \in S
  BY <1>8 DEF Max
<1>10. Last = Max(S)
  BY DEF Last, S
<1> QED
  BY <1>1, <1>7, <1>9, <1>10 DEF K

LEMMA ReadInv ==
  ASSUME IInv, NEW w \in Workers,
         \/ ReadLast(w) \/ ReadExisting(w) \/ DeleteHits(w) \/ VectorQuery(w)
         \/ LoadRun(w) \/ LoadChunks(w) \/ Answer(w)
  PROVE  IInv'
<1>1. TypeOK /\ Typed /\ AtItsStep(w)
  BY DEF IInv
<1>2. /\ UNCHANGED <<provider, sourceVars, indexVars, runVars, prompts, faults>>
      /\ calls' \in 0..MaxCalls /\ pc[w] \notin {"write", "record"}
  BY <1>1 DEF TypeOK, ReadLast, ReadExisting, DeleteHits, VectorQuery, LoadRun, LoadChunks, Answer,
         bounds, history
<1>3. Old' = Old /\ Uploaded' = Uploaded
  BY <1>2 DEF Old, Uploaded, sourceVars, indexVars
<1>4. ASSUME NEW s \in Labels, Moves(w, s), AtItsStep(w)', answers' = answers
      PROVE  IInv'
  BY <1>2, <1>4, Quiet
<1>5. CASE Finish(w) /\ answers' = answers
  BY <1>1, <1>4, <1>5, FinishMoves DEF Labels
<1>6. CASE ReadLast(w)
  <2>1. "insert_version" \in Labels
    BY DEF Labels
  <2>2. Moves(w, "insert_version") /\ pc'[w] = "insert_version" /\ mem'[w] = Last + 1 /\ call'[w] = call[w]
    BY <1>1, <1>6, <2>1, GotoMoves DEF ReadLast
  <2>3. call[w] \in UploadCalls /\ answers' = answers
    BY <1>1, <1>6 DEF AtItsStep, ReadLast, history
  <2>4. AtItsStep(w)'
    BY <1>1, <1>3, <2>2, <2>3, NextNumber DEF AtItsStep
  <2> QED
    BY <1>4, <2>1, <2>2, <2>3, <2>4
<1>7. CASE ReadExisting(w) /\ ~Finish(w)
  <2>1. "write" \in Labels
    BY DEF Labels
  <2>2. Goto(w, "write", NoMem)
    BY <1>7 DEF ReadExisting
  <2>3. Moves(w, "write") /\ pc'[w] = "write" /\ call'[w] = call[w]
    BY <1>1, <2>1, <2>2, GotoMoves
  <2>4. call[w] \in IndexCalls /\ call[w].version \in Uploaded /\ answers' = answers
    BY <1>1, <1>7 DEF AtItsStep, ReadExisting, history
  <2>5. AtItsStep(w)'
    BY <1>3, <2>3, <2>4 DEF AtItsStep
  <2> QED
    BY <1>4, <2>1, <2>3, <2>4, <2>5
<1>8. CASE DeleteHits(w)
  <2>1. "delete_chunks" \in Labels
    BY DEF Labels
  <2>2. Moves(w, "delete_chunks") /\ pc'[w] = "delete_chunks" /\ call'[w] = call[w]
    BY <1>1, <1>8, <2>1, GotoMoves DEF DeleteHits
  <2>3. call[w] \in IndexCalls /\ call[w].version \in Uploaded /\ answers' = answers
    BY <1>1, <1>8 DEF AtItsStep, DeleteHits, history
  <2>4. AtItsStep(w)'
    BY <1>3, <2>2, <2>3 DEF AtItsStep
  <2> QED
    BY <1>4, <2>1, <2>2, <2>3, <2>4
<1>9. CASE VectorQuery(w)
  <2>1. "keyword" \in Labels
    BY DEF Labels
  <2> DEFINE found == {c \in chunks : Searchable(c, call[w].provider)}
  <2>2. Moves(w, "keyword") /\ pc'[w] = "keyword" /\ mem'[w] = found /\ call'[w] = call[w]
    BY <1>1, <1>9, <2>1, GotoMoves DEF VectorQuery
  <2>3. call[w] \in RetrieveCalls /\ answers' = answers
    BY <1>1, <1>9 DEF AtItsStep, VectorQuery, history
  <2>4. ASSUME NEW c \in found PROVE c \in Old /\ c.provider = call[w].provider
    <3>1. c \in Chunks /\ c.id <= written[c.version]
      BY <1>1, <2>4 DEF Typed, TypeOK, Chunks
    <3> QED
      BY <2>4, <3>1 DEF Old, Searchable
  <2>5. AtItsStep(w)'
    BY <1>3, <2>2, <2>3, <2>4 DEF AtItsStep, ProvidedBy
  <2> QED
    BY <1>4, <2>1, <2>2, <2>3, <2>5
<1>10. CASE LoadRun(w) /\ ~Finish(w)
  <2>1. "load_chunks" \in Labels /\ "record" \in Labels
    BY DEF Labels
  <2>2. call[w] \in ModelCalls /\ call[w].run \in DOMAIN runs \cup {0} /\ answers' = answers
    BY <1>1, <1>10 DEF AtItsStep, LoadRun, history
  <2>3. runs' = runs
    BY <1>2 DEF runVars
  <2>4. CASE /\ call[w].run # 0 /\ UsableRun(call[w].run, call[w].exec)
             /\ Goto(w, "load_chunks", NoMem)
    <3>1. Moves(w, "load_chunks") /\ pc'[w] = "load_chunks" /\ call'[w] = call[w]
      BY <1>1, <2>1, <2>4, GotoMoves
    <3>2. AtItsStep(w)'
      BY <2>2, <2>3, <2>4, <3>1 DEF AtItsStep, UsableRun
    <3> QED
      BY <1>4, <2>1, <2>2, <3>1, <3>2
  <2>5. CASE Goto(w, "record", {})
    <3>1. Moves(w, "record") /\ pc'[w] = "record" /\ call'[w] = call[w] /\ mem'[w] = {}
      BY <1>1, <2>1, <2>5, GotoMoves
    <3>2. AtItsStep(w)'
      BY <2>2, <2>3, <3>1 DEF AtItsStep, Evidenced, IncludedBy
    <3> QED
      BY <1>4, <2>1, <2>2, <3>1, <3>2
  <2> QED
    BY <1>10, <2>4, <2>5 DEF LoadRun
<1>11. CASE LoadChunks(w) /\ ~Finish(w)
  <2>1. "mark" \in Labels
    BY DEF Labels
  <2>2. /\ call[w] \in ModelCalls /\ call[w].run \in DOMAIN runs \cup {0} /\ answers' = answers
        /\ call[w].run # 0 /\ UsableRun(call[w].run, call[w].exec)
    BY <1>1, <1>11 DEF AtItsStep, LoadChunks, history
  <2>3. /\ call[w].chunks \subseteq {h.chunk : h \in {g \in hits : g.run = call[w].run /\ g.returned}}
        /\ Goto(w, "mark", call[w].chunks)
    BY <1>11 DEF LoadChunks
  <2>4. Moves(w, "mark") /\ pc'[w] = "mark" /\ mem'[w] = call[w].chunks /\ call'[w] = call[w]
    BY <1>1, <2>1, <2>3, GotoMoves
  <2>5. ASSUME NEW c \in call[w].chunks
        PROVE  c \in Old /\ \E h \in hits : h.run = call[w].run /\ h.chunk = c /\ h.returned
    <3>1. PICK h \in hits : h.run = call[w].run /\ h.chunk = c /\ h.returned
      BY <2>3, <2>5
    <3>2. c \in chunks /\ c.version \in approved
      BY <1>1, <3>1 DEF TypeOK, Typed
    <3>3. c \in Chunks /\ c.id <= written[c.version]
      BY <1>1, <3>2 DEF TypeOK, Typed, Chunks
    <3> QED
      BY <3>1, <3>2, <3>3 DEF Old
  <2>6. runs' = runs /\ hits' = hits /\ chunks' = chunks
    BY <1>2 DEF runVars, indexVars
  <2>7. Evidenced(call[w].exec, call[w].run, call[w].chunks)'
    BY <1>3, <2>2, <2>4, <2>5, <2>6 DEF Evidenced, UsableRun
  <2>8. ReturnedBy(call[w].run, mem[w])'
    BY <2>4, <2>5, <2>6 DEF ReturnedBy
  <2>9. AtItsStep(w)'
    BY <2>2, <2>4, <2>6, <2>7, <2>8 DEF AtItsStep
  <2> QED
    BY <1>4, <2>1, <2>2, <2>4, <2>9
<1>12. CASE Answer(w)
  <2>1. Moves(w, "idle") /\ AtItsStep(w)' /\ "idle" \in Labels
    BY <1>1, <1>12, FinishMoves DEF Answer, Labels
  <2>2. PICK a : /\ a.run = mem[w].run /\ a.chunks = mem[w].returned
                 /\ answers' = answers \cup {a} /\ WritingHits(mem[w]) /\ mem[w].left = {}
    BY <1>1, <1>12 DEF Answer, AtItsStep
  <2>3. mem[w].left \cup mem[w].returned = mem[w].returned /\ mem[w].returned \ mem[w].left = mem[w].returned
    BY <2>2
  <2>4. AnswerOK(a)
    BY <2>2, <2>3 DEF AnswerOK, WritingHits
  <2>5. Keeps /\ Typed'
    BY <1>1, <1>2, <2>1, NothingChanged, Moved DEF Typed, Uploaded, sourceVars, indexVars, runVars
  <2>6. AnswerOK(a)'
    BY <1>1, <2>4, <2>5, SentKept
  <2> QED
    BY <1>2, <2>1, <2>2, <2>6, Quiet
<1> QED
  BY <1>5, <1>6, <1>7, <1>8, <1>9, <1>10, <1>11, <1>12
  DEF ReadExisting, LoadRun, LoadChunks, history

-----------------------------------------------------------------------------
(* Versions *)

\* Whoever chose a number that is taken by now is refused, so the next
\* number is the only one that is ever inserted.
LEMMA InsertVersionInv ==
  ASSUME IInv, NEW w \in Workers, InsertVersion(w)
  PROVE  IInv'
<1> DEFINE v == call[w].version
           n == mem[w]
           K == Cardinality(Uploaded)
<1>1. TypeOK /\ Typed /\ WholeIndex /\ MarksTraced /\ AtItsStep(w)
  BY DEF IInv
<1>2. /\ pc[w] = "insert_version" /\ Moves(w, "idle") /\ AtItsStep(w)'
      /\ UNCHANGED <<provider, approved, indexVars, runVars, answers, prompts, calls, faults>>
  BY <1>1, FinishMoves DEF InsertVersion, history, bounds
<1>3. v \in Versions /\ n \in 1..(K + 1)
  BY <1>1, <1>2 DEF AtItsStep, UploadCalls
<1>4. /\ IsFiniteSet(Uploaded) /\ K \in Nat
      /\ Cardinality(Versions) \in Nat /\ number \in [Versions -> 0..Cardinality(Versions)]
      /\ {number[x] : x \in Uploaded} = 1..K
  BY <1>1, TextAssumption, FS_Subset, FS_CardinalityType DEF TypeOK, Uploaded
<1>5. /\ number' \in [Versions -> 0..Cardinality(Versions)]
      /\ Uploaded \subseteq Uploaded'
      /\ {number'[x] : x \in Uploaded'} = 1..Cardinality(Uploaded')
      /\ \A x \in Uploaded : number'[x] > 0
  <2>1. CASE VersionCollides(v, n)
    <3>1. number' = number
      BY <2>1 DEF InsertVersion
    <3>2. Uploaded' = Uploaded
      BY <3>1 DEF Uploaded
    <3> QED
      BY <1>4, <3>1, <3>2 DEF Uploaded
  <2>2. CASE ~VersionCollides(v, n)
    <3>1. number' = [number EXCEPT ![v] = n] /\ v \notin Uploaded
      BY <2>2 DEF InsertVersion, VersionCollides, Uploaded
    <3>2. n = K + 1
      <4>1. \A k \in 1..K : \E x \in Uploaded : number[x] = k
        BY <1>4
      <4>2. n \notin 1..K
        BY <2>2, <4>1 DEF VersionCollides, Uploaded
      <4> QED
        BY <1>3, <1>4, <4>2
    <3>3. Uploaded' = Uploaded \cup {v}
      BY <1>3, <1>4, <3>1, <3>2 DEF Uploaded
    <3>4. Cardinality(Uploaded') = K + 1
      BY <1>4, <3>1, <3>3, FS_AddElement
    <3>5. K + 1 <= Cardinality(Versions)
      BY <3>4, TextAssumption, FS_Subset DEF Uploaded
    <3>6. number'[v] = K + 1 /\ \A x \in Uploaded : number'[x] = number[x]
      BY <1>3, <1>4, <3>1, <3>2 DEF Uploaded
    <3>7. {number'[x] : x \in Uploaded'} = {number[x] : x \in Uploaded} \cup {K + 1}
      BY <3>3, <3>6
    <3>8. 1..(K + 1) = (1..K) \cup {K + 1}
      BY <1>4
    <3>9. number' \in [Versions -> 0..Cardinality(Versions)]
      <4>1. n \in 0..Cardinality(Versions)
        BY <1>4, <3>2, <3>5
      <4> QED
        BY <1>4, <3>1, <4>1
    <3>10. \A x \in Uploaded : number'[x] > 0
      BY <3>6 DEF Uploaded
    <3>11. {number'[x] : x \in Uploaded'} = 1..Cardinality(Uploaded')
      BY <1>4, <3>4, <3>7, <3>8
    <3> QED
      BY <3>3, <3>9, <3>10, <3>11
  <2> QED
    BY <2>1, <2>2
<1>6. TypeOK'
  <2>1. approved' \subseteq Uploaded'
    BY <1>1, <1>2, <1>5 DEF TypeOK, Uploaded
  <2>2. \A c \in chunks' : c.version \in Uploaded /\ c.id \in 1..written'[c.version]
    BY <1>1, <1>2 DEF TypeOK, Typed, indexVars, Uploaded, Chunks
  <2>3. LET all == {x \in Versions : number'[x] > 0}
        IN  {number'[x] : x \in all} = 1..Cardinality(all) /\ approved' \subseteq all
    BY <1>5, <2>1 DEF Uploaded
  <2>4. \A h \in hits' : h.run \in DOMAIN runs' /\ h.chunk \in chunks'
    BY <1>1, <1>2 DEF TypeOK, indexVars, runVars
  <2> QED
    BY <1>1, <1>2, <1>5, <2>2, <2>3, <2>4 DEF TypeOK
<1>7. Typed'
  BY <1>1, <1>2, <1>5, Moved DEF Typed, indexVars, runVars
<1>8. Keeps
  <2>1. \A c \in chunks' : c \in chunks
    BY <1>2 DEF indexVars
  <2>2. \A u \in Versions : written'[u] = written[u] /\ written[u] \in Nat
    BY <1>1, <1>2 DEF indexVars, Typed
  <2> QED
    BY <1>2, <1>5, <2>1, <2>2 DEF Keeps, runVars, indexVars, SameRow
<1>9. OthersWait(w)
  BY <1>1, <1>2, Moved
<1>10. WholeIndex'
  BY <1>1, <1>2, <1>9, IndexKept
<1>11. MarksTraced'
  <2>1. \A h \in hits' : h.included => \E g \in hits : SameRow(g, h) /\ g.included
    BY <1>2 DEF runVars, SameRow
  <2> QED
    BY <1>1, <1>2, <1>9, <2>1, MarksKept
<1> QED
  BY <1>2, <1>6, <1>7, <1>8, <1>9, <1>10, <1>11, StepOf

LEMMA ApproveInv ==
  ASSUME IInv, NEW v \in Versions, Approve(v)
  PROVE  IInv'
<1>1. TypeOK /\ Typed /\ WholeIndex /\ MarksTraced
  BY DEF IInv
<1>2. /\ number[v] > 0 /\ approved' = approved \cup {v}
      /\ UNCHANGED <<provider, number, indexVars, runVars, answers, prompts, pc, call, mem, calls, faults>>
  BY DEF Approve, history, workerVars, bounds
<1>3. TypeOK'
  BY <1>1, <1>2 DEF TypeOK, indexVars, runVars
<1>4. Typed'
  BY <1>1, <1>2 DEF Typed, indexVars, runVars, Uploaded
<1>5. Keeps
  <2>1. \A c \in chunks' : c \in chunks
    BY <1>2 DEF indexVars
  <2>2. \A u \in Versions : written'[u] = written[u] /\ written[u] \in Nat
    BY <1>1, <1>2 DEF indexVars, Typed
  <2> QED
    BY <1>2, <2>1, <2>2 DEF Keeps, runVars, indexVars, SameRow, Uploaded
<1>6. WholeIndex' /\ MarksTraced'
  BY <1>1, <1>2 DEF WholeIndex, MarksTraced, ChunksOf, indexVars, runVars
<1>7. \A w \in Workers : AtItsStep(w)'
  BY <1>1, <1>2, <1>4, <1>5, WaitingKept DEF IInv
<1>8. (\A a \in answers' : AnswerOK(a)') /\ (\A p \in prompts' : PromptOK(p)')
  BY <1>1, <1>2, <1>4, <1>5, SentKept DEF IInv
<1> QED
  BY <1>3, <1>4, <1>6, <1>7, <1>8 DEF IInv

-----------------------------------------------------------------------------
(* The index *)

LEMMA DeleteChunksInv ==
  ASSUME IInv, NEW w \in Workers, DeleteChunks(w)
  PROVE  IInv'
<1> DEFINE v == call[w].version
           mine == {h \in hits : h.chunk.version = v}
<1>1. TypeOK /\ Typed /\ WholeIndex /\ MarksTraced /\ AtItsStep(w)
  BY DEF IInv
<1>2. /\ pc[w] = "delete_chunks"
      /\ UNCHANGED <<provider, sourceVars, written, runs, answers, prompts, calls, faults>>
  BY DEF DeleteChunks, history, bounds
<1>3. call[w] \in IndexCalls /\ v \in Uploaded
  BY <1>1, <1>2 DEF AtItsStep
<1>4. CASE Finish(w) /\ UNCHANGED <<chunks, hits>>
  <2>1. Moves(w, "idle") /\ AtItsStep(w)'
    BY <1>1, <1>4, FinishMoves
  <2>2. calls' \in 0..MaxCalls
    BY <1>1, <1>2 DEF TypeOK
  <2> QED
    BY <1>2, <1>4, <2>1, <2>2, Quiet DEF indexVars, runVars
<1>5. CASE chunks' = chunks \ ChunksOf(v) /\ hits' = hits \ mine /\ Goto(w, "write", NoMem)
  <2>1. "write" \in Labels
    BY DEF Labels
  <2>2. Moves(w, "write") /\ pc'[w] = "write" /\ call'[w] = call[w]
    BY <1>1, <1>5, <2>1, GotoMoves
  <2>3. OthersWait(w) /\ Uploaded' = Uploaded
    BY <1>1, <1>2, <2>2, Moved DEF Uploaded, sourceVars
  <2>4. AtItsStep(w)'
    BY <1>3, <2>2, <2>3 DEF AtItsStep
  <2>5. TypeOK'
    <3>1. \A h \in hits' : h.chunk \in chunks'
      BY <1>1, <1>5 DEF TypeOK, ChunksOf
    <3> QED
      BY <1>1, <1>2, <1>5, <3>1 DEF TypeOK, sourceVars
  <2>6. Typed'
    BY <1>1, <1>2, <1>5, <2>2, <2>3, Moved DEF Typed, sourceVars
  <2>7. Keeps
    <3>1. \A c \in chunks' : c \in chunks /\ c.version # v
      BY <1>5 DEF ChunksOf
    <3>2. \A u \in Versions : written'[u] = written[u] /\ written[u] \in Nat
      BY <1>1, <1>2 DEF Typed
    <3>3. \A h \in hits : h.chunk \in chunks' => h \in hits'
      BY <1>5, <3>1
    <3> QED
      BY <1>2, <2>3, <3>1, <3>2, <3>3 DEF Keeps, SameRow, sourceVars
  <2>8. WholeIndex'
    <3>1. \A u \in Workers : pc[u] = "write" => pc'[u] = "write" /\ call'[u] = call[u]
      BY <1>2, <2>3 DEF OthersWait
    <3>2. ChunksOf(v)' = {} /\ \A x \in Versions \ {v} : ChunksOf(x)' = ChunksOf(x)
      BY <1>5, <2>2 DEF ChunksOf
    <3> QED
      BY <1>1, <1>2, <1>3, <2>2, <3>1, <3>2 DEF WholeIndex
  <2>9. MarksTraced'
    <3>1. \A h \in hits' : h.included => \E g \in hits : SameRow(g, h) /\ g.included
      BY <1>5 DEF SameRow
    <3> QED
      BY <1>1, <1>2, <2>3, <3>1, MarksKept
  <2> QED
    BY <1>2, <2>3, <2>4, <2>5, <2>6, <2>7, <2>8, <2>9, StepOf
<1> QED
  BY <1>4, <1>5 DEF DeleteChunks, AfterDelete

\* The rows of a writing get an id that was never used, and only into a
\* version without chunks.
LEMMA WriteChunksInv ==
  ASSUME IInv, NEW w \in Workers, WriteChunks(w)
  PROVE  IInv'
<1>1. TypeOK /\ Typed /\ WholeIndex /\ MarksTraced /\ AtItsStep(w)
  BY DEF IInv
<1>2. /\ pc[w] = "write" /\ Moves(w, "idle") /\ AtItsStep(w)'
      /\ UNCHANGED <<provider, sourceVars, runVars, answers, prompts, calls, faults>>
  BY <1>1, FinishMoves DEF WriteChunks, history, bounds
<1>3. PICK v \in Versions, p \in Providers :
        v = call[w].version /\ p = call[w].provider /\ v \in Uploaded /\ written[v] \in Nat
  BY <1>1, <1>2 DEF AtItsStep, IndexCalls, Typed, Uploaded
<1> DEFINE new == {[version |-> v, index |-> i, provider |-> p, id |-> written[v] + 1] : i \in ChunkIndexes}
<1>4. OthersWait(w)
  BY <1>1, <1>2, Moved
<1>5. MarksTraced'
  <2>1. \A h \in hits' : h.included => \E g \in hits : SameRow(g, h) /\ g.included
    BY <1>2 DEF runVars, SameRow
  <2> QED
    BY <1>1, <1>2, <1>4, <2>1, MarksKept
<1>6. Uploaded' = Uploaded
  BY <1>2 DEF Uploaded, sourceVars
<1>7. \A u \in Workers \ {w} : pc[u] = "write" => pc'[u] = "write" /\ call'[u] = call[u]
  BY <1>4 DEF OthersWait
<1>8. CASE \E c \in chunks, i \in ChunkIndexes : ChunkCollides(c, v, i)
  <2>1. UNCHANGED indexVars
    BY <1>3, <1>8 DEF WriteChunks
  <2>2. Keeps
    BY <1>1, <1>2, <2>1, NothingChanged
  <2>3. TypeOK' /\ Typed'
    BY <1>1, <1>2, <1>6, <2>1, Moved DEF TypeOK, Typed, indexVars, runVars, sourceVars
  <2>4. WholeIndex'
    <3>1. \A x \in Versions : ChunksOf(x)' = ChunksOf(x) /\ written'[x] = written[x]
      BY <2>1 DEF ChunksOf, indexVars
    <3>2. ChunksOf(v) # {}
      BY <1>8 DEF ChunksOf, ChunkCollides
    <3>3. ASSUME NEW x \in Versions, ChunksOf(x) = {}, written[x] > 0, faults = 0
          PROVE  \E u \in Workers : pc'[u] = "write" /\ call'[u].version = x
      <4>1. PICK u \in Workers : pc[u] = "write" /\ call[u].version = x
        BY <1>1, <3>3 DEF WholeIndex
      <4>2. u # w
        BY <1>3, <3>2, <3>3, <4>1
      <4> QED
        BY <1>7, <4>1, <4>2
    <3> QED
      BY <1>1, <1>2, <3>1, <3>3 DEF WholeIndex
  <2> QED
    BY <1>2, <1>4, <1>5, <2>2, <2>3, <2>4, StepOf
<1>9. CASE ~\E c \in chunks, i \in ChunkIndexes : ChunkCollides(c, v, i)
  <2>1. chunks' = chunks \cup new /\ written' = [written EXCEPT ![v] = written[v] + 1]
    BY <1>3, <1>9 DEF WriteChunks
  <2>2. ChunksOf(v) = {}
    <3>1. PICK i \in ChunkIndexes : TRUE
      BY TextAssumption
    <3>2. SUFFICES ASSUME ChunksOf(v) # {} PROVE FALSE
      OBVIOUS
    <3>3. PICK q \in Providers, n \in Nat :
            ChunksOf(v) = {[version |-> v, index |-> j, provider |-> q, id |-> n] : j \in ChunkIndexes}
      BY <1>1, <1>3, <3>2 DEF WholeIndex
    <3>4. [version |-> v, index |-> i, provider |-> q, id |-> n] \in chunks
      BY <3>3 DEF ChunksOf
    <3> QED
      BY <1>9, <3>4 DEF ChunkCollides
  <2>3. \A c \in new : c \in Chunks /\ c.version = v /\ c.id = written[v] + 1
    BY <1>3 DEF Chunks
  <2>4. written' \in [Versions -> Nat] /\ written'[v] = written[v] + 1
        /\ \A x \in Versions \ {v} : written'[x] = written[x]
    BY <1>1, <1>3, <2>1 DEF Typed
  <2>5. \A c \in chunks : c \in Chunks /\ c.version # v /\ c.version \in Versions
    BY <1>1, <2>2 DEF Typed, ChunksOf, Chunks
  <2>6. TypeOK'
    <3>1. \A c \in chunks' : number'[c.version] > 0 /\ c.id \in 1..written'[c.version]
      BY <1>1, <1>2, <1>3, <2>1, <2>3, <2>4, <2>5 DEF TypeOK, Uploaded, sourceVars
    <3>2. \A h \in hits' : h.run \in DOMAIN runs' /\ h.chunk \in chunks'
      BY <1>1, <1>2, <2>1 DEF TypeOK, runVars
    <3> QED
      BY <1>1, <1>2, <3>1, <3>2 DEF TypeOK, sourceVars
  <2>7. Typed'
    <3>1. chunks' \subseteq Chunks
      BY <2>1, <2>3, <2>5
    <3> QED
      BY <1>1, <1>2, <1>6, <2>4, <3>1, Moved DEF Typed, sourceVars, runVars
  <2>8. Keeps
    <3>1. \A c \in chunks' : c \in chunks \/ c.id > written[c.version]
      BY <1>3, <2>1, <2>3
    <3>2. \A x \in Versions : written[x] <= written'[x]
      BY <1>1, <1>3, <2>4 DEF Typed
    <3> QED
      BY <1>2, <1>6, <3>1, <3>2 DEF Keeps, SameRow, sourceVars, runVars
  <2>9. WholeIndex'
    <3>1. ChunksOf(v)' = new
      <4>1. \A c \in chunks' : c.version = v <=> c \in new
        BY <2>1, <2>3, <2>5
      <4> QED
        BY <2>1, <4>1 DEF ChunksOf
    <3>2. ASSUME NEW x \in Versions \ {v} PROVE ChunksOf(x)' = ChunksOf(x)
      BY <2>1, <2>3 DEF ChunksOf
    <3>3. PICK i \in ChunkIndexes : TRUE
      BY TextAssumption
    <3>4. new # {} /\ written[v] + 1 \in 1..written'[v]
      <4>1. [version |-> v, index |-> i, provider |-> p, id |-> written[v] + 1] \in new
        OBVIOUS
      <4>2. written[v] + 1 \in 1..(written[v] + 1)
        BY <1>3
      <4> QED
        BY <2>4, <4>1, <4>2
    <3>5. ASSUME NEW x \in Versions \ {v}, ChunksOf(x) = {}, written[x] > 0, faults = 0
          PROVE  \E u \in Workers : pc'[u] = "write" /\ call'[u].version = x
      <4>1. PICK u \in Workers : pc[u] = "write" /\ call[u].version = x
        BY <1>1, <3>5 DEF WholeIndex
      <4> QED
        BY <1>3, <1>7, <4>1
    <3>6. ASSUME NEW x \in Versions
          PROVE  IF ChunksOf(x)' # {}
                   THEN \E q \in Providers, n \in 1..written'[x] :
                          ChunksOf(x)' = {[version |-> x, index |-> j, provider |-> q, id |-> n] :
                                            j \in ChunkIndexes}
                   ELSE written'[x] > 0 /\ faults' = 0 =>
                          \E u \in Workers : pc'[u] = "write" /\ call'[u].version = x
      <4>1. CASE x = v
        BY <3>1, <3>4, <4>1
      <4>2. CASE x # v
        BY <1>1, <1>2, <2>4, <3>2, <3>5, <4>2 DEF WholeIndex
      <4> QED
        BY <4>1, <4>2
    <3> QED
      BY <3>6 DEF WholeIndex
  <2> QED
    BY <1>2, <1>4, <1>5, <2>6, <2>7, <2>8, <2>9, StepOf
<1> QED
  BY <1>8, <1>9

LEMMA EmbedFailsInv ==
  ASSUME IInv, NEW w \in Workers, EmbedFails(w)
  PROVE  IInv'
<1>1. TypeOK /\ Typed /\ WholeIndex
  BY DEF IInv
<1>2. /\ Moves(w, "idle") /\ AtItsStep(w)' /\ faults < MaxFaults /\ faults' = faults + 1
      /\ UNCHANGED <<provider, sourceVars, indexVars, runVars, answers, prompts, calls>>
  BY <1>1, FinishMoves DEF EmbedFails, history
<1>3. Keeps /\ OthersWait(w)
  BY <1>1, <1>2, NothingChanged, Moved
<1>4. faults' \in 0..MaxFaults /\ faults' > 0
  BY <1>1, <1>2, KnowledgeAssumption DEF TypeOK
<1>5. TypeOK'
  BY <1>1, <1>2, <1>4 DEF TypeOK, sourceVars, indexVars, runVars
<1>6. Typed'
  BY <1>1, <1>2, Moved DEF Typed, Uploaded, sourceVars, indexVars, runVars
<1>7. WholeIndex'
  BY <1>1, <1>2, <1>4 DEF WholeIndex, ChunksOf, indexVars
<1>8. MarksTraced'
  BY <1>4 DEF MarksTraced
<1> QED
  BY <1>2, <1>3, <1>5, <1>6, <1>7, <1>8, StepOf

-----------------------------------------------------------------------------
(* Retrieval runs and their hits *)

LEMMA KeywordQueryInv ==
  ASSUME IInv, NEW w \in Workers, KeywordQuery(w)
  PROVE  IInv'
<1>1. TypeOK /\ Typed /\ WholeIndex /\ MarksTraced /\ AtItsStep(w)
  BY DEF IInv
<1>2. /\ pc[w] = "keyword"
      /\ UNCHANGED <<provider, sourceVars, indexVars, hits, answers, prompts, calls, faults>>
  BY DEF KeywordQuery, history, bounds
<1>3. /\ call[w] \in RetrieveCalls /\ mem[w] \subseteq Old /\ ProvidedBy(call[w].provider, mem[w])
  BY <1>1, <1>2 DEF AtItsStep
<1>4. PICK p \in Providers : p = call[w].provider
  BY <1>3 DEF RetrieveCalls
<1>5. PICK id : id = Cardinality(DOMAIN runs) + 1
  OBVIOUS
<1>6. PICK candidates : candidates =
        mem[w] \cup {c \in chunks : Searchable(c, p) /\ c.version \in call[w].keywords}
  OBVIOUS
<1>7. PICK returned \in SUBSET candidates :
        Goto(w, "hits", [run |-> id, left |-> candidates, returned |-> returned])
  BY <1>4, <1>5, <1>6 DEF KeywordQuery, kSubset
<1>8. /\ id \notin DOMAIN runs /\ id \in Nat /\ id \in DOMAIN runs' /\ DOMAIN runs' = 1..id
      /\ runs'[id] \in Runs /\ runs'[id].provider = p
      /\ \A r \in DOMAIN runs : r \in DOMAIN runs' /\ runs'[r] = runs[r]
  <2>1. id \in Nat /\ id \notin DOMAIN runs /\ id \in 1..id /\ DOMAIN runs \cup {id} = 1..id
    BY <1>1, <1>5 DEF Typed
  <2>2. PICK b \in BOOLEAN :
          runs' = [r \in DOMAIN runs \cup {id} |->
                     IF r = id THEN [exec |-> call[w].exec, mode |-> call[w].mode,
                                     insufficient |-> b, provider |-> p]
                     ELSE runs[r]]
    BY <1>4, <1>5 DEF KeywordQuery
  <2>3. runs'[id] = [exec |-> call[w].exec, mode |-> call[w].mode, insufficient |-> b, provider |-> p]
    BY <2>2
  <2>4. runs'[id] \in Runs /\ runs'[id].provider = p
    BY <1>3, <2>3 DEF RetrieveCalls, Runs
  <2> QED
    BY <2>1, <2>2, <2>4
<1>9. "hits" \in Labels
  BY DEF Labels
<1>10. /\ Moves(w, "hits") /\ pc'[w] = "hits" /\ call'[w] = call[w]
       /\ mem'[w] = [run |-> id, left |-> candidates, returned |-> returned]
  BY <1>1, <1>7, <1>9, GotoMoves
<1>11. OthersWait(w) /\ Old' = Old /\ Uploaded' = Uploaded
  BY <1>1, <1>2, <1>10, Moved DEF Old, Uploaded, sourceVars, indexVars
<1>12. candidates \subseteq Old /\ ProvidedBy(p, candidates)
  <2> SUFFICES ASSUME NEW c \in candidates PROVE c \in Old /\ c.provider = p
    BY DEF ProvidedBy
  <2>1. CASE c \in mem[w]
    BY <1>3, <1>4, <2>1 DEF ProvidedBy
  <2>2. CASE c \in chunks /\ Searchable(c, p)
    <3>1. c \in Chunks /\ c.id <= written[c.version]
      BY <1>1, <2>2 DEF Typed, TypeOK, Chunks
    <3> QED
      BY <2>2, <3>1 DEF Old, Searchable
  <2> QED
    BY <1>6, <2>1, <2>2
<1>13. OneWriting(returned) \/ \E c \in candidates : c \notin chunks
  <2> SUFFICES ASSUME candidates \subseteq chunks, NEW c \in returned, NEW d \in returned,
                      c.version = d.version
               PROVE  c.id = d.id
    BY DEF OneWriting
  <2>1. PICK v \in Versions : c \in ChunksOf(v) /\ d \in ChunksOf(v)
    BY <1>1, <1>7 DEF ChunksOf, Typed, Chunks
  <2>2. PICK q \in Providers, n \in 1..written[v] :
          ChunksOf(v) = {[version |-> v, index |-> i, provider |-> q, id |-> n] : i \in ChunkIndexes}
    BY <1>1, <2>1 DEF WholeIndex
  <2>3. \A x \in ChunksOf(v) : x.id = n
    BY <2>2
  <2> QED
    BY <2>1, <2>3
<1>14. WritingHits(mem[w])'
  <2>1. /\ DOMAIN mem'[w] = {"run", "left", "returned"}
        /\ mem'[w].run = id /\ mem'[w].left = candidates /\ mem'[w].returned = returned
    BY <1>10
  <2>2. chunks' = chunks /\ hits' = hits
    BY <1>2 DEF indexVars
  <2>3. ReturnedBy(id, returned \ candidates)'
    BY <1>7 DEF ReturnedBy
  <2>4. id \in DOMAIN runs' /\ runs'[id].provider = p
    BY <1>8
  <2>5. candidates \cup returned = candidates /\ returned \subseteq Old
    BY <1>12
  <2> QED
    BY <1>11, <1>12, <1>13, <2>1, <2>2, <2>3, <2>4, <2>5 DEF WritingHits, OneWriting, ProvidedBy, ReturnedBy
<1>15. AtItsStep(w)'
  BY <1>10, <1>14 DEF AtItsStep
<1>16. TypeOK'
  BY <1>1, <1>2, <1>8 DEF TypeOK, sourceVars, indexVars
<1>17. Typed'
  <2>1. Cardinality(1..id) = id
    BY <1>8, FS_Interval
  <2>2. Cardinality(DOMAIN runs') \in Nat /\ DOMAIN runs' = 1..Cardinality(DOMAIN runs')
    BY <1>8, <2>1
  <2>3. \A r \in DOMAIN runs' : runs'[r] \in Runs
    <3>1. \A r \in DOMAIN runs' : r = id \/ r \in DOMAIN runs
      BY <1>1, <1>5, <1>8 DEF Typed
    <3> QED
      BY <1>1, <1>8, <3>1 DEF Typed
  <2> QED
    BY <1>1, <1>2, <1>10, <1>11, <2>2, <2>3, Moved DEF Typed, sourceVars, indexVars
<1>18. Keeps
  <2>1. \A c \in chunks' : c \in chunks
    BY <1>2 DEF indexVars
  <2>2. \A u \in Versions : written'[u] = written[u] /\ written[u] \in Nat
    BY <1>1, <1>2 DEF indexVars, Typed
  <2> QED
    BY <1>2, <1>8, <1>11, <2>1, <2>2 DEF Keeps, sourceVars, SameRow
<1>19. WholeIndex'
  BY <1>1, <1>2, <1>11, IndexKept
<1>20. MarksTraced'
  <2>1. \A h \in hits' : h.included => \E g \in hits : SameRow(g, h) /\ g.included
    BY <1>2 DEF SameRow
  <2> QED
    BY <1>1, <1>2, <1>11, <2>1, MarksKept
<1> QED
  BY <1>2, <1>11, <1>15, <1>16, <1>17, <1>18, <1>19, <1>20, StepOf

LEMMA InsertHitInv ==
  ASSUME IInv, NEW w \in Workers, InsertHit(w)
  PROVE  IInv'
<1>1. TypeOK /\ Typed /\ WholeIndex /\ MarksTraced /\ AtItsStep(w)
  BY DEF IInv
<1>2. /\ pc[w] = "hits" /\ WritingHits(mem[w])
      /\ UNCHANGED <<provider, sourceVars, indexVars, runs, answers, prompts, calls, faults>>
  BY <1>1 DEF InsertHit, AtItsStep, history, bounds
<1>3. PICK m : m = mem[w]
  OBVIOUS
<1>4. CASE Finish(w) /\ UNCHANGED hits
  <2>1. Moves(w, "idle") /\ AtItsStep(w)'
    BY <1>1, <1>4, FinishMoves
  <2>2. calls' \in 0..MaxCalls
    BY <1>1, <1>2 DEF TypeOK
  <2> QED
    BY <1>2, <1>4, <2>1, <2>2, Quiet DEF runVars
<1>5. ASSUME NEW c \in m.left, c \in chunks,
             hits' = hits \cup {[run |-> m.run, chunk |-> c, included |-> FALSE,
                                returned |-> c \in m.returned]},
             Goto(w, "hits", [m EXCEPT !.left = m.left \ {c}])
      PROVE  IInv'
  <2>1. PICK h : /\ h = [run |-> m.run, chunk |-> c, included |-> FALSE, returned |-> c \in m.returned]
                 /\ hits' = hits \cup {h}
    BY <1>5
  <2>2. WritingHits(m) /\ m.run \in DOMAIN runs /\ c \in Old /\ c \in Chunks /\ m.run \in Nat
    BY <1>1, <1>2, <1>3 DEF WritingHits, Old, Typed
  <2>3. h \in Hits /\ h.run = m.run /\ h.chunk = c /\ ~h.included /\ (h.returned <=> c \in m.returned)
    <3>1. CASE c \in m.returned
      <4>1. h.returned = TRUE
        <5>1. (c \in m.returned) = TRUE
          BY <3>1
        <5>2. h.returned = (c \in m.returned)
          BY <2>1, Zenon
        <5> QED
          BY <5>1, <5>2, Zenon
      <4> QED
        BY <2>1, <2>2, <3>1, <4>1 DEF Hits
    <3>2. CASE c \notin m.returned
      <4>1. h.returned = FALSE
        <5>1. (c \in m.returned) = FALSE
          BY <3>2
        <5>2. h.returned = (c \in m.returned)
          BY <2>1, Zenon
        <5> QED
          BY <5>1, <5>2, Zenon
      <4> QED
        BY <2>1, <2>2, <3>2, <4>1 DEF Hits
    <3> QED
      BY <3>1, <3>2
  <2>4. "hits" \in Labels
    BY DEF Labels
  <2>5. PICK n : n = [m EXCEPT !.left = m.left \ {c}]
    OBVIOUS
  <2>6. Moves(w, "hits") /\ pc'[w] = "hits" /\ call'[w] = call[w] /\ mem'[w] = n
    BY <1>1, <1>5, <2>4, <2>5, GotoMoves
  <2>7. OthersWait(w) /\ Old' = Old /\ Uploaded' = Uploaded
    BY <1>1, <1>2, <2>6, Moved DEF Old, Uploaded, sourceVars, indexVars
  <2>8. Keeps
    <3>1. \A d \in chunks' : d \in chunks
      BY <1>2 DEF indexVars
    <3>2. \A u \in Versions : written'[u] = written[u] /\ written[u] \in Nat
      BY <1>1, <1>2 DEF indexVars, Typed
    <3> QED
      BY <1>2, <2>1, <2>7, <3>1, <3>2 DEF Keeps, sourceVars, SameRow
  <2>9. TypeOK'
    <3>1. \A g \in hits' : g.run \in DOMAIN runs' /\ g.chunk \in chunks'
      BY <1>1, <1>2, <1>5, <2>1, <2>2, <2>3 DEF TypeOK, indexVars
    <3> QED
      BY <1>1, <1>2, <3>1 DEF TypeOK, sourceVars, indexVars
  <2>10. Typed'
    <3>1. c.version \in approved
      BY <2>2 DEF Old
    <3> QED
      BY <1>1, <1>2, <2>1, <2>3, <2>6, <2>7, <3>1, Moved DEF Typed, sourceVars, indexVars
  <2>11. WholeIndex'
    BY <1>1, <1>2, <2>7, IndexKept
  <2>12. MarksTraced'
    <3>1. \A g \in hits' : g.included => \E f \in hits : SameRow(f, g) /\ f.included
      BY <2>1, <2>3 DEF SameRow
    <3> QED
      BY <1>1, <1>2, <2>7, <3>1, MarksKept
  <2>13. WritingHits(n)'
    <3>1. DOMAIN m = {"run", "left", "returned"}
      BY <2>2 DEF WritingHits
    <3>2. /\ DOMAIN n = {"run", "left", "returned"}
          /\ n.run = m.run /\ n.left = m.left \ {c} /\ n.returned = m.returned
      BY <2>5, <3>1
    <3>3. WritingHits(m)'
      BY <1>1, <2>2, <2>8, <2>10, WritingKept
    <3>4. ReturnedBy(m.run, m.returned \ (m.left \ {c}))'
      <4>1. ReturnedBy(m.run, m.returned \ m.left)'
        BY <3>3 DEF WritingHits
      <4>2. c \in m.returned => \E g \in hits' : g.run = m.run /\ g.chunk = c /\ g.returned
        BY <2>1, <2>3
      <4> QED
        BY <4>1, <4>2 DEF ReturnedBy
    <3>5. OneWriting(m.returned) \/ \E d \in m.left \ {c} : d \notin chunks'
      BY <1>2, <1>5, <2>2 DEF WritingHits, indexVars
    <3> QED
      BY <3>2, <3>3, <3>4, <3>5 DEF WritingHits, ProvidedBy, OneWriting
  <2>14. AtItsStep(w)'
    BY <2>6, <2>13 DEF AtItsStep
  <2> QED
    BY <1>2, <2>7, <2>8, <2>9, <2>10, <2>11, <2>12, <2>14, StepOf
<1> QED
  BY <1>3, <1>4, <1>5 DEF InsertHit, HitAllowed

-----------------------------------------------------------------------------
(* The context of a model call *)

\* h becomes g when the chunks ids of run r are marked.
Becomes(h, g, r, ids) ==
  /\ g \in Hits /\ SameRow(g, h)
  /\ g.returned = h.returned
  /\ g.included <=> (h.included \/ Marked(h, r, ids))

LEMMA MarkOne ==
  ASSUME NEW h \in Hits, NEW r, NEW ids
  PROVE  Becomes(h, [h EXCEPT !.included = @ \/ Marked(h, r, ids)], r, ids)
<1>1. PICK b : b = (h.included \/ Marked(h, r, ids))
  OBVIOUS
<1>2. PICK g : g = [h EXCEPT !.included = b]
  OBVIOUS
<1>3. g = [h EXCEPT !.included = @ \/ Marked(h, r, ids)]
  BY <1>1, <1>2, Zenon
<1>4. b \in BOOLEAN /\ (b <=> (h.included \/ Marked(h, r, ids)))
  BY <1>1, Zenon
<1>5. /\ g.run = h.run /\ g.chunk = h.chunk /\ g.returned = h.returned /\ g.included = b
      /\ g \in Hits
  BY <1>2, <1>4 DEF Hits
<1>6. Becomes(h, g, r, ids)
  BY <1>4, <1>5 DEF Becomes, SameRow
<1> QED
  BY <1>3, <1>6, Zenon

LEMMA MarkIncludedInv ==
  ASSUME IInv, NEW w \in Workers, MarkIncluded(w)
  PROVE  IInv'
<1>1. TypeOK /\ Typed /\ WholeIndex /\ MarksTraced /\ AtItsStep(w)
  BY DEF IInv
<1>2. /\ pc[w] = "mark"
      /\ UNCHANGED <<provider, sourceVars, indexVars, runs, answers, prompts, calls, faults>>
  BY DEF MarkIncluded, history, bounds
<1>3. PICK r, ids : r = call[w].run /\ ids = mem[w]
  OBVIOUS
<1>4. "record" \in Labels
  BY DEF Labels
<1>5. Moves(w, "record") /\ pc'[w] = "record" /\ call'[w] = call[w] /\ mem'[w] = mem[w]
  BY <1>1, <1>4, GotoMoves DEF MarkIncluded
<1>6. /\ call[w] \in ModelCalls /\ r \in DOMAIN runs \cup {0}
      /\ Evidenced(call[w].exec, r, ids) /\ ReturnedBy(r, ids)
  BY <1>1, <1>2, <1>3 DEF AtItsStep
<1>7. hits' = {[h EXCEPT !.included = @ \/ Marked(h, r, ids)] : h \in hits}
  BY <1>3 DEF MarkIncluded
<1>8. /\ \A h \in hits : \E g \in hits' : Becomes(h, g, r, ids)
      /\ \A g \in hits' : \E h \in hits : Becomes(h, g, r, ids)
  <2> DEFINE G(h) == [h EXCEPT !.included = @ \/ Marked(h, r, ids)]
  <2>1. \A h \in hits : Becomes(h, G(h), r, ids)
    BY <1>1, MarkOne DEF Typed
  <2>2. hits' = {G(h) : h \in hits}
    BY <1>7
  <2> HIDE DEF G
  <2> QED
    BY <2>1, <2>2
<1>9. OthersWait(w) /\ Old' = Old /\ Uploaded' = Uploaded
  BY <1>1, <1>2, <1>5, Moved DEF Old, Uploaded, sourceVars, indexVars
<1>10. Keeps
  <2>1. \A d \in chunks' : d \in chunks
    BY <1>2 DEF indexVars
  <2>2. \A u \in Versions : written'[u] = written[u] /\ written[u] \in Nat
    BY <1>1, <1>2 DEF indexVars, Typed
  <2> QED
    BY <1>2, <1>8, <1>9, <2>1, <2>2 DEF Keeps, sourceVars, Becomes
<1>11. TypeOK'
  <2>1. \A g \in hits' : g.run \in DOMAIN runs' /\ g.chunk \in chunks'
    BY <1>1, <1>2, <1>8 DEF TypeOK, indexVars, Becomes, SameRow
  <2> QED
    BY <1>1, <1>2, <2>1 DEF TypeOK, sourceVars, indexVars
<1>12. Typed'
  <2>1. hits' \subseteq Hits /\ \A g \in hits' : g.chunk.version \in approved
    BY <1>1, <1>8 DEF Typed, Becomes, SameRow
  <2> QED
    BY <1>1, <1>2, <1>5, <1>9, <2>1, Moved DEF Typed, sourceVars, indexVars
<1>13. WholeIndex'
  BY <1>1, <1>2, <1>9, IndexKept
<1>14. MarksTraced'
  <2>1. \A v \in Workers : pc[v] = "record" => pc'[v] = "record" /\ call'[v] = call[v] /\ mem'[v] = mem[v]
    BY <1>2, <1>9 DEF OthersWait
  <2>2. ASSUME NEW g \in hits', g.included
        PROVE  \/ \E p \in prompts : p.run = g.run /\ g.chunk \in p.chunks
               \/ \E v \in Workers : pc'[v] = "record" /\ call'[v].run = g.run /\ g.chunk \in mem'[v]
               \/ faults > 0
    <3>1. PICK h \in hits : Becomes(h, g, r, ids)
      BY <1>8
    <3>2. CASE h.included
      BY <1>1, <2>1, <3>1, <3>2 DEF MarksTraced, Becomes, SameRow
    <3>3. CASE ~h.included
      BY <1>3, <1>5, <2>2, <3>1, <3>3 DEF Becomes, SameRow, Marked
    <3> QED
      BY <3>2, <3>3
  <2> QED
    BY <1>2, <2>2 DEF MarksTraced
<1>15. AtItsStep(w)'
  <2>1. Evidenced(call[w].exec, call[w].run, mem[w])'
    BY <1>2, <1>3, <1>5, <1>6, <1>9 DEF Evidenced, UsableRun
  <2>2. IncludedBy(r, ids)'
    <3> SUFFICES ASSUME NEW c \in ids, c \in chunks
                 PROVE  \E g \in hits' : g.run = r /\ g.chunk = c /\ g.included
      BY <1>2 DEF IncludedBy, indexVars
    <3>1. PICK h \in hits : h.run = r /\ h.chunk = c /\ h.returned
      BY <1>6 DEF ReturnedBy
    <3>2. PICK g \in hits' : Becomes(h, g, r, ids)
      BY <1>8
    <3> QED
      BY <3>1, <3>2 DEF Becomes, SameRow, Marked
  <2>3. IncludedBy(call[w].run, mem[w])'
    BY <1>3, <1>5, <2>2 DEF IncludedBy
  <2> QED
    BY <1>2, <1>3, <1>5, <1>6, <2>1, <2>3 DEF AtItsStep
<1> QED
  BY <1>2, <1>9, <1>10, <1>11, <1>12, <1>13, <1>14, <1>15, StepOf

LEMMA RecordStartedInv ==
  ASSUME IInv, NEW w \in Workers, RecordStarted(w)
  PROVE  IInv'
<1>1. TypeOK /\ Typed /\ WholeIndex /\ MarksTraced /\ AtItsStep(w)
  BY DEF IInv
<1>2. /\ pc[w] = "record" /\ Moves(w, "idle") /\ AtItsStep(w)'
      /\ UNCHANGED <<provider, sourceVars, indexVars, runVars, answers, calls, faults>>
  BY <1>1, FinishMoves DEF RecordStarted, bounds
<1>3. PICK p : /\ p.exec = call[w].exec /\ p.run = call[w].run /\ p.chunks = mem[w]
               /\ prompts' = prompts \cup {p}
  BY DEF RecordStarted
<1>4. PromptOK(p)
  <2>1. Evidenced(call[w].exec, call[w].run, mem[w]) /\ IncludedBy(call[w].run, mem[w])
    BY <1>1, <1>2 DEF AtItsStep
  <2> QED
    BY <1>3, <2>1 DEF PromptOK, Evidenced, IncludedBy
<1>5. Keeps /\ OthersWait(w)
  BY <1>1, <1>2, NothingChanged, Moved
<1>6. TypeOK' /\ Typed'
  <2>1. TypeOK'
    BY <1>1, <1>2 DEF TypeOK, sourceVars, indexVars, runVars
  <2>2. Typed'
    BY <1>1, <1>2, Moved DEF Typed, Uploaded, sourceVars, indexVars, runVars
  <2> QED
    BY <2>1, <2>2
<1>7. PromptOK(p)'
  BY <1>1, <1>4, <1>5, <1>6, SentKept
<1>8. WholeIndex'
  BY <1>1, <1>2, <1>5, IndexKept
<1>9. MarksTraced'
  <2>1. \A v \in Workers \ {w} :
          pc[v] = "record" => pc'[v] = "record" /\ call'[v] = call[v] /\ mem'[v] = mem[v]
    BY <1>5 DEF OthersWait
  <2> SUFFICES ASSUME NEW h \in hits, h.included
               PROVE  \/ \E q \in prompts' : q.run = h.run /\ h.chunk \in q.chunks
                      \/ \E v \in Workers : pc'[v] = "record" /\ call'[v].run = h.run /\ h.chunk \in mem'[v]
                      \/ faults > 0
    BY <1>2 DEF MarksTraced, runVars
  <2>2. CASE pc[w] = "record" /\ call[w].run = h.run /\ h.chunk \in mem[w]
    BY <1>3, <2>2
  <2>3. CASE ~(pc[w] = "record" /\ call[w].run = h.run /\ h.chunk \in mem[w])
    BY <1>1, <1>3, <2>1, <2>3 DEF MarksTraced
  <2> QED
    BY <2>2, <2>3
<1> QED
  BY <1>2, <1>3, <1>5, <1>6, <1>7, <1>8, <1>9, StepOf

-----------------------------------------------------------------------------
(* Restarts, and the theorems *)

LEMMA RestartInv ==
  ASSUME IInv, Restart
  PROVE  IInv'
<1>1. TypeOK /\ Typed /\ WholeIndex
  BY DEF IInv
<1>2. /\ provider' \in Providers /\ faults < MaxFaults /\ faults' = faults + 1
      /\ UNCHANGED <<sourceVars, indexVars, runVars, answers, prompts, calls>>
      /\ pc' = [w \in Workers |-> "idle"]
      /\ call' = [w \in Workers |-> NoCall] /\ mem' = [w \in Workers |-> NoMem]
  BY DEF Restart, history
<1>3. Keeps
  BY <1>1, <1>2, NothingChanged
<1>4. faults' \in 0..MaxFaults /\ faults' > 0
  BY <1>1, <1>2, KnowledgeAssumption DEF TypeOK
<1>5. TypeOK'
  BY <1>1, <1>2, <1>4 DEF TypeOK, sourceVars, indexVars, runVars
<1>6. Typed'
  BY <1>1, <1>2 DEF Typed, Labels, Uploaded, sourceVars, indexVars, runVars
<1>7. WholeIndex'
  BY <1>1, <1>2, <1>4 DEF WholeIndex, ChunksOf, indexVars
<1>8. MarksTraced'
  BY <1>4 DEF MarksTraced
<1>9. \A w \in Workers : AtItsStep(w)'
  BY <1>2, IdleStep
<1>10. (\A a \in answers' : AnswerOK(a)') /\ (\A p \in prompts' : PromptOK(p)')
  BY <1>1, <1>2, <1>3, <1>6, SentKept DEF IInv
<1> QED
  BY <1>5, <1>6, <1>7, <1>8, <1>9, <1>10 DEF IInv

LEMMA InitInv == Init => IInv
<1> SUFFICES ASSUME Init PROVE IInv
  OBVIOUS
<1>1. Uploaded = {FirstVersion}
  BY KnowledgeAssumption DEF Init, Uploaded
<1>2. Cardinality(Uploaded) = 1 /\ 1 <= Cardinality(Versions) /\ Cardinality(Versions) \in Nat
  <2>1. Uploaded \in SUBSET Versions
    BY DEF Uploaded
  <2>2. Cardinality({FirstVersion}) = 1
    BY FS_Singleton
  <2>3. Cardinality(Uploaded) <= Cardinality(Versions) /\ Cardinality(Versions) \in Nat
    BY <2>1, TextAssumption, FS_Subset, FS_CardinalityType
  <2> QED
    BY <1>1, <2>2, <2>3
<1>3. TypeOK
  <2>1. number \in [Versions -> 0..Cardinality(Versions)]
    BY <1>2 DEF Init
  <2>2. {number[v] : v \in Uploaded} = 1..Cardinality(Uploaded)
    BY <1>1, <1>2, KnowledgeAssumption DEF Init
  <2>3. LET all == {v \in Versions : number[v] > 0}
        IN  {number[v] : v \in all} = 1..Cardinality(all)
    BY <2>2 DEF Uploaded
  <2>4. 0 \in 0..MaxCalls /\ 0 \in 0..MaxFaults
    BY KnowledgeAssumption
  <2>5. approved = {} /\ chunks = {} /\ hits = {} /\ calls = 0 /\ faults = 0 /\ provider \in Providers
    BY DEF Init
  <2> QED
    BY <2>1, <2>3, <2>4, <2>5 DEF TypeOK
<1>4. Typed
  <2>1. DOMAIN runs = {} /\ 1..0 = {}
    BY DEF Init
  <2>2. Cardinality(DOMAIN runs) = 0
    BY <2>1, FS_EmptySet
  <2> QED
    BY <1>1, <2>1, <2>2 DEF Init, Typed, Labels
<1>5. WholeIndex /\ MarksTraced
  BY DEF Init, WholeIndex, MarksTraced, ChunksOf
<1>6. \A w \in Workers : AtItsStep(w)
  BY DEF Init, AtItsStep
<1> QED
  BY <1>3, <1>4, <1>5, <1>6 DEF Init, IInv

LEMMA NextInv == IInv /\ [Next]_vars => IInv'
<1> SUFFICES ASSUME IInv, [Next]_vars PROVE IInv'
  OBVIOUS
<1>1. ASSUME NEW w \in Workers, Begin(w) \/ Serve(w) \/ EmbedFails(w) PROVE IInv'
  BY <1>1, BeginInv, EmbedFailsInv, ReadInv, InsertVersionInv, DeleteChunksInv, WriteChunksInv,
     KeywordQueryInv, InsertHitInv, MarkIncludedInv, RecordStartedInv
  DEF Serve
<1>2. CASE UNCHANGED vars
  <2>1. TypeOK' /\ Typed' /\ WholeIndex' /\ MarksTraced'
    <3>1. TypeOK'
      BY <1>2 DEF IInv, TypeOK, vars, sourceVars, indexVars, runVars, bounds
    <3>2. Typed'
      BY <1>2 DEF IInv, Typed, Uploaded, vars, sourceVars, indexVars, runVars, workerVars
    <3>3. WholeIndex'
      BY <1>2 DEF IInv, WholeIndex, ChunksOf, vars, indexVars, workerVars, bounds
    <3>4. MarksTraced'
      BY <1>2 DEF IInv, MarksTraced, vars, runVars, history, workerVars, bounds
    <3> QED
      BY <3>1, <3>2, <3>3, <3>4
  <2>2. Keeps
    BY <1>2, NothingChanged DEF IInv, vars
  <2>3. \A w \in Workers : AtItsStep(w)'
    BY <1>2, <2>1, <2>2, WaitingKept DEF IInv, vars, workerVars
  <2>4. (\A a \in answers' : AnswerOK(a)') /\ (\A p \in prompts' : PromptOK(p)')
    BY <1>2, <2>1, <2>2, SentKept DEF IInv, vars, history
  <2> QED
    BY <2>1, <2>3, <2>4 DEF IInv
<1> QED
  BY <1>1, <1>2, ApproveInv, RestartInv DEF Next

LEMMA AlwaysInv == Spec => []IInv
BY InitInv, NextInv, PTL DEF Spec

\* The versions of a source are numbered 1, 2, .. without gap, although
\* uploads choose their number from a row that may be stale, and hits and
\* chunks refer to rows whatever a reindex deletes between two statements.
THEOREM KnowledgeTypes == Spec => []TypeOK
<1>1. IInv => TypeOK
  BY DEF IInv
<1> QED
  BY <1>1, AlwaysInv, PTL

\* A version has the chunks of one writing or none, and between reindexes
\* somebody is about to write them, whatever interleaves.
THEOREM IndexIsWhole == Spec => []WholeIndex
<1>1. IInv => WholeIndex
  BY DEF IInv
<1> QED
  BY <1>1, AlwaysInv, PTL

\* retrieve never answers with two writings of a version, and what it
\* returned has its hits.
THEOREM AnswersAreConsistent == Spec => []AnswerConsistent
<1>1. IInv => AnswerConsistent
  BY DEF IInv, AnswerOK, OneWriting, ProvidedBy, ReturnedBy, AnswerConsistent
<1> QED
  BY <1>1, AlwaysInv, PTL

\* Every prompt holds approved, returned text of a run of its execution, and
\* the marks of executeModelForExecution agree with the prompts.
THEOREM PromptsAreTraced == Spec => []PromptIsTraced
<1>1. IInv => PromptIsTraced
  <2> SUFFICES ASSUME IInv PROVE PromptIsTraced
    OBVIOUS
  <2>1. \A p \in prompts : p.chunks # {} =>
          /\ runs[p.run].exec = p.exec
          /\ ~(runs[p.run].mode = "strict" /\ runs[p.run].insufficient)
          /\ \A c \in p.chunks : c.version \in approved
    BY DEF IInv, PromptOK, Evidenced, UsableRun, Old
  <2>2. \A p \in prompts : \A c \in p.chunks \cap chunks :
          \E h \in hits : h.run = p.run /\ h.chunk = c /\ h.included
    BY DEF IInv, PromptOK, IncludedBy
  <2> QED
    BY <2>1, <2>2 DEF IInv, MarksTraced, PromptIsTraced
<1> QED
  BY <1>1, AlwaysInv, PTL
=============================================================================
