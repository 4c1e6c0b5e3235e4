---------------------------- MODULE LedgerProofs ----------------------------
(***************************************************************************)
(* Proofs about Ledger, for any number of organizations, executions and    *)
(* connections and any checkpoint interval.                                *)
(*                                                                         *)
(* None of TypeOK, ChainIntact and HeadFresh is inductive alone.  That a   *)
(* commit keeps the chain intact needs the head the transaction read to be *)
(* the committed one (HeadFresh); that it stays so needs the lock that     *)
(* HeadFresh also records, and the types.  IInv is their conjunction.      *)
(***************************************************************************)
EXTENDS Ledger, SequenceTheorems, FiniteSetTheorems, TLAPS

-----------------------------------------------------------------------------
(* Jobs *)

\* What a busy client was called with is a job on one of the organizations.
LEMMA BusyJob ==
  ASSUME TypeOK, NEW c \in Clients, pc[c] # "idle"
  PROVE  /\ job[c] \in Jobs
         /\ job[c].exec \in Executions
         /\ OrgOfJob(c) \in Orgs
<1>1. job[c] \in Jobs
  BY DEF TypeOK
<1>2. job[c].exec \in Executions
  BY <1>1 DEF Jobs
<1> QED
  BY <1>1, <1>2, OrgOfAssumption DEF OrgOfJob

\* A job that writes a status writes one of the table's statuses.
LEMMA JobTarget ==
  ASSUME NEW j \in Jobs, j.type # "action_completed"
  PROVE  j.target \in Statuses
<1>1. CASE j.type = StatusOnly
  <2>1. j.target = "running"
    BY <1>1 DEF Jobs, StatusOnly, EntryTypes
  <2> QED
    BY <2>1 DEF Statuses
<1>2. CASE j.type # StatusOnly
  <2>1. j.type \in EntryTypes /\ j.target \in Targets(j.type)
    BY <1>2 DEF Jobs
  <2> QED
    BY <2>1 DEF EntryTypes, Targets, Statuses, TerminalStatuses
<1> QED
  BY <1>1, <1>2

\* A client that is about to commit an entry computes it from the head.
LEMMA CommitsFromHead ==
  ASSUME IInv, NEW c \in Clients, pc[c] = "commit", job[c].type # StatusOnly
  PROVE  /\ OrgOfJob(c) \in Orgs
         /\ chainLock[OrgOfJob(c)] = c
         /\ NewSequence(c) = headSeq[OrgOfJob(c)] + 1
         /\ NewSequence(c) \in Nat
         /\ base[c].hash = headHash[OrgOfJob(c)]
<1>1. Building(c)
  BY DEF Building
<1>2. OrgOfJob(c) \in Orgs
  BY BusyJob DEF IInv
<1>3. /\ chainLock[OrgOfJob(c)] = c
      /\ base[c].seq = headSeq[OrgOfJob(c)]
      /\ base[c].hash = headHash[OrgOfJob(c)]
  BY <1>1 DEF IInv, HeadFresh
<1>4. headSeq[OrgOfJob(c)] \in Nat
  BY <1>2 DEF IInv, TypeOK
<1> QED
  BY <1>2, <1>3, <1>4 DEF NewSequence, NextSequence

-----------------------------------------------------------------------------
(* Initial states *)

LEMMA InitIInv == Init => IInv
<1> SUFFICES ASSUME Init PROVE IInv
  OBVIOUS
<1>1. TypeOK
  BY DEF Init, TypeOK, IsFcn, Labels, Statuses
<1>2. ChainIntact
  BY DEF Init, ChainIntact, PreviousHash
<1>3. HeadFresh
  BY DEF Init, HeadFresh, Building
<1> QED
  BY <1>1, <1>2, <1>3 DEF IInv

-----------------------------------------------------------------------------
(* Types *)

\* COMMIT and ROLLBACK keep the types of the locks and of the client.
LEMMA EndTypes ==
  ASSUME TypeOK, NEW c \in Clients, ReleaseLocks(c), ClearClient(c)
  PROVE  /\ chainLock' \in [Orgs -> Clients \cup {Nobody}]
         /\ rowLocks' \subseteq [client : Clients, exec : Executions, mode : LockModes]
         /\ pc' \in [Clients -> Labels]
         /\ IsFcn(job', Clients)
         /\ \A d \in Clients : IF pc'[d] = "idle" THEN job'[d] = NoJob ELSE job'[d] \in Jobs
         /\ IsFcn(base', Clients)
         /\ IsFcn(leaves', Clients)
<1>1. /\ chainLock' \in [Orgs -> Clients \cup {Nobody}]
      /\ rowLocks' \subseteq [client : Clients, exec : Executions, mode : LockModes]
  BY DEF TypeOK, ReleaseLocks
<1>2. pc' \in [Clients -> Labels]
  BY DEF TypeOK, ClearClient, Labels
<1>3. /\ IsFcn(job', Clients)
      /\ IsFcn(base', Clients)
      /\ IsFcn(leaves', Clients)
  BY DEF TypeOK, ClearClient, IsFcn
<1>4. \A d \in Clients : IF pc'[d] = "idle" THEN job'[d] = NoJob ELSE job'[d] \in Jobs
  BY DEF TypeOK, ClearClient, Labels, IsFcn
<1> QED
  BY <1>1, <1>2, <1>3, <1>4

\* A statement that takes a row lock and moves on keeps the types.
LEMMA TakeTypes ==
  ASSUME TypeOK, NEW c \in Clients, pc[c] # "idle",
         NEW mode \in LockModes, Take(c, job[c].exec, mode),
         NEW label \in Labels \ {"idle"}, Goto(c, label),
         UNCHANGED <<chainVars, executionVars, chainLock, job, base, leaves>>
  PROVE  TypeOK'
<1>1. rowLocks' \subseteq [client : Clients, exec : Executions, mode : LockModes]
  BY BusyJob DEF TypeOK, Take
<1>2. /\ pc' \in [Clients -> Labels]
      /\ \A d \in Clients : IF pc'[d] = "idle" THEN job'[d] = NoJob ELSE job'[d] \in Jobs
  BY DEF TypeOK, Goto
<1> QED
  BY <1>1, <1>2 DEF TypeOK, chainVars, executionVars

LEMMA TypeStep ==
  ASSUME IInv, Next
  PROVE  TypeOK'
<1> USE DEF IInv
<1>1. ASSUME NEW e \in Executions, OpenExecution(e)
      PROVE  TypeOK'
  BY <1>1 DEF OpenExecution, TypeOK, Statuses, chainVars, lockVars, clientVars
<1>2. ASSUME NEW c \in Clients, NEW j \in Jobs, Begin(c, j)
      PROVE  TypeOK'
  <2>1. FirstStatement(j.type) \in Labels \ {"idle"}
    <3>1. j.type \in EntryTypes \cup {StatusOnly}
      BY DEF Jobs
    <3> QED
      BY <3>1 DEF FirstStatement, EntryTypes, StatusOnly, Labels
  <2>2. /\ pc' \in [Clients -> Labels]
        /\ \A d \in Clients : IF pc'[d] = "idle" THEN job'[d] = NoJob ELSE job'[d] \in Jobs
        /\ IsFcn(job', Clients)
    BY <1>2, <2>1 DEF Begin, Goto, TypeOK, IsFcn
  <2> QED
    BY <1>2, <2>2 DEF Begin, TypeOK, chainVars, executionVars, lockVars
<1>4. ASSUME NEW c \in Clients, ClaimExecution(c)
      PROVE  TypeOK'
  BY <1>4, TakeTypes DEF ClaimExecution, LockModes, Labels
<1>5. ASSUME NEW c \in Clients, EnsureChainRow(c)
      PROVE  TypeOK'
  <2>1. chainLock' \in [Orgs -> Clients \cup {Nobody}]
    BY <1>5 DEF EnsureChainRow, TypeOK
  <2>2. /\ pc' \in [Clients -> Labels]
        /\ \A d \in Clients : IF pc'[d] = "idle" THEN job'[d] = NoJob ELSE job'[d] \in Jobs
    BY <1>5 DEF EnsureChainRow, Goto, TypeOK, Labels
  <2> QED
    BY <1>5, <2>1, <2>2 DEF EnsureChainRow, TypeOK, chainVars, executionVars
<1>6. ASSUME NEW c \in Clients, LockHead(c)
      PROVE  TypeOK'
  <2>1. chainLock' \in [Orgs -> Clients \cup {Nobody}]
    BY <1>6 DEF LockHead, TypeOK
  <2>2. /\ pc' \in [Clients -> Labels]
        /\ \A d \in Clients : IF pc'[d] = "idle" THEN job'[d] = NoJob ELSE job'[d] \in Jobs
        /\ IsFcn(base', Clients)
    BY <1>6 DEF LockHead, Goto, TypeOK, Labels, IsFcn
  <2> QED
    BY <1>6, <2>1, <2>2 DEF LockHead, TypeOK, chainVars, executionVars
<1>7. ASSUME NEW c \in Clients, CollectLeaves(c)
      PROVE  TypeOK'
  <2>1. /\ pc' \in [Clients -> Labels]
        /\ \A d \in Clients : IF pc'[d] = "idle" THEN job'[d] = NoJob ELSE job'[d] \in Jobs
        /\ IsFcn(leaves', Clients)
    BY <1>7 DEF CollectLeaves, Goto, TypeOK, Labels, IsFcn
  <2> QED
    BY <1>7, <2>1 DEF CollectLeaves, TypeOK, chainVars, executionVars, lockVars
<1>8. ASSUME NEW c \in Clients, InsertEntry(c)
      PROVE  TypeOK'
  BY <1>8, TakeTypes DEF InsertEntry, LockModes, Labels
<1>9. ASSUME NEW c \in Clients, CheckStatus(c)
      PROVE  TypeOK'
  <2>1. /\ pc' \in [Clients -> Labels]
        /\ \A d \in Clients : IF pc'[d] = "idle" THEN job'[d] = NoJob ELSE job'[d] \in Jobs
    BY <1>9 DEF CheckStatus, Goto, TypeOK, Labels
  <2> QED
    BY <1>9, <2>1 DEF CheckStatus, TypeOK, chainVars, executionVars, lockVars
<1>10. ASSUME NEW c \in Clients, MarkExecution(c)
       PROVE  TypeOK'
  BY <1>10, TakeTypes DEF MarkExecution, LockModes, Labels
<1>11. ASSUME NEW c \in Clients, Commit(c)
       PROVE  TypeOK'
  <2>1. job[c] \in Jobs /\ job[c].exec \in Executions
    BY <1>11, BusyJob DEF Commit
  <2>2. status' \in [Executions -> Statuses \cup {Absent}]
    BY <1>11, <2>1, JobTarget DEF Commit, PublishStatus, TypeOK
  <2>3. finalEntry' \in [Executions -> Nat]
    <3>1. CASE IsSeal(job[c].type)
      <4>1. job[c].type # StatusOnly
        BY <3>1 DEF IsSeal, StatusOnly
      <4> QED
        BY <1>11, <4>1, CommitsFromHead DEF Commit, PublishStatus, TypeOK
    <3>2. CASE ~IsSeal(job[c].type)
      BY <1>11, <3>2 DEF Commit, PublishStatus, TypeOK
    <3> QED
      BY <3>1, <3>2
  <2>4. /\ chainRow' \in [Orgs -> BOOLEAN]
        /\ headSeq' \in [Orgs -> Nat]
        /\ IsFcn(headHash', Orgs)
        /\ IsFcn(ledger', Orgs)
        /\ IsFcn(checkpoints', Orgs)
    <3>1. CASE job[c].type = StatusOnly
      BY <1>11, <3>1 DEF Commit, chainVars, TypeOK
    <3>2. CASE job[c].type # StatusOnly
      <4>1. PublishEntry(c)
        BY <1>11, <3>2 DEF Commit
      <4>2. NewSequence(c) \in Nat
        BY <1>11, <3>2, CommitsFromHead DEF Commit
      <4>3. /\ chainRow' \in [Orgs -> BOOLEAN]
            /\ headSeq' \in [Orgs -> Nat]
        BY <4>1, <4>2 DEF PublishEntry, TypeOK
      <4>4. /\ IsFcn(headHash', Orgs)
            /\ IsFcn(ledger', Orgs)
            /\ IsFcn(checkpoints', Orgs)
        BY <4>1 DEF PublishEntry, TypeOK, IsFcn
      <4> QED
        BY <4>3, <4>4
    <3> QED
      BY <3>1, <3>2
  <2>5. ReleaseLocks(c) /\ ClearClient(c)
    BY <1>11 DEF Commit
  <2> QED
    BY <2>2, <2>3, <2>4, <2>5, EndTypes DEF TypeOK
<1>12. ASSUME NEW c \in Clients, Rollback(c)
       PROVE  TypeOK'
  <2>1. ReleaseLocks(c) /\ ClearClient(c) /\ UNCHANGED <<chainVars, executionVars>>
    BY <1>12 DEF Rollback
  <2> QED
    BY <2>1, EndTypes DEF TypeOK, chainVars, executionVars
<1> QED
  BY <1>1, <1>2, <1>4, <1>5, <1>6, <1>7, <1>8, <1>9, <1>10, <1>11, <1>12
  DEF Next, Step

-----------------------------------------------------------------------------
(* The chain *)

\* Only Commit touches a chain.
LEMMA OnlyCommitPublishes ==
  ASSUME Next, \A c \in Clients : ~Commit(c)
  PROVE  UNCHANGED chainVars
<1> USE DEF chainVars
<1>1. ASSUME NEW e \in Executions, OpenExecution(e)
      PROVE  UNCHANGED chainVars
  BY <1>1 DEF OpenExecution
<1>2. ASSUME NEW c \in Clients, NEW j \in Jobs, Begin(c, j)
      PROVE  UNCHANGED chainVars
  BY <1>2 DEF Begin
<1>3. ASSUME NEW c \in Clients, Step(c)
      PROVE  UNCHANGED chainVars
  BY <1>3 DEF Step, ClaimExecution, EnsureChainRow, LockHead,
              CollectLeaves, InsertEntry, CheckStatus, MarkExecution
<1>4. ASSUME NEW c \in Clients, Rollback(c)
      PROVE  UNCHANGED chainVars
  BY <1>4 DEF Rollback
<1> QED
  BY <1>1, <1>2, <1>3, <1>4 DEF Next

\* A commit from the head extends one chain by one linked entry, and leaves
\* the entries before it and the other chains alone.
LEMMA CommitExtends ==
  ASSUME IInv, NEW c \in Clients, Commit(c), job[c].type # StatusOnly,
         NEW o \in Orgs, o = OrgOfJob(c)
  PROVE  /\ headSeq' = [headSeq EXCEPT ![o] = headSeq[o] + 1]
         /\ headHash' = [headHash EXCEPT ![o] = NewHash(c)]
         /\ DOMAIN ledger'[o] = 1..(headSeq[o] + 1)
         /\ \A n \in 1..headSeq[o] : ledger'[o][n] = ledger[o][n]
         /\ ledger'[o][headSeq[o] + 1] = NewRow(c)
         /\ \A p \in Orgs \ {o} : ledger'[p] = ledger[p]
<1>1. PublishEntry(c) /\ pc[c] = "commit"
  BY DEF Commit
<1>2. NewSequence(c) = headSeq[o] + 1 /\ headSeq[o] \in Nat
  BY <1>1, CommitsFromHead DEF IInv, TypeOK
<1>3. DOMAIN ledger[o] = 1..headSeq[o]
  BY DEF IInv, ChainIntact
<1>4. /\ headSeq' = [headSeq EXCEPT ![o] = headSeq[o] + 1]
      /\ headHash' = [headHash EXCEPT ![o] = NewHash(c)]
  BY <1>1, <1>2 DEF PublishEntry
<1>5. /\ ledger'[o] = Extend(ledger[o], headSeq[o] + 1, NewRow(c))
      /\ \A p \in Orgs \ {o} : ledger'[p] = ledger[p]
  BY <1>1, <1>2 DEF PublishEntry, IInv, TypeOK, IsFcn
<1>6. 1..headSeq[o] \cup {headSeq[o] + 1} = 1..(headSeq[o] + 1)
  BY <1>2
<1>7. /\ DOMAIN ledger'[o] = 1..(headSeq[o] + 1)
      /\ \A n \in 1..headSeq[o] : ledger'[o][n] = ledger[o][n]
      /\ ledger'[o][headSeq[o] + 1] = NewRow(c)
  BY <1>2, <1>3, <1>5, <1>6 DEF Extend
<1> QED
  BY <1>4, <1>5, <1>7

LEMMA ChainStep ==
  ASSUME IInv, Next
  PROVE  ChainIntact'
<1>1. CASE \A c \in Clients : ~Commit(c)
  <2>1. UNCHANGED chainVars
    BY <1>1, OnlyCommitPublishes
  <2> QED
    BY <2>1 DEF IInv, ChainIntact, PreviousHash, chainVars
<1>2. ASSUME NEW c \in Clients, Commit(c)
      PROVE  ChainIntact'
  <2>1. CASE job[c].type = StatusOnly
    BY <1>2, <2>1 DEF Commit, IInv, ChainIntact, PreviousHash, chainVars
  <2>2. CASE job[c].type # StatusOnly
    <3>0. OrgOfJob(c) \in Orgs /\ pc[c] = "commit"
      BY <1>2, BusyJob DEF Commit, IInv
    <3> PICK o \in Orgs : o = OrgOfJob(c)
      BY <3>0
    <3> PICK h \in Nat : h = headSeq[o]
      BY DEF IInv, TypeOK
    <3>1. job[c].exec \in Executions /\ OrgOf[job[c].exec] = o
      BY <3>0, BusyJob DEF IInv, OrgOfJob
    <3>2. NewSequence(c) = h + 1 /\ base[c].hash = headHash[o]
      BY <2>2, <3>0, CommitsFromHead
    <3>3. /\ headSeq' = [headSeq EXCEPT ![o] = h + 1]
          /\ headHash' = [headHash EXCEPT ![o] = NewHash(c)]
          /\ DOMAIN ledger'[o] = 1..(h + 1)
          /\ \A n \in 1..h : ledger'[o][n] = ledger[o][n]
          /\ ledger'[o][h + 1] = NewRow(c)
          /\ \A p \in Orgs \ {o} : ledger'[p] = ledger[p]
      BY <1>2, <2>2, CommitExtends
    <3>4. headSeq'[o] = h + 1 /\ headHash'[o] = NewHash(c)
      BY <3>3 DEF IInv, TypeOK, IsFcn
    <3>5. ASSUME NEW p \in Orgs, p # o
          PROVE  /\ headSeq'[p] = headSeq[p]
                 /\ headHash'[p] = headHash[p]
                 /\ ledger'[p] = ledger[p]
      BY <3>3, <3>5 DEF IInv, TypeOK, IsFcn
    \* the chain that was extended
    <3>6. \A n \in 1..(h + 1) : PreviousHash(o, n)' = PreviousHash(o, n)
      BY <3>3 DEF PreviousHash
    <3>7. headHash[o] = PreviousHash(o, h + 1)
      BY DEF IInv, ChainIntact
    <3>8. headHash'[o] = PreviousHash(o, headSeq[o] + 1)'
      <4>1. PreviousHash(o, h + 2)' = NewRow(c).hash
        BY <3>2, <3>3 DEF PreviousHash
      <4> QED
        BY <3>2, <3>4, <4>1 DEF NewRow
    <3>9. ASSUME NEW n \in 1..(h + 1)
          PROVE  /\ ledger'[o][n].prev = PreviousHash(o, n)'
                 /\ ledger'[o][n].hash = EntryHash(o, n, ledger'[o][n].exec,
                                                   ledger'[o][n].type, ledger'[o][n].prev)
                 /\ OrgOf[ledger'[o][n].exec] = o
      <4>1. CASE n \in 1..h
        <5>1. /\ ledger[o][n].prev = PreviousHash(o, n)
              /\ ledger[o][n].hash = EntryHash(o, n, ledger[o][n].exec,
                                               ledger[o][n].type, ledger[o][n].prev)
              /\ OrgOf[ledger[o][n].exec] = o
          BY <4>1 DEF IInv, ChainIntact
        <5> QED
          BY <3>3, <3>6, <4>1, <5>1
      <4>2. CASE n = h + 1
        <5>1. ledger'[o][n] = NewRow(c)
          BY <3>3, <4>2
        <5>2. /\ NewRow(c).prev = PreviousHash(o, n)'
              /\ NewRow(c).exec = job[c].exec
              /\ NewRow(c).type = job[c].type
              /\ NewRow(c).hash = EntryHash(o, n, job[c].exec, job[c].type, NewRow(c).prev)
          BY <3>2, <3>6, <3>7, <4>2 DEF NewRow, NewHash
        <5> QED
          BY <3>1, <5>1, <5>2
      <4> QED
        BY <3>2, <4>1, <4>2
    \* the other chains
    <3>10. ASSUME NEW p \in Orgs, p # o
           PROVE  /\ DOMAIN ledger'[p] = 1..headSeq'[p]
                  /\ headHash'[p] = PreviousHash(p, headSeq[p] + 1)'
                  /\ \A n \in 1..headSeq'[p] :
                       /\ ledger'[p][n].prev = PreviousHash(p, n)'
                       /\ ledger'[p][n].hash =
                            EntryHash(p, n, ledger'[p][n].exec, ledger'[p][n].type,
                                      ledger'[p][n].prev)
                       /\ OrgOf[ledger'[p][n].exec] = p
      <4>1. /\ headSeq'[p] = headSeq[p]
            /\ headHash'[p] = headHash[p]
            /\ ledger'[p] = ledger[p]
        BY <3>5, <3>10
      <4>2. /\ DOMAIN ledger[p] = 1..headSeq[p]
            /\ headHash[p] = PreviousHash(p, headSeq[p] + 1)
            /\ \A n \in 1..headSeq[p] :
                 /\ ledger[p][n].prev = PreviousHash(p, n)
                 /\ ledger[p][n].hash =
                      EntryHash(p, n, ledger[p][n].exec, ledger[p][n].type,
                                ledger[p][n].prev)
                 /\ OrgOf[ledger[p][n].exec] = p
        BY <3>10 DEF IInv, ChainIntact
      <4>3. /\ \A n \in 1..headSeq[p] : PreviousHash(p, n)' = PreviousHash(p, n)
            /\ PreviousHash(p, headSeq[p] + 1)' = PreviousHash(p, headSeq[p] + 1)
        BY <4>1 DEF PreviousHash
      <4> QED
        BY <4>1, <4>2, <4>3
    <3> QED
      BY <3>3, <3>4, <3>8, <3>9, <3>10 DEF ChainIntact
  <2> QED
    BY <2>1, <2>2
<1> QED
  BY <1>1, <1>2

-----------------------------------------------------------------------------
(* The head *)

\* Whoever is building an entry holds the chain row, so nobody else may take it.
LEMMA BuilderExcludes ==
  ASSUME IInv, NEW c \in Clients, NEW d \in Clients, d # c, Building(d),
         CanLockChain(c, OrgOfJob(c))
  PROVE  OrgOfJob(d) # OrgOfJob(c)
<1>1. chainLock[OrgOfJob(d)] = d
  BY DEF IInv, HeadFresh
<1> QED
  BY <1>1, NobodyAssumption DEF CanLockChain

LEMMA HeadStep ==
  ASSUME IInv, Next
  PROVE  HeadFresh'
<1> DEFINE Fresh(d) == /\ chainLock'[OrgOfJob(d)'] = d
                       /\ base'[d].seq = headSeq'[OrgOfJob(d)']
                       /\ base'[d].hash = headHash'[OrgOfJob(d)']
<1>1. SUFFICES ASSUME NEW d \in Clients, Building(d)'
               PROVE  Fresh(d)
  BY DEF HeadFresh
<1>2. Building(d) => /\ chainLock[OrgOfJob(d)] = d
                     /\ base[d].seq = headSeq[OrgOfJob(d)]
                     /\ base[d].hash = headHash[OrgOfJob(d)]
                     /\ OrgOfJob(d) \in Orgs
  BY BusyJob DEF IInv, HeadFresh, Building
\* a step that leaves d, its lock and the heads alone
<1>3. ASSUME Building(d), OrgOfJob(d)' = OrgOfJob(d), base'[d] = base[d],
             chainLock'[OrgOfJob(d)] = chainLock[OrgOfJob(d)],
             headSeq'[OrgOfJob(d)] = headSeq[OrgOfJob(d)],
             headHash'[OrgOfJob(d)] = headHash[OrgOfJob(d)]
      PROVE  Fresh(d)
  BY <1>2, <1>3
<1> HIDE DEF Fresh
<1>4. ASSUME NEW e \in Executions, OpenExecution(e)
      PROVE  Fresh(d)
  BY <1>1, <1>3, <1>4
  DEF OpenExecution, Building, OrgOfJob, chainVars, lockVars, clientVars
<1>5. ASSUME NEW c \in Clients, NEW j \in Jobs, Begin(c, j)
      PROVE  Fresh(d)
  <2>1. pc'[c] \in {"claim", "ensure", "check"}
    <3>1. j.type \in EntryTypes \cup {StatusOnly}
      BY DEF Jobs
    <3>2. pc'[c] = FirstStatement(j.type)
      BY <1>5 DEF Begin, Goto, IInv, TypeOK
    <3> QED
      BY <3>1, <3>2 DEF FirstStatement, EntryTypes, StatusOnly
  <2>2. pc'[c] = "check" => job'[c].type = StatusOnly
    <3>1. j.type \in EntryTypes \cup {StatusOnly}
      BY DEF Jobs
    <3>2. pc'[c] = FirstStatement(j.type) /\ job'[c] = j
      BY <1>5 DEF Begin, Goto, IInv, TypeOK, IsFcn
    <3> QED
      BY <3>1, <3>2 DEF FirstStatement, EntryTypes, StatusOnly
  <2>3. d # c
    BY <1>1, <2>1, <2>2 DEF Building
  <2>4. pc'[d] = pc[d] /\ job'[d] = job[d]
    BY <1>5, <2>3 DEF Begin, Goto, IInv, TypeOK, IsFcn
  <2>5. Building(d) /\ OrgOfJob(d)' = OrgOfJob(d)
    BY <1>1, <2>4 DEF Building, OrgOfJob
  <2> QED
    BY <1>3, <1>5, <2>5 DEF Begin, chainVars, lockVars
<1>6. ASSUME NEW c \in Clients,
             ClaimExecution(c) \/ InsertEntry(c) \/ MarkExecution(c)
                \/ CheckStatus(c) \/ CollectLeaves(c)
      PROVE  Fresh(d)
  <2>1. UNCHANGED <<chainVars, chainLock, job, base>>
    BY <1>6 DEF ClaimExecution, InsertEntry, MarkExecution, CheckStatus,
                CollectLeaves, lockVars
  <2>2. pc'[d] \in {"collect", "insert", "check", "mark", "commit"}
        => pc[d] \in {"collect", "insert", "check", "mark", "commit"}
    BY <1>6 DEF ClaimExecution, InsertEntry, MarkExecution, CheckStatus,
                CollectLeaves, Goto, IInv, TypeOK
  <2>3. Building(d) /\ OrgOfJob(d)' = OrgOfJob(d)
    BY <1>1, <2>1, <2>2 DEF Building, OrgOfJob
  <2> QED
    BY <1>3, <2>1, <2>3 DEF chainVars
<1>7. ASSUME NEW c \in Clients, EnsureChainRow(c)
      PROVE  Fresh(d)
  <2>1. d # c /\ pc'[d] = pc[d]
    BY <1>1, <1>7 DEF EnsureChainRow, Goto, Building, IInv, TypeOK
  <2>2. Building(d) /\ OrgOfJob(d)' = OrgOfJob(d)
    BY <1>1, <1>7, <2>1 DEF EnsureChainRow, Building, OrgOfJob
  <2>3. chainLock'[OrgOfJob(d)] = chainLock[OrgOfJob(d)]
    <3>1. CASE UNCHANGED chainLock
      BY <3>1
    <3>2. CASE /\ CanLockChain(c, OrgOfJob(c))
               /\ chainLock' = [chainLock EXCEPT ![OrgOfJob(c)] = c]
      BY <2>1, <2>2, <3>2, BuilderExcludes DEF IInv, TypeOK
    <3> QED
      BY <1>7, <3>1, <3>2 DEF EnsureChainRow
  <2> QED
    BY <1>3, <1>7, <2>2, <2>3 DEF EnsureChainRow, chainVars
<1>8. ASSUME NEW c \in Clients, LockHead(c)
      PROVE  Fresh(d)
  <2>1. CASE d = c
    <3>1. OrgOfJob(c) \in Orgs /\ OrgOfJob(c)' = OrgOfJob(c)
      BY <1>8, BusyJob DEF LockHead, IInv, OrgOfJob
    <3>2. chainLock'[OrgOfJob(c)] = c
      BY <1>8, <3>1 DEF LockHead, IInv, TypeOK
    <3>3. base'[c] = [seq |-> headSeq[OrgOfJob(c)], hash |-> headHash[OrgOfJob(c)]]
      BY <1>8 DEF LockHead, IInv, TypeOK, IsFcn
    <3> QED
      BY <1>8, <2>1, <3>1, <3>2, <3>3 DEF LockHead, chainVars, Fresh
  <2>2. CASE d # c
    <3>1. pc'[d] = pc[d] /\ base'[d] = base[d]
      BY <1>8, <2>2 DEF LockHead, Goto, IInv, TypeOK, IsFcn
    <3>2. Building(d) /\ OrgOfJob(d)' = OrgOfJob(d)
      BY <1>1, <1>8, <3>1 DEF LockHead, Building, OrgOfJob
    <3>3. chainLock'[OrgOfJob(d)] = chainLock[OrgOfJob(d)]
      BY <1>8, <2>2, <3>2, BuilderExcludes DEF LockHead, IInv, TypeOK
    <3> QED
      BY <1>3, <1>8, <3>1, <3>2, <3>3 DEF LockHead, chainVars
  <2> QED
    BY <2>1, <2>2
\* the end of a transaction disturbs its own client only
<1>9. ASSUME NEW c \in Clients, ReleaseLocks(c), ClearClient(c)
      PROVE  /\ d # c
             /\ Building(d)
             /\ OrgOfJob(d)' = OrgOfJob(d)
             /\ base'[d] = base[d]
             /\ chainLock'[OrgOfJob(d)] = chainLock[OrgOfJob(d)]
  <2>1. d # c
    BY <1>1, <1>9 DEF ClearClient, Building, IInv, TypeOK
  <2>2. pc'[d] = pc[d] /\ job'[d] = job[d] /\ base'[d] = base[d]
    BY <1>9, <2>1 DEF ClearClient, IInv, TypeOK, IsFcn
  <2>3. Building(d) /\ OrgOfJob(d)' = OrgOfJob(d)
    BY <1>1, <2>2 DEF Building, OrgOfJob
  <2>4. chainLock'[OrgOfJob(d)] = chainLock[OrgOfJob(d)]
    BY <1>2, <1>9, <2>1, <2>3 DEF ReleaseLocks
  <2> QED
    BY <2>1, <2>2, <2>3, <2>4
<1>10. ASSUME NEW c \in Clients, Rollback(c)
       PROVE  Fresh(d)
  BY <1>3, <1>9, <1>10 DEF Rollback, chainVars
<1>11. ASSUME NEW c \in Clients, Commit(c)
       PROVE  Fresh(d)
  <2>1. /\ d # c
        /\ Building(d)
        /\ OrgOfJob(d)' = OrgOfJob(d)
        /\ base'[d] = base[d]
        /\ chainLock'[OrgOfJob(d)] = chainLock[OrgOfJob(d)]
    BY <1>9, <1>11 DEF Commit
  <2>2. /\ headSeq'[OrgOfJob(d)] = headSeq[OrgOfJob(d)]
        /\ headHash'[OrgOfJob(d)] = headHash[OrgOfJob(d)]
    <3>1. CASE job[c].type = StatusOnly
      BY <1>11, <3>1 DEF Commit, chainVars
    <3>2. CASE job[c].type # StatusOnly
      <4>1. chainLock[OrgOfJob(c)] = c /\ PublishEntry(c)
        BY <1>11, <3>2, CommitsFromHead DEF Commit
      <4>2. OrgOfJob(d) # OrgOfJob(c) /\ OrgOfJob(d) \in Orgs
        BY <1>2, <2>1, <4>1
      <4> QED
        BY <4>1, <4>2 DEF PublishEntry, IInv, TypeOK, IsFcn
    <3> QED
      BY <3>1, <3>2
  <2> QED
    BY <1>3, <2>1, <2>2
<1> QED
  BY <1>4, <1>5, <1>6, <1>7, <1>8, <1>10, <1>11 DEF Next, Step

-----------------------------------------------------------------------------
(* Theorems *)

LEMMA StutterIInv == IInv /\ UNCHANGED vars => IInv'
BY DEF IInv, TypeOK, IsFcn, ChainIntact, PreviousHash, HeadFresh, Building, OrgOfJob,
       vars, chainVars, executionVars, lockVars, clientVars

\* The invariant that every statement, COMMIT and ROLLBACK of the append path
\* preserves: types and locks, an intact chain, and a fresh head.
THEOREM InductiveInvariant == Spec => []IInv
<1>1. IInv /\ [Next]_vars => IInv'
  BY TypeStep, ChainStep, HeadStep, StutterIInv DEF IInv
<1> QED
  BY <1>1, InitIInv, PTL DEF Spec

\* Every variable of the append path keeps its type.
THEOREM LedgerTypes == Spec => []TypeOK
BY InductiveInvariant, PTL DEF IInv

\* The chain of an organization never forks, skips or dangles, whatever the
\* interleaving of its connections' statements and rollbacks: what
\* verifyOrganizationChain checks always holds.
THEOREM ChainStaysIntact == Spec => []ChainIntact
BY InductiveInvariant, PTL DEF IInv

\* A transaction computes its entry from the committed head of the chain and
\* that head does not move before the transaction ends.
THEOREM HeadStaysFresh == Spec => []HeadFresh
BY InductiveInvariant, PTL DEF IInv

-----------------------------------------------------------------------------
(* The execution row *)

\* Only the insertion of an execution and a commit change execution rows.
LEMMA OnlyCommitMarks ==
  ASSUME Next, \A c \in Clients : ~Commit(c)
  PROVE  \/ UNCHANGED executionVars
         \/ \E e \in Executions : OpenExecution(e)
<1>1. ASSUME NEW c \in Clients, NEW j \in Jobs, Begin(c, j)
      PROVE  UNCHANGED executionVars
  BY <1>1 DEF Begin
<1>2. ASSUME NEW c \in Clients, Step(c)
      PROVE  UNCHANGED executionVars
  BY <1>2 DEF Step, ClaimExecution, EnsureChainRow, LockHead,
              CollectLeaves, InsertEntry, CheckStatus, MarkExecution
<1>3. ASSUME NEW c \in Clients, Rollback(c)
      PROVE  UNCHANGED executionVars
  BY <1>3 DEF Rollback
<1> QED
  BY <1>1, <1>2, <1>3 DEF Next

\* A commit that appends adds its entry to the seals of its execution if it
\* seals, and changes no other seal; what sealed stays as it was.
LEMMA SealsAfterCommit ==
  ASSUME IInv, NEW c \in Clients, Commit(c), job[c].type # StatusOnly,
         NEW e \in Executions
  PROVE  /\ Seals(e)' = IF e = job[c].exec /\ IsSeal(job[c].type)
                          THEN Seals(e) \cup {headSeq[OrgOf[e]] + 1} ELSE Seals(e)
         /\ \A n \in Seals(e) : /\ ledger'[OrgOf[e]][n].type = ledger[OrgOf[e]][n].type
                                 /\ n \in 1..headSeq[OrgOf[e]]
         /\ e = job[c].exec =>
              ledger'[OrgOf[e]][headSeq[OrgOf[e]] + 1].type = job[c].type
<1>1. OrgOfJob(c) \in Orgs /\ pc[c] = "commit" /\ OrgOf[e] \in Orgs
      /\ OrgOf[job[c].exec] = OrgOfJob(c)
  BY BusyJob, OrgOfAssumption DEF Commit, IInv, OrgOfJob
<1> PICK o \in Orgs : o = OrgOfJob(c)
  BY <1>1
<1> PICK p \in Orgs : p = OrgOf[e]
  BY <1>1
<1>2. /\ DOMAIN ledger'[o] = 1..(headSeq[o] + 1)
      /\ \A n \in 1..headSeq[o] : ledger'[o][n] = ledger[o][n]
      /\ ledger'[o][headSeq[o] + 1] = NewRow(c)
      /\ p # o => ledger'[p] = ledger[p]
  BY CommitExtends
<1>3. /\ DOMAIN ledger[p] = 1..headSeq[p] /\ headSeq[p] \in Nat
      /\ DOMAIN ledger[o] = 1..headSeq[o] /\ headSeq[o] \in Nat
  BY DEF IInv, ChainIntact, TypeOK
<1>4. NewRow(c).exec = job[c].exec /\ NewRow(c).type = job[c].type
  BY DEF NewRow
<1>5. CASE p # o
  <2>1. ledger'[p] = ledger[p] /\ e # job[c].exec
    BY <1>1, <1>2, <1>5
  <2> QED
    BY <1>3, <2>1 DEF Seals
<1>6. CASE p = o
  <2>1. \A n \in DOMAIN ledger'[o] : n \in 1..headSeq[o] \/ n = headSeq[o] + 1
    BY <1>2, <1>3
  <2>2. ~(headSeq[o] + 1 \in 1..headSeq[o]) /\ 1..headSeq[o] \subseteq DOMAIN ledger'[o]
        /\ headSeq[o] + 1 \in DOMAIN ledger'[o]
    BY <1>2, <1>3
  <2>3. Seals(e) = {n \in 1..headSeq[o] : /\ ledger[o][n].exec = e
                                          /\ ledger[o][n].type \in {"final", "failure"}}
    BY <1>3, <1>6 DEF Seals
  <2>4. Seals(e)' = {n \in DOMAIN ledger'[o] : /\ ledger'[o][n].exec = e
                                               /\ ledger'[o][n].type \in {"final", "failure"}}
    BY <1>6 DEF Seals
  <2>5. headSeq[o] + 1 \in Seals(e)' <=> e = job[c].exec /\ IsSeal(job[c].type)
    BY <1>2, <1>4, <2>2, <2>4 DEF IsSeal
  <2>6. \A n \in 1..headSeq[o] : n \in Seals(e)' <=> n \in Seals(e)
    BY <1>2, <2>2, <2>3, <2>4
  <2>7. Seals(e) \subseteq 1..headSeq[o] /\ Seals(e)' \subseteq DOMAIN ledger'[o]
    BY <2>3, <2>4
  <2>8. Seals(e)' = IF e = job[c].exec /\ IsSeal(job[c].type)
                     THEN Seals(e) \cup {headSeq[o] + 1} ELSE Seals(e)
    BY <2>1, <2>2, <2>5, <2>6, <2>7
  <2>9. \A n \in Seals(e) : ledger'[o][n].type = ledger[o][n].type
    BY <1>2, <2>7
  <2> QED
    BY <1>2, <1>4, <1>6, <2>7, <2>8, <2>9
<1> QED
  BY <1>5, <1>6

LEMMA RowStep ==
  ASSUME IInv, FinalEntryAgrees, Next
  PROVE  FinalEntryAgrees'
<1>1. CASE \A c \in Clients : ~Commit(c)
  <2>1. UNCHANGED <<headSeq, ledger>> /\ UNCHANGED finalEntry
    BY <1>1, OnlyCommitPublishes, OnlyCommitMarks DEF chainVars, executionVars, OpenExecution
  <2>2. \A e \in Executions : status'[e] = status[e] \/ status'[e] = "created"
    BY <1>1, OnlyCommitMarks DEF executionVars, OpenExecution, IInv, TypeOK
  <2> QED
    BY <2>1, <2>2 DEF FinalEntryAgrees, Seals, TerminalStatuses
<1>2. ASSUME NEW c \in Clients, Commit(c), job[c].type = StatusOnly
      PROVE  FinalEntryAgrees'
  <2>1. UNCHANGED ledger /\ UNCHANGED finalEntry
    BY <1>2 DEF Commit, PublishStatus, chainVars, IsSeal, StatusOnly
  <2>2. job[c].target = "running"
    BY <1>2, BusyJob DEF Commit, IInv, Jobs, StatusOnly, EntryTypes
  <2>3. \A e \in Executions : status'[e] = status[e] \/ status'[e] = "running"
    BY <1>2, <2>2 DEF Commit, PublishStatus, StatusOnly, IInv, TypeOK
  <2> QED
    BY <2>1, <2>3 DEF FinalEntryAgrees, Seals, TerminalStatuses
<1>3. ASSUME NEW c \in Clients, Commit(c), job[c].type # StatusOnly, NEW e \in Executions
      PROVE  /\ finalEntry'[e] = 0 <=> Seals(e)' = {}
             /\ Seals(e)' # {} => /\ finalEntry'[e] \in Seals(e)'
                                   /\ \A n \in Seals(e)' : n <= finalEntry'[e]
             /\ status'[e] \in TerminalStatuses =>
                  /\ finalEntry'[e] # 0
                  /\ ledger'[OrgOf[e]][finalEntry'[e]].type =
                       IF status'[e] = "completed" THEN "final" ELSE "failure"
  <2> PICK h \in Nat : h = headSeq[OrgOf[e]]
    BY OrgOfAssumption DEF IInv, TypeOK
  <2>1. /\ finalEntry[e] = 0 <=> Seals(e) = {}
        /\ Seals(e) # {} => /\ finalEntry[e] \in Seals(e)
                             /\ \A n \in Seals(e) : n <= finalEntry[e]
        /\ status[e] \in TerminalStatuses =>
             /\ finalEntry[e] # 0
             /\ ledger[OrgOf[e]][finalEntry[e]].type =
                  IF status[e] = "completed" THEN "final" ELSE "failure"
    BY DEF FinalEntryAgrees
  <2>2. /\ Seals(e)' = IF e = job[c].exec /\ IsSeal(job[c].type)
                        THEN Seals(e) \cup {h + 1} ELSE Seals(e)
        /\ \A n \in Seals(e) : /\ ledger'[OrgOf[e]][n].type = ledger[OrgOf[e]][n].type
                                /\ n \in 1..h
        /\ e = job[c].exec => ledger'[OrgOf[e]][h + 1].type = job[c].type
    BY <1>3, SealsAfterCommit
  <2>3. /\ job[c] \in Jobs /\ job[c].type \in EntryTypes
        /\ pc[c] = "commit"
    BY <1>3, BusyJob DEF Commit, IInv, Jobs
  <2>4. CASE e # job[c].exec
    <3>1. status'[e] = status[e] /\ finalEntry'[e] = finalEntry[e]
      BY <1>3, <2>4 DEF Commit, PublishStatus, IInv, TypeOK
    <3> QED
      BY <2>1, <2>2, <2>4, <3>1
  <2>5. CASE e = job[c].exec /\ ~IsSeal(job[c].type)
    <3>1. finalEntry'[e] = finalEntry[e]
      BY <1>3, <2>5 DEF Commit, PublishStatus
    <3>2. status'[e] = status[e] \/ status'[e] \in {"running", "waiting_approval"}
      <4>1. CASE job[c].type = "action_completed"
        BY <1>3, <4>1 DEF Commit, PublishStatus
      <4>2. CASE job[c].type # "action_completed"
        <5>1. job[c].target \in {"running", "waiting_approval"}
          BY <2>3, <2>5, <4>2 DEF Jobs, Targets, IsSeal, EntryTypes, StatusOnly
        <5> QED
          BY <1>3, <2>5, <4>2, <5>1 DEF Commit, PublishStatus, IInv, TypeOK
      <4> QED
        BY <4>1, <4>2
    <3> QED
      BY <2>1, <2>2, <2>5, <3>1, <3>2 DEF TerminalStatuses
  <2>6. CASE e = job[c].exec /\ IsSeal(job[c].type)
    <3>1. finalEntry'[e] = h + 1
      <4>1. NewSequence(c) = h + 1
        BY <1>3, <2>3, <2>6, CommitsFromHead DEF OrgOfJob
      <4> QED
        BY <1>3, <2>6, <4>1 DEF Commit, PublishStatus, IInv, TypeOK
    <3>2. status'[e] = IF job[c].type = "final" THEN "completed" ELSE job[c].target
      <4>1. status'[e] = job[c].target
        BY <1>3, <2>6 DEF Commit, PublishStatus, IsSeal, IInv, TypeOK
      <4>2. job[c].type = "final" => job[c].target = "completed"
        BY <2>3 DEF Jobs, Targets, StatusOnly
      <4> QED
        BY <4>1, <4>2
    <3>3. job[c].type # "final" =>
            job[c].type = "failure" /\ job[c].target \in {"failed", "blocked"}
      BY <2>3, <2>6 DEF Jobs, Targets, StatusOnly, IsSeal
    <3>4. \A n \in Seals(e)' : n <= h + 1
      BY <2>2, <2>6
    <3>5. Seals(e)' = Seals(e) \cup {h + 1} /\ ledger'[OrgOf[e]][h + 1].type = job[c].type
      BY <2>2, <2>6
    <3>6. finalEntry'[e] # 0 /\ finalEntry'[e] \in Seals(e)'
      BY <3>1, <3>5
    <3>7. \A n \in Seals(e)' : n <= finalEntry'[e]
      BY <3>1, <3>4
    <3>8. ledger'[OrgOf[e]][finalEntry'[e]].type =
            IF status'[e] = "completed" THEN "final" ELSE "failure"
      BY <3>1, <3>2, <3>3, <3>5
    <3> QED
      BY <3>6, <3>7, <3>8
  <2> QED
    BY <2>4, <2>5, <2>6
<1>4. ASSUME NEW c \in Clients, Commit(c), job[c].type # StatusOnly
      PROVE  FinalEntryAgrees'
  BY <1>3, <1>4 DEF FinalEntryAgrees
<1> QED
  BY <1>1, <1>2, <1>4

\* final_entry_id, the ledger and a terminal status agree at every commit of
\* appendLedgerEntryInTransaction and setExecutionStatus: no crash or race
\* leaves an execution terminal without the entry that says so.
THEOREM FinalEntryAlwaysAgrees == Spec => []FinalEntryAgrees
<1>1. Init => FinalEntryAgrees
  BY OrgOfAssumption DEF Init, FinalEntryAgrees, Seals, TerminalStatuses, Absent
<1>2. IInv /\ FinalEntryAgrees /\ [Next]_vars => FinalEntryAgrees'
  <2>1. CASE Next
    BY <2>1, RowStep
  <2>2. CASE UNCHANGED vars
    BY <2>2 DEF vars, chainVars, executionVars, FinalEntryAgrees, Seals
  <2> QED
    BY <2>1, <2>2
<1> QED
  BY <1>1, <1>2, InductiveInvariant, PTL DEF Spec

-----------------------------------------------------------------------------
(* Checkpoints *)

\* The first n entries of a chain hold no multiple of the interval before the
\* interval itself.
LEMMA BoundaryReaches ==
  ASSUME NEW n \in Nat \ {0}, IsBoundary(n)
  PROVE  Interval \in Nat \ {0} /\ n >= Interval
<1>1. Interval \in Nat \ {0} /\ n % Interval = 0
  BY IntervalAssumption DEF IsBoundary
<1>2. n < Interval => n % Interval = n
  BY <1>1
<1> QED
  BY <1>1, <1>2

\* ORDER BY over consecutive sequences counts them.
LEMMA InOrderOfInterval ==
  ASSUME NEW a \in Int, NEW b \in Int, NEW i \in 1..(b - a + 1)
  PROVE  InOrder(a..b, i) = a + i - 1
<1>1. ASSUME NEW n \in a..b PROVE Cardinality({m \in a..b : m <= n}) = n - a + 1
  <2>1. {m \in a..b : m <= n} = a..n
    OBVIOUS
  <2>2. Cardinality(a..n) = IF a > n THEN 0 ELSE n - a + 1
    BY FS_Interval
  <2>3. Cardinality(a..n) = n - a + 1
    BY <2>2
  <2> QED
    BY <2>1, <2>3
<1>2. \A n \in a..b : Cardinality({m \in a..b : m <= n}) = i <=> n = a + i - 1
  BY <1>1
<1>3. a + i - 1 \in a..b
  OBVIOUS
<1> QED
  BY <1>2, <1>3 DEF InOrder

\* Append puts one element after those of a sequence given as a function.
LEMMA AppendIsExtension ==
  ASSUME NEW S, NEW k \in Nat, NEW f \in [1..k -> S], NEW x \in S
  PROVE  Append(f, x) = [i \in 1..(k + 1) |-> IF i = k + 1 THEN x ELSE f[i]]
<1>1. f \in Seq(S) /\ DOMAIN f = 1..k
  BY SeqDef
<1>2. Len(f) = k
  BY <1>1, LenProperties
<1>3. /\ Append(f, x) \in Seq(S) /\ Len(Append(f, x)) = k + 1
      /\ \A i \in 1..k : Append(f, x)[i] = f[i]
      /\ Append(f, x)[k + 1] = x
  BY <1>1, <1>2, AppendProperties
<1>4. Append(f, x) \in [1..(k + 1) -> S]
  BY <1>3, LenProperties
<1>5. Append(f, x) = [i \in 1..(k + 1) |-> Append(f, x)[i]]
  BY <1>4
<1>6. \A i \in 1..(k + 1) : i \in 1..k \/ i = k + 1
  OBVIOUS
<1>7. \A i \in 1..(k + 1) : Append(f, x)[i] = IF i = k + 1 THEN x ELSE f[i]
  BY <1>3, <1>6
<1> QED
  BY <1>5, <1>7

\* The completed intervals of a chain and the hashes each of them names.
Closed(o) == {n \in 1..headSeq[o] : Interval > 0 /\ n % Interval = 0}
Span(o, n) == [i \in 1..Interval |-> ledger[o][n - Interval + i].hash]
Checkpoint(o, n) == [from |-> n - Interval + 1, through |-> n, leaves |-> Span(o, n)]

\* What the leaves of a client's entry are in terms of the committed chain.
OwnLeaves(c) ==
  IF IsBoundary(NewSequence(c))
    THEN [i \in 1..Interval |->
            IF i = Interval THEN NewHash(c)
            ELSE ledger[OrgOfJob(c)][NewSequence(c) - Interval + i].hash]
    ELSE Null

Collected(c) == /\ pc[c] \in {"insert", "check", "mark", "commit"}
                /\ job[c].type # StatusOnly

\* The leaves a transaction collected stay those of the chain it will extend.
LeavesFresh == \A c \in Clients : Collected(c) => leaves[c] = OwnLeaves(c)

\* The SELECT of the prior entry hashes finds all of the interval but its own.
LEMMA LeavesCollected ==
  ASSUME IInv, NEW c \in Clients, CollectLeaves(c), job[c].type # StatusOnly
  PROVE  leaves'[c] = OwnLeaves(c)
<1>1. /\ OrgOfJob(c) \in Orgs /\ base[c].seq = headSeq[OrgOfJob(c)]
      /\ leaves'[c] = IF IsBoundary(NewSequence(c))
                        THEN Append(PriorLeaves(OrgOfJob(c), FromSequence(NewSequence(c)),
                                                NewSequence(c)), NewHash(c))
                        ELSE Null
  BY BusyJob DEF IInv, HeadFresh, Building, CollectLeaves, TypeOK, IsFcn
<1> PICK o \in Orgs : o = OrgOfJob(c)
  BY <1>1
<1> PICK h \in Nat : h = headSeq[o]
  BY DEF IInv, TypeOK
<1>2. NewSequence(c) = h + 1 /\ DOMAIN ledger[o] = 1..h
  BY <1>1 DEF NewSequence, NextSequence, IInv, ChainIntact
<1>3. CASE ~IsBoundary(NewSequence(c))
  BY <1>1, <1>3 DEF OwnLeaves
<1>4. CASE IsBoundary(NewSequence(c))
  <2>1. Interval \in Nat \ {0} /\ h + 1 >= Interval
    BY <1>2, <1>4, BoundaryReaches
  <2> PICK f \in 1..(h + 1) : f = h + 1 - Interval + 1
    BY <2>1
  <2>0. f \in Int /\ h \in Int /\ Interval \in Int /\ f = (h + 1) - Interval + 1
    BY <2>1
  <2> PICK prior : prior = [i \in 1..(Interval - 1) |-> ledger[o][f + i - 1].hash]
    OBVIOUS
  <2>2. (f..((h + 1) - 1)) \cap DOMAIN ledger[o] = f..h
    BY <1>2, <2>0
  <2>3. Cardinality(f..h) = Interval - 1
    <3>1. Cardinality(f..h) = IF f > h THEN 0 ELSE h - f + 1
      BY <2>0, FS_Interval
    <3> QED
      BY <2>0, <2>1, <3>1
  <2>4. \A i \in 1..(Interval - 1) : InOrder(f..h, i) = f + i - 1
    <3>1. Interval - 1 = h - f + 1
      BY <2>0
    <3> QED
      BY <2>0, <3>1, InOrderOfInterval
  <2>5. PriorLeaves(o, f, h + 1) = prior
    <3>1. PriorLeaves(o, f, h + 1)
            = [i \in 1..Cardinality(f..h) |-> ledger[o][InOrder(f..h, i)].hash]
      BY <2>2 DEF PriorLeaves
    <3>2. PriorLeaves(o, f, h + 1)
            = [i \in 1..(Interval - 1) |-> ledger[o][InOrder(f..h, i)].hash]
      BY <2>3, <3>1
    <3> QED
      BY <2>4, <3>2
  <2>6. FromSequence(NewSequence(c)) = f
    BY <1>2, <2>0 DEF FromSequence
  <2>7. leaves'[c] = Append(prior, NewHash(c))
    BY <1>1, <1>2, <1>4, <2>5, <2>6
  <2>8. Append(prior, NewHash(c))
          = [i \in 1..Interval |-> IF i = Interval THEN NewHash(c) ELSE prior[i]]
    <3> PICK S : S = {prior[i] : i \in 1..(Interval - 1)} \cup {NewHash(c)}
      OBVIOUS
    <3>1. Interval - 1 \in Nat /\ (Interval - 1) + 1 = Interval
      BY <2>1
    <3>2. prior \in [1..(Interval - 1) -> S] /\ NewHash(c) \in S
      OBVIOUS
    <3> QED
      BY <3>1, <3>2, AppendIsExtension
  <2>9. OwnLeaves(c) = [i \in 1..Interval |->
                           IF i = Interval THEN NewHash(c) ELSE ledger[o][f + i - 1].hash]
    <3>1. OwnLeaves(c) = [i \in 1..Interval |->
                            IF i = Interval THEN NewHash(c)
                            ELSE ledger[o][(h + 1) - Interval + i].hash]
      BY <1>2, <1>4 DEF OwnLeaves
    <3>2. \A i \in 1..Interval : (h + 1) - Interval + i = f + i - 1
      BY <2>0
    <3> QED
      BY <3>1, <3>2
  <2>10. \A i \in 1..Interval : i # Interval => prior[i] = ledger[o][f + i - 1].hash
    BY <2>1
  <2>11. [i \in 1..Interval |-> IF i = Interval THEN NewHash(c) ELSE prior[i]]
           = [i \in 1..Interval |-> IF i = Interval THEN NewHash(c) ELSE ledger[o][f + i - 1].hash]
    BY <2>10
  <2> QED
    BY <2>7, <2>8, <2>9, <2>11
<1> QED
  BY <1>3, <1>4

\* A step of another client leaves the chain an entry is built on as it is.
LEMMA OthersChain ==
  ASSUME IInv, Next, NEW d \in Clients, Building(d), ~Commit(d)
  PROVE  ledger'[OrgOfJob(d)] = ledger[OrgOfJob(d)]
<1>1. CASE \A c \in Clients : ~Commit(c)
  BY <1>1, OnlyCommitPublishes DEF chainVars
<1>2. ASSUME NEW c \in Clients, Commit(c)
      PROVE  ledger'[OrgOfJob(d)] = ledger[OrgOfJob(d)]
  <2>1. CASE job[c].type = StatusOnly
    BY <1>2, <2>1 DEF Commit, chainVars
  <2>2. CASE job[c].type # StatusOnly
    <3>1. c # d /\ pc[c] = "commit" /\ pc[d] # "idle"
      BY <1>2 DEF Commit, Building
    <3>2. chainLock[OrgOfJob(c)] = c /\ chainLock[OrgOfJob(d)] = d
      BY <2>2, <3>1, CommitsFromHead DEF IInv, HeadFresh
    <3>3. OrgOfJob(c) \in Orgs /\ OrgOfJob(d) \in Orgs /\ OrgOfJob(d) # OrgOfJob(c)
      BY <3>1, <3>2, BusyJob DEF IInv
    <3> QED
      BY <1>2, <2>2, <3>3, CommitExtends
  <2> QED
    BY <2>1, <2>2
<1> QED
  BY <1>1, <1>2

\* Every statement keeps the leaves fresh.
LEMMA LeavesStep ==
  ASSUME IInv, LeavesFresh, Next
  PROVE  LeavesFresh'
<1> SUFFICES ASSUME NEW d \in Clients, Collected(d)'
             PROVE  leaves'[d] = OwnLeaves(d)'
  BY DEF LeavesFresh
<1>1. ASSUME Building(d), ~Commit(d), job'[d] = job[d], base'[d] = base[d]
      PROVE  OwnLeaves(d)' = OwnLeaves(d)
  <2>1. ledger'[OrgOfJob(d)] = ledger[OrgOfJob(d)] /\ OrgOfJob(d)' = OrgOfJob(d)
    BY <1>1, OthersChain DEF OrgOfJob
  <2>2. NewSequence(d)' = NewSequence(d) /\ NewHash(d)' = NewHash(d)
    BY <1>1, <2>1 DEF NewSequence, NewHash
  <2> QED
    BY <2>1, <2>2 DEF OwnLeaves
\* a step that leaves the transaction of d where it has collected
<1>2. ASSUME Collected(d), ~Commit(d), job'[d] = job[d], base'[d] = base[d],
             leaves'[d] = leaves[d]
      PROVE  leaves'[d] = OwnLeaves(d)'
  BY <1>1, <1>2 DEF LeavesFresh, Collected, Building
<1>3. ASSUME NEW e \in Executions, OpenExecution(e)
      PROVE  leaves'[d] = OwnLeaves(d)'
  <2>1. UNCHANGED <<pc, job, base, leaves, chainLock, ledger>>
    BY <1>3 DEF OpenExecution, clientVars, lockVars, chainVars
  <2>2. Collected(d)
    BY <2>1 DEF Collected
  <2>3. OwnLeaves(d)' = OwnLeaves(d)
    BY <2>1 DEF OwnLeaves, NewSequence, NewHash, OrgOfJob
  <2> QED
    BY <2>1, <2>2, <2>3 DEF LeavesFresh
<1>4. ASSUME NEW c \in Clients, NEW j \in Jobs, Begin(c, j)
      PROVE  leaves'[d] = OwnLeaves(d)'
  <2>1. j.type \in EntryTypes \cup {StatusOnly}
    BY DEF Jobs
  <2>2. pc'[c] = FirstStatement(j.type) /\ job'[c] = j
    BY <1>4 DEF Begin, Goto, IInv, TypeOK, IsFcn
  <2>3. d # c
    BY <2>1, <2>2 DEF Collected, FirstStatement, EntryTypes, StatusOnly
  <2>4. pc'[d] = pc[d] /\ job'[d] = job[d] /\ base' = base /\ leaves' = leaves /\ ledger' = ledger
    BY <1>4, <2>3 DEF Begin, Goto, IInv, TypeOK, IsFcn, chainVars
  <2>5. Collected(d)
    BY <2>4 DEF Collected
  <2>6. OwnLeaves(d)' = OwnLeaves(d)
    BY <2>4 DEF OwnLeaves, NewSequence, NewHash, OrgOfJob
  <2> QED
    BY <2>4, <2>5, <2>6 DEF LeavesFresh
<1>5. ASSUME NEW c \in Clients,
             \/ ClaimExecution(c) \/ InsertEntry(c) \/ MarkExecution(c) \/ CheckStatus(c)
             \/ EnsureChainRow(c)
      PROVE  leaves'[d] = OwnLeaves(d)'
  <2>1. UNCHANGED <<job, base, leaves, ledger>>
    BY <1>5 DEF ClaimExecution, InsertEntry, MarkExecution, CheckStatus, EnsureChainRow, chainVars
  <2>2. pc'[d] \in {"insert", "check", "mark", "commit"}
          => pc[d] \in {"insert", "check", "mark", "commit"}
    BY <1>5 DEF ClaimExecution, InsertEntry, MarkExecution, CheckStatus, EnsureChainRow, Goto,
                IInv, TypeOK
  <2>3. Collected(d)
    BY <2>1, <2>2 DEF Collected
  <2>4. OwnLeaves(d)' = OwnLeaves(d)
    BY <2>1 DEF OwnLeaves, NewSequence, NewHash, OrgOfJob
  <2> QED
    BY <2>1, <2>3, <2>4 DEF LeavesFresh
<1>6. ASSUME NEW c \in Clients, LockHead(c)
      PROVE  leaves'[d] = OwnLeaves(d)'
  <2>1. d # c
    BY <1>6 DEF LockHead, Goto, Collected, IInv, TypeOK
  <2>2. pc'[d] = pc[d] /\ base'[d] = base[d] /\ job' = job /\ leaves' = leaves /\ ledger' = ledger
    BY <1>6, <2>1 DEF LockHead, Goto, IInv, TypeOK, IsFcn, chainVars
  <2>3. Collected(d)
    BY <2>2 DEF Collected
  <2>4. OwnLeaves(d)' = OwnLeaves(d)
    BY <2>2 DEF OwnLeaves, NewSequence, NewHash, OrgOfJob
  <2> QED
    BY <2>2, <2>3, <2>4 DEF LeavesFresh
<1>7. ASSUME NEW c \in Clients, CollectLeaves(c)
      PROVE  leaves'[d] = OwnLeaves(d)'
  <2>1. UNCHANGED <<job, base, ledger>>
    BY <1>7 DEF CollectLeaves, chainVars
  <2>2. OwnLeaves(d)' = OwnLeaves(d)
    BY <2>1 DEF OwnLeaves, NewSequence, NewHash, OrgOfJob
  <2>3. CASE d = c
    BY <1>7, <2>1, <2>2, <2>3, LeavesCollected DEF Collected
  <2>4. CASE d # c
    <3>1. pc'[d] = pc[d] /\ leaves'[d] = leaves[d]
      BY <1>7, <2>4 DEF CollectLeaves, Goto, IInv, TypeOK, IsFcn
    <3>2. Collected(d)
      BY <2>1, <3>1 DEF Collected
    <3> QED
      BY <2>2, <3>1, <3>2 DEF LeavesFresh
  <2> QED
    BY <2>3, <2>4
<1>8. ASSUME NEW c \in Clients, Commit(c) \/ Rollback(c)
      PROVE  leaves'[d] = OwnLeaves(d)'
  <2>1. ClearClient(c)
    BY <1>8 DEF Commit, Rollback
  <2>2. d # c
    BY <2>1 DEF ClearClient, Collected, IInv, TypeOK
  <2>3. pc'[d] = pc[d] /\ job'[d] = job[d] /\ base'[d] = base[d] /\ leaves'[d] = leaves[d]
    BY <2>1, <2>2 DEF ClearClient, IInv, TypeOK, IsFcn
  <2>4. Collected(d)
    BY <2>3 DEF Collected
  <2>5. ~Commit(d)
    <3>1. SUFFICES ASSUME Commit(d) PROVE FALSE
      OBVIOUS
    <3>2. pc'[d] = "idle" /\ pc[d] = "commit"
      BY <3>1 DEF Commit, ClearClient, IInv, TypeOK
    <3> QED
      BY <2>3, <3>2
  <2> QED
    BY <1>2, <2>3, <2>4, <2>5
<1> QED
  BY <1>3, <1>4, <1>5, <1>6, <1>7, <1>8 DEF Next, Step

\* What a commit does to the checkpoints of its chain: its entry carries the
\* root, and the checkpoint is there, exactly when it closes an interval.
LEMMA CommitCheckpoints ==
  ASSUME IInv, LeavesFresh, NEW c \in Clients, Commit(c), job[c].type # StatusOnly,
         NEW o \in Orgs, o = OrgOfJob(c), NEW h \in Nat, h = headSeq[o]
  PROVE  /\ IsBoundary(h + 1) =>
              /\ ledger'[o][h + 1].root = Span(o, h + 1)'
              /\ checkpoints'[o] = checkpoints[o] \cup {Checkpoint(o, h + 1)'}
         /\ ~IsBoundary(h + 1) =>
              ledger'[o][h + 1].root = Null /\ checkpoints'[o] = checkpoints[o]
         /\ \A p \in Orgs \ {o} : checkpoints'[p] = checkpoints[p]
<1>1. PublishEntry(c) /\ pc[c] = "commit" /\ Collected(c)
  BY DEF Commit, Collected
<1>2. NewSequence(c) = h + 1
  BY <1>1, CommitsFromHead
<1>3. /\ \A n \in 1..h : ledger'[o][n] = ledger[o][n]
      /\ ledger'[o][h + 1] = NewRow(c)
  BY CommitExtends
<1>4. leaves[c] = OwnLeaves(c)
  BY <1>1 DEF LeavesFresh
<1>5. /\ checkpoints'[o] = IF leaves[c] = Null THEN checkpoints[o]
                           ELSE checkpoints[o] \cup {[from |-> FromSequence(h + 1),
                                                      through |-> h + 1, leaves |-> leaves[c]]}
      /\ \A p \in Orgs \ {o} : checkpoints'[p] = checkpoints[p]
  BY <1>1, <1>2 DEF PublishEntry, IInv, TypeOK, IsFcn
<1>6. ledger'[o][h + 1].root = leaves[c] /\ ledger'[o][h + 1].hash = NewHash(c)
  BY <1>3 DEF NewRow
<1>7. CASE ~IsBoundary(h + 1)
  BY <1>2, <1>4, <1>5, <1>6, <1>7 DEF OwnLeaves
<1>8. CASE IsBoundary(h + 1)
  <2>1. Interval \in Nat \ {0} /\ h + 1 >= Interval
    BY <1>8, BoundaryReaches
  <2>2. leaves[c] = [i \in 1..Interval |->
                       IF i = Interval THEN NewHash(c) ELSE ledger[o][(h + 1) - Interval + i].hash]
    <3>1. IsBoundary(NewSequence(c))
      BY <1>2, <1>8
    <3>2. OwnLeaves(c) = [i \in 1..Interval |->
                            IF i = Interval THEN NewHash(c)
                            ELSE ledger[OrgOfJob(c)][NewSequence(c) - Interval + i].hash]
      BY <3>1 DEF OwnLeaves
    <3> QED
      BY <1>2, <1>4, <3>2
  <2>3. ASSUME NEW i \in 1..Interval
        PROVE  ledger'[o][(h + 1) - Interval + i].hash
                 = IF i = Interval THEN NewHash(c) ELSE ledger[o][(h + 1) - Interval + i].hash
    <3>1. CASE i = Interval
      <4>1. (h + 1) - Interval + i = h + 1
        BY <2>1, <3>1
      <4> QED
        BY <1>6, <3>1, <4>1
    <3>2. CASE i # Interval
      <4>1. (h + 1) - Interval + i \in 1..h
        BY <2>1, <3>2
      <4> QED
        BY <1>3, <3>2, <4>1
    <3> QED
      BY <3>1, <3>2
  <2>4. leaves[c] = Span(o, h + 1)'
    <3>1. Span(o, h + 1)' = [i \in 1..Interval |-> ledger'[o][(h + 1) - Interval + i].hash]
      BY DEF Span
    <3> QED
      BY <2>2, <2>3, <3>1
  <2>5. leaves[c] # Null
    <3>1. 1 \in DOMAIN leaves[c]
      BY <2>1, <2>2
    <3>2. 1 \notin DOMAIN Null
      BY DEF Null
    <3> QED
      BY <3>1, <3>2
  <2>6. checkpoints'[o] = checkpoints[o] \cup {[from |-> FromSequence(h + 1),
                                                through |-> h + 1, leaves |-> leaves[c]]}
    BY <1>5, <2>5
  <2>7. Checkpoint(o, h + 1)' = [from |-> FromSequence(h + 1), through |-> h + 1,
                                 leaves |-> leaves[c]]
    BY <2>4 DEF Checkpoint, FromSequence
  <2>8. ledger'[o][h + 1].root = Span(o, h + 1)'
    BY <1>6, <2>4
  <2> QED
    BY <1>5, <1>8, <2>6, <2>7, <2>8
<1> QED
  BY <1>5, <1>7, <1>8

\* CheckpointsExact, one organization at a time.
ExactFor(o) ==
  /\ checkpoints[o] = {Checkpoint(o, n) : n \in Closed(o)}
  /\ \A n \in 1..headSeq[o] :
       ledger[o][n].root = IF n \in Closed(o) THEN Span(o, n) ELSE Null

LEMMA ExactForAll == CheckpointsExact <=> \A o \in Orgs : ExactFor(o)
BY DEF CheckpointsExact, ExactFor, Checkpoint, Closed, Span

\* Every statement keeps the checkpoints exact.
LEMMA CheckpointStep ==
  ASSUME IInv, LeavesFresh, CheckpointsExact, Next
  PROVE  CheckpointsExact'
<1>0. \A o \in Orgs : ExactFor(o)
  BY ExactForAll
<1> SUFFICES ASSUME NEW o \in Orgs PROVE ExactFor(o)'
  BY DEF CheckpointsExact, ExactFor, Checkpoint, Closed, Span
<1>1. ASSUME headSeq'[o] = headSeq[o], ledger'[o] = ledger[o], checkpoints'[o] = checkpoints[o]
      PROVE  ExactFor(o)'
  <2>1. Closed(o)' = Closed(o)
    BY <1>1 DEF Closed
  <2>2. \A n : Span(o, n)' = Span(o, n) /\ Checkpoint(o, n)' = Checkpoint(o, n)
    BY <1>1 DEF Checkpoint, Span
  <2> QED
    BY <1>0, <1>1, <2>1, <2>2 DEF ExactFor
<1>2. CASE \A c \in Clients : ~Commit(c)
  BY <1>1, <1>2, OnlyCommitPublishes DEF chainVars
<1>3. ASSUME NEW c \in Clients, Commit(c)
      PROVE  ExactFor(o)'
  <2>1. CASE job[c].type = StatusOnly
    BY <1>1, <1>3, <2>1 DEF Commit, chainVars
  <2>2. CASE job[c].type # StatusOnly /\ o # OrgOfJob(c)
    <3>1. OrgOfJob(c) \in Orgs
      BY <1>3, BusyJob DEF Commit, IInv
    <3>2. OrgOfJob(c) \in Orgs /\ headSeq[OrgOfJob(c)] \in Nat
      BY <3>1 DEF IInv, TypeOK
    <3>3. ledger'[o] = ledger[o] /\ headSeq'[o] = headSeq[o]
      BY <1>3, <2>2, <3>1, CommitExtends DEF IInv, TypeOK
    <3>4. checkpoints'[o] = checkpoints[o]
      BY <1>3, <2>2, <3>2, CommitCheckpoints
    <3> QED
      BY <1>1, <3>3, <3>4
  <2>3. CASE job[c].type # StatusOnly /\ o = OrgOfJob(c)
    <3> PICK h \in Nat : h = headSeq[o]
      BY DEF IInv, TypeOK
    <3>1. /\ headSeq'[o] = h + 1
          /\ \A n \in 1..h : ledger'[o][n] = ledger[o][n]
      BY <1>3, <2>3, CommitExtends DEF IInv, TypeOK
    <3>2. /\ IsBoundary(h + 1) =>
               /\ ledger'[o][h + 1].root = Span(o, h + 1)'
               /\ checkpoints'[o] = checkpoints[o] \cup {Checkpoint(o, h + 1)'}
          /\ ~IsBoundary(h + 1) =>
               ledger'[o][h + 1].root = Null /\ checkpoints'[o] = checkpoints[o]
      BY <1>3, <2>3, CommitCheckpoints
    <3>3. Closed(o)' = Closed(o) \cup (IF IsBoundary(h + 1) THEN {h + 1} ELSE {})
      BY <3>1 DEF Closed, IsBoundary
    <3>4. ASSUME NEW n \in Closed(o)
          PROVE  Span(o, n)' = Span(o, n) /\ Checkpoint(o, n)' = Checkpoint(o, n)
      <4>1. n \in 1..h /\ IsBoundary(n)
        BY DEF Closed, IsBoundary
      <4>2. Interval \in Nat \ {0} /\ n >= Interval
        BY <4>1, BoundaryReaches
      <4>3. \A i \in 1..Interval : n - Interval + i \in 1..h
        BY <4>1, <4>2
      <4>4. Span(o, n)' = Span(o, n)
        BY <3>1, <4>3 DEF Span
      <4> QED
        BY <4>4 DEF Checkpoint
    <3>5. h + 1 \notin Closed(o) /\ \A n \in 1..(h + 1) : n \in 1..h \/ n = h + 1
      BY DEF Closed
    <3>6. ASSUME NEW n \in 1..(h + 1)
          PROVE  ledger'[o][n].root = IF n \in Closed(o)' THEN Span(o, n)' ELSE Null
      <4>1. CASE n = h + 1
        BY <3>2, <3>3, <3>5, <4>1
      <4>2. CASE n \in 1..h
        <5>1. ledger'[o][n].root = IF n \in Closed(o) THEN Span(o, n) ELSE Null
          BY <1>0, <3>1, <4>2 DEF ExactFor
        <5>2. n \in Closed(o)' <=> n \in Closed(o)
          BY <3>3, <4>2
        <5> QED
          BY <3>4, <5>1, <5>2
      <4> QED
        BY <3>5, <4>1, <4>2
    <3>7. checkpoints[o] = {Checkpoint(o, n)' : n \in Closed(o)}
      <4>1. checkpoints[o] = {Checkpoint(o, n) : n \in Closed(o)}
        BY <1>0 DEF ExactFor
      <4> QED
        BY <3>4, <4>1
    <3>8. checkpoints'[o] = {Checkpoint(o, n)' : n \in Closed(o)'}
      BY <3>2, <3>3, <3>7
    <3> QED
      BY <3>1, <3>6, <3>8 DEF ExactFor
  <2> QED
    BY <2>1, <2>2, <2>3
<1> QED
  BY <1>2, <1>3

\* The Merkle checkpoints appendLedgerEntryInTransaction writes are exactly the
\* completed intervals, each over the hashes of its entries in order, and an
\* entry carries a root exactly when it closes one, whatever the interval and
\* the interleaving of the appends.
THEOREM CheckpointsStayExact == Spec => []CheckpointsExact
<1>1. Init => LeavesFresh /\ CheckpointsExact
  <2> SUFFICES ASSUME Init PROVE LeavesFresh /\ CheckpointsExact
    OBVIOUS
  <2>1. LeavesFresh
    BY DEF Init, LeavesFresh, Collected
  <2>2. \A o \in Orgs : ExactFor(o)
    BY DEF Init, ExactFor, Closed
  <2> QED
    BY <2>1, <2>2, ExactForAll
<1>2. IInv /\ LeavesFresh /\ CheckpointsExact /\ [Next]_vars => LeavesFresh' /\ CheckpointsExact'
  <2> SUFFICES ASSUME IInv, LeavesFresh, CheckpointsExact, [Next]_vars
               PROVE  LeavesFresh' /\ CheckpointsExact'
    OBVIOUS
  <2>1. CASE Next
    BY <2>1, LeavesStep, CheckpointStep
  <2>2. CASE UNCHANGED vars
    <3>1. LeavesFresh'
      BY <2>2 DEF vars, chainVars, clientVars, LeavesFresh, Collected, OwnLeaves, NewSequence,
                  NewHash, OrgOfJob
    <3>2. CheckpointsExact'
      BY <2>2 DEF vars, chainVars, CheckpointsExact
    <3> QED
      BY <3>1, <3>2
  <2> QED
    BY <2>1, <2>2
<1> QED
  BY <1>1, <1>2, InductiveInvariant, PTL DEF Spec

-----------------------------------------------------------------------------
(***************************************************************************)
(* Refinement: the append path of Ledger implements the atomic hash chain  *)
(* of HashChain.  Only a commit changes a chain (OnlyCommitPublishes), and *)
(* it extends one chain by the row its transaction built (CommitExtends);  *)
(* that this row names the hash of the last entry is HeadFresh and         *)
(* ChainIntact, which IInv holds.                                          *)
(***************************************************************************)

\* What HashChain sees of a row, and of a ledger.
View(row) == [exec |-> row.exec, type |-> row.type, prev |-> row.prev]
ChainView == [o \in Orgs |-> [n \in DOMAIN ledger[o] |-> View(ledger[o][n])]]

\* The ledger of an organization, seen as a chain, is a sequence as long as
\* the head says.
LEMMA ViewIsSequence ==
  ASSUME IInv, NEW o \in Orgs
  PROVE  /\ ChainView[o] \in [1..headSeq[o] -> {ChainView[o][n] : n \in 1..headSeq[o]}]
         /\ ChainView[o] \in Seq({ChainView[o][n] : n \in 1..headSeq[o]})
         /\ Len(ChainView[o]) = headSeq[o]
         /\ headSeq[o] \in Nat
<1>1. headSeq[o] \in Nat /\ DOMAIN ledger[o] = 1..headSeq[o]
  BY DEF IInv, TypeOK, ChainIntact
<1>2. ChainView[o] = [n \in 1..headSeq[o] |-> View(ledger[o][n])]
  BY <1>1 DEF ChainView
<1>3. ChainView[o] \in [1..headSeq[o] -> {ChainView[o][n] : n \in 1..headSeq[o]}]
  BY <1>2
<1>4. ChainView[o] \in Seq({ChainView[o][n] : n \in 1..headSeq[o]})
  BY <1>1, <1>3, SeqDef
<1>5. Len(ChainView[o]) = headSeq[o]
  <2>1. DOMAIN ChainView[o] = 1..headSeq[o]
    BY <1>3
  <2> QED
    BY <1>1, <1>4, <2>1, LenProperties
<1> QED
  BY <1>1, <1>3, <1>4, <1>5

\* The hash HashChain computes for the last entry is the head's.
LEMMA HeadIsHash ==
  ASSUME IInv, NEW o \in Orgs
  PROVE  headHash[o] = IF headSeq[o] = 0 THEN <<>>
                       ELSE <<o, headSeq[o], ChainView[o][headSeq[o]].exec,
                              ChainView[o][headSeq[o]].type, ChainView[o][headSeq[o]].prev>>
<1>1. headSeq[o] \in Nat /\ DOMAIN ledger[o] = 1..headSeq[o]
  BY DEF IInv, TypeOK, ChainIntact
<1>2. headHash[o] = PreviousHash(o, headSeq[o] + 1)
  BY DEF IInv, ChainIntact
<1>3. CASE headSeq[o] = 0
  BY <1>2, <1>3 DEF PreviousHash, Null
<1>4. CASE headSeq[o] # 0
  <2>1. headSeq[o] \in 1..headSeq[o] /\ headSeq[o] + 1 # 1 /\ headSeq[o] + 1 - 1 = headSeq[o]
    BY <1>1, <1>4
  <2>2. headHash[o] = ledger[o][headSeq[o]].hash
    BY <1>2, <2>1 DEF PreviousHash
  <2>3. ledger[o][headSeq[o]].hash =
          EntryHash(o, headSeq[o], ledger[o][headSeq[o]].exec,
                    ledger[o][headSeq[o]].type, ledger[o][headSeq[o]].prev)
    BY <2>1 DEF IInv, ChainIntact
  <2>4. ChainView[o][headSeq[o]] = View(ledger[o][headSeq[o]])
    BY <1>1, <2>1 DEF ChainView
  <2> QED
    BY <1>4, <2>2, <2>3, <2>4 DEF EntryHash, View
<1> QED
  BY <1>3, <1>4

\* A commit of an append is an AppendEntry of the chain.
LEMMA CommitAppends ==
  ASSUME IInv, NEW c \in Clients, Commit(c), job[c].type # StatusOnly,
         NEW e, e = job[c].exec, NEW t, t = job[c].type
  PROVE  Chain!AppendEntry(e, t)
<1>1. /\ pc[c] = "commit" /\ OrgOfJob(c) \in Orgs /\ job[c].exec \in Executions
      /\ OrgOf[job[c].exec] = OrgOfJob(c)
  BY BusyJob DEF Commit, IInv, OrgOfJob
<1> PICK o \in Orgs : o = OrgOfJob(c)
  BY <1>1
<1> PICK h \in Nat : h = headSeq[o]
  BY DEF IInv, TypeOK
<1> DEFINE new == [exec |-> job[c].exec, type |-> job[c].type, prev |-> headHash[o]]
           old == {ChainView[o][n] : n \in 1..h}
<1>2. /\ DOMAIN ledger'[o] = 1..(h + 1)
      /\ \A n \in 1..h : ledger'[o][n] = ledger[o][n]
      /\ ledger'[o][h + 1] = NewRow(c)
      /\ \A p \in Orgs \ {o} : ledger'[p] = ledger[p]
  BY CommitExtends
<1>3. base[c].hash = headHash[o]
  BY <1>1, CommitsFromHead
<1>4. View(NewRow(c)) = new
  BY <1>3 DEF View, NewRow
<1>5. /\ ChainView[o] \in [1..h -> old]
      /\ ChainView[o] \in Seq(old)
      /\ Len(ChainView[o]) = h
  BY ViewIsSequence
<1>6. Append(ChainView[o], new)
        = [n \in 1..(h + 1) |-> IF n = h + 1 THEN new ELSE ChainView[o][n]]
  <2>1. ChainView[o] \in Seq(old \cup {new}) /\ new \in old \cup {new}
    BY <1>5, SeqMonotonic
  <2> HIDE DEF new, old
  <2> QED
    BY <1>5, <2>1
<1>7. ChainView'[o] = Append(ChainView[o], new)
  <2>1. DOMAIN ledger[o] = 1..h
    BY DEF IInv, ChainIntact
  <2>2. ChainView'[o] = [n \in 1..(h + 1) |-> View(ledger'[o][n])]
    BY <1>2 DEF ChainView, View
  <2>3. \A n \in 1..h : ChainView[o][n] = View(ledger[o][n])
    BY <2>1 DEF ChainView
  <2>4. \A n \in 1..(h + 1) :
          View(ledger'[o][n]) = IF n = h + 1 THEN new ELSE ChainView[o][n]
    <3> SUFFICES ASSUME NEW n \in 1..(h + 1)
                 PROVE  View(ledger'[o][n]) = IF n = h + 1 THEN new ELSE ChainView[o][n]
      OBVIOUS
    <3>1. CASE n = h + 1
      BY <1>2, <1>4, <3>1
    <3>2. CASE n # h + 1
      <4>1. n \in 1..h
        BY <3>2
      <4> QED
        BY <1>2, <2>3, <3>2, <4>1
    <3> QED
      BY <3>1, <3>2
  <2> HIDE DEF new
  <2> QED
    BY <1>6, <2>2, <2>4
<1>8. ChainView' = [ChainView EXCEPT ![o] = Append(ChainView[o], new)]
  <2>1. \A p \in Orgs \ {o} : ChainView'[p] = ChainView[p]
    BY <1>2 DEF ChainView
  <2>2. ChainView = [p \in Orgs |-> ChainView[p]] /\ ChainView' = [p \in Orgs |-> ChainView'[p]]
    BY DEF ChainView
  <2> HIDE DEF new
  <2> QED
    BY <1>7, <2>1, <2>2
<1>9. headHash[o] = IF h = 0 THEN <<>>
                    ELSE <<o, h, ChainView[o][h].exec, ChainView[o][h].type, ChainView[o][h].prev>>
  BY HeadIsHash
<1>10. Chain!HashAt(o, h) = headHash[o]
  <2>1. CASE h = 0
    BY <1>9, <2>1 DEF Chain!HashAt
  <2>2. CASE h # 0
    BY <1>9, <2>2 DEF Chain!HashAt, ChainView, View
  <2> QED
    BY <2>1, <2>2
<1> HIDE DEF old
<1>11. ChainView' = [ChainView EXCEPT ![o] =
                       Append(ChainView[o], [exec |-> e, type |-> t,
                                             prev |-> Chain!HashAt(o, Len(ChainView[o]))])]
  BY <1>5, <1>8, <1>10
<1> QED
  BY <1>1, <1>11, Zenon DEF Chain!AppendEntry, ChainView, View

LEMMA ChainInit == Init => Chain!Init
<1> SUFFICES ASSUME Init PROVE Chain!Init
  OBVIOUS
<1>1. \A o \in Orgs : [n \in DOMAIN ledger[o] |->
                        [exec |-> ledger[o][n].exec, type |-> ledger[o][n].type,
                         prev |-> ledger[o][n].prev]] = <<>>
  BY DEF Init
<1> QED
  BY <1>1 DEF Chain!Init

\* A step of the append path appends one linked entry to one chain or
\* changes none.
LEMMA ChainNext ==
  ASSUME IInv, [Next]_vars
  PROVE  [Chain!Next]_ChainView
<1>1. CASE UNCHANGED vars
  BY <1>1 DEF vars, chainVars, ChainView, View
<1>2. CASE Next /\ \A c \in Clients : ~Commit(c)
  BY <1>2, OnlyCommitPublishes DEF chainVars, ChainView, View
<1>3. ASSUME NEW c \in Clients, Commit(c)
      PROVE  [Chain!Next]_ChainView
  <2>1. CASE job[c].type = StatusOnly
    BY <1>3, <2>1 DEF Commit, chainVars, ChainView, View
  <2>2. CASE job[c].type # StatusOnly
    <3>1. job[c] \in Jobs /\ job[c].exec \in Executions
      BY <1>3, BusyJob DEF Commit, IInv
    <3>2. job[c].type \in Chain!EntryTypeNames
      BY <2>2, <3>1 DEF Jobs, EntryTypes, Chain!EntryTypeNames
    <3> PICK e \in Executions, t \in Chain!EntryTypeNames : e = job[c].exec /\ t = job[c].type
      BY <3>1, <3>2
    <3>3. Chain!AppendEntry(e, t)
      BY <1>3, <2>2, CommitAppends
    <3> QED
      BY <3>3 DEF Chain!Next
  <2> QED
    BY <2>1, <2>2
<1> QED
  BY <1>1, <1>2, <1>3

\* Every behavior of the append path, statement by statement, is a behavior
\* of an atomic hash chain per organization (appendLedgerEntry promises what
\* docs/architecture/audit-kernel.md says of the ledger).
THEOREM LedgerImplementsChain == Spec => ImplementsHashChain
<1>1. IInv /\ [Next]_vars => [Chain!Next]_ChainView
  BY ChainNext
<1> QED
  BY <1>1, ChainInit, InductiveInvariant, PTL
  DEF Spec, ImplementsHashChain, Chain!Spec, ChainView, View
=============================================================================
