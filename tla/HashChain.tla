----------------------------- MODULE HashChain -----------------------------
(***************************************************************************)
(* What the audit ledger promises (docs/architecture/audit-kernel.md): one *)
(* append-only chain per organization, extended one entry at a time, each  *)
(* entry naming the hash of the entry before it.  No locks, no             *)
(* transactions, no failures.                                              *)
(***************************************************************************)
EXTENDS Integers, Sequences

CONSTANTS Orgs, Executions, OrgOf

VARIABLE chain

EntryTypeNames ==
  {"request_opened", "approval_requested", "action_completed", "final", "failure"}

\* The hash of the n-th entry of a chain, NULL (<<>>) before the first.
HashAt(o, n) ==
  IF n = 0 THEN <<>>
  ELSE <<o, n, chain[o][n].exec, chain[o][n].type, chain[o][n].prev>>

Init == chain = [o \in Orgs |-> <<>>]

AppendEntry(e, type) ==
  LET o == OrgOf[e]
      n == Len(chain[o])
  IN  chain' = [chain EXCEPT ![o] =
                  Append(@, [exec |-> e, type |-> type, prev |-> HashAt(o, n)])]

Next == \E e \in Executions, type \in EntryTypeNames : AppendEntry(e, type)

Spec == Init /\ [][Next]_chain
=============================================================================
