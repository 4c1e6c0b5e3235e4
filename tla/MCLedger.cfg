\* Two connections, the appends and seals of one execution, to the first
\* Merkle boundary.
CONSTANTS
  o1 = o1  e1 = e1  e2 = e2  c1 = c1  c2 = c2
  Orgs = {o1}
  Executions = {e1}
  OrgOf <- OneOrg
  Clients = {c1, c2}
  Nobody = Nobody
  Interval = 2
  MaxEntries = 3
SPECIFICATION FairSpec
INVARIANTS IInv CheckpointsExact FinalEntryAgrees
PROPERTIES ImplementsHashChain EveryAppendEnds
