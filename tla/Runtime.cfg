SPECIFICATION RuntimeSpec
CONSTANTS
  Ids = {a1, a2}
  Executions = {x1, x2}
  Actors = {alice}
  Values = {v1}
  Windows = {1}
  MaxTime = 2
  NoRecord = NoRecord
  None = None
  s1 = s1
  n1 = n1
  n3 = n3
  d1 = d1
  d2 = d2
  m1 = m1
  m2 = m2
  Events = {s1, n1, n3}
  Emitters = {m1, m2}
  Drains = {d1, d2}
  EmitterOf <- MCEmitterOf
  Started = {s1}
  Batching = TRUE
  Size = 2
  Candidates = 3
  PoliciesOf <- MCPoliciesOf
  Gated = {3}
  Concurrency = 2
  Budget = 4
  PolicyTimeout = 3
  Millisecond = 2
  MaxBlock = 1
INVARIANTS CoordinatorTypeOK SingleGrant FinalAnswersStand WrittenOnce CatalogIsAccounted
PROPERTIES LapseIsFinal KeepsLifecycle DrainCovers BufferedIsSent DescribeEnds
CHECK_DEADLOCK FALSE
