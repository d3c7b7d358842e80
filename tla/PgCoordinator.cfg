SPECIFICATION Spec
CONSTANTS
  Ids = {a1}
  Executions = {e1, e2}
  Actors = {alice}
  Values = {v1}
  Callers = {c1, c2, c3}
  Windows = {1}
  MaxClock = 2
  NoRecord = NoRecord
  None = None
INVARIANTS SingleGrant VerdictsAreTimely StoredAnswersStand
PROPERTY KeepsLifecycle
CHECK_DEADLOCK FALSE
