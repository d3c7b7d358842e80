SPECIFICATION FairSpec
CONSTANTS
  alice = alice
  aliceBot = aliceBot
  bob = bob
  i1 = i1
  i2 = i2
  r1 = r1
  r2 = r2
  Invocations = {i1}
  Resumptions = {r1}
  Executions = {i1, r1}
  Ids = {i1}
  Actors = {alice, aliceBot, bob}
  Identities = {"alice", "bob"}
  IdOf <- MCIdOf
  Values = {"v", "bad", "u"}
  Unserializable = {"u"}
  Capabilities <- RetryVersions
  MaxAttempts = 3
  Window = 1
  MaxClock = 1
  RejectSelfApproval = TRUE
  InlineHandler = TRUE
  StrictAudit = FALSE
  SeamsMayThrow = TRUE
  NoRecord = NoRecord
  None = None
INVARIANTS EffectIsApproved HonestEffectStatus AttemptsAreBounded LateResultsAreDropped
PROPERTIES NoLateAttempt EveryExecutionEnds
CHECK_DEADLOCK FALSE
