SPECIFICATION Spec
CONSTANTS
  alice = alice
  aliceBot = aliceBot
  bob = bob
  i1 = i1
  i2 = i2
  r1 = r1
  r2 = r2
  Invocations = {i1}
  Resumptions = {}
  Executions = {i1}
  Ids = {i1}
  Actors = {alice, aliceBot, bob}
  Identities = {"alice", "bob"}
  IdOf <- MCIdOf
  Values = {"v", "odd", "bad", "u"}
  Unserializable = {"u"}
  Capabilities <- RetryVersions
  MaxAttempts = 3
  Window = 0
  MaxClock = 0
  RejectSelfApproval = TRUE
  InlineHandler = TRUE
  StrictAudit = FALSE
  SeamsMayThrow = TRUE
  NoRecord = NoRecord
  None = None
INVARIANT NeverRejects
CHECK_DEADLOCK FALSE
